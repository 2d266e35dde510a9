----------------------------- MODULE AlarmManager -----------------------------
(***************************************************************************)
(* The alarm manager's core (manager/cmd/manager.go, restapi.go): the      *)
(* goroutines that run ProcessAlarm, for messages that arrive over RMR     *)
(* (Consume), over HTTP (doAction) or from the Alertmanager's answers      *)
(* (ProcessAlerts), and the table of active alarms, the alarm history, the *)
(* limits and the alarm definitions they share.                            *)
(*                                                                         *)
(* What a goroutine does while it holds the mutex is one step; what it     *)
(* does without the mutex is cut into the reads and writes of shared       *)
(* variables, because another goroutine's step may come between them:      *)
(* UpdateAlarmHistoryList runs after the mutex is released.                *)
(***************************************************************************)
EXTENDS AlarmTable

CONSTANTS
    Handlers,            \* goroutines that may run ProcessAlarm at one time
    HttpHandlers,        \* those started by net/http, which recovers a panic
    Free,                \* the mutex is not held
    NoDefinition,        \* the problem has no alarm definition
    ManagerObject,       \* SEP/ALARMMANAGER/(active or history, as the problem says)
    FmObjects,           \* objects whose ApplicationId contains "FM"
    ActiveProblem,       \* ACTIVE_ALARM_EXCEED_MAX_THRESHOLD
    HistoryProblem,      \* ALARM_HISTORY_EXCEED_MAX_THRESHOLD
    NomaEnabled,         \* controls.noma.enabled
    InitialDefinitions,  \* [Problems -> Definition \cup {NoDefinition}]
    InitialConfig,       \* controls.maxActiveAlarms and maxAlarmHistory
    Requests,            \* the messages clients send
    MaxRequests,         \* bound: how many messages are sent
    NewDefinitions,      \* the definitions a client may add, by problem
    Deletable,           \* problems whose definition a client may delete
    NewConfigs,          \* the limits a client or a new config file may set
    MaxChanges           \* bound: how many definition or limit changes are made

Definition == [alarmId : Nat, raiseDelay : Nat, clearDelay : Nat]
Config     == [maxActiveAlarms : Nat, maxAlarmHistory : Nat]

ASSUME ManagerAssumption ==
    /\ Free \notin Handlers
    /\ HttpHandlers \subseteq Handlers
    /\ ManagerObject \in Objects
    /\ FmObjects \subseteq Objects
    /\ {ActiveProblem, HistoryProblem} \subseteq Problems
    /\ ActiveProblem # HistoryProblem
    /\ NomaEnabled \in BOOLEAN
    /\ NoDefinition \notin Definition
    /\ InitialDefinitions \in [Problems -> Definition \cup {NoDefinition}]
    /\ InitialConfig \in Config
    /\ Requests \subseteq Message
    /\ NewDefinitions \subseteq [problem : Problems, raiseDelay : Nat, clearDelay : Nat]
    /\ Deletable \subseteq Problems
    /\ NewConfigs \subseteq Config
    /\ MaxRequests \in Nat /\ MaxChanges \in Nat

\* Only the manager itself raises its threshold alarms; clients may clear them.
ASSUME ClientAssumption ==
    \A m \in Requests : m.action = "RAISE" => m.object # ManagerObject

VARIABLES
    mutex,                    \* a.mutex: who holds it
    activeAlarms,             \* a.activeAlarms
    alarmHistory,             \* a.alarmHistory
    uniqueAlarmId,            \* a.uniqueAlarmId
    exceededActiveAlarmOn,    \* a.exceededActiveAlarmOn
    exceededAlarmHistoryOn,   \* a.exceededAlarmHistoryOn
    maxActiveAlarms,          \* a.maxActiveAlarms
    maxAlarmHistory,          \* a.maxAlarmHistory
    definitions,              \* alarm.RICAlarmDefinitions
    handler,                  \* the program counter and locals of every goroutine
    crashed,                  \* the process died of a panic or a fatal error
    requests,                 \* messages sent so far
    changes                   \* definition and limit changes made so far

flags  == <<exceededActiveAlarmOn, exceededAlarmHistoryOn>>
table  == <<activeAlarms, alarmHistory, uniqueAlarmId, flags>>
config == <<maxActiveAlarms, maxAlarmHistory>>
inputs == <<requests, changes>>

\* What no goroutine that runs ProcessAlarm changes, a generated threshold apart.
setting == <<config, definitions, crashed, inputs>>

vars == <<mutex, table, handler, setting>>

-------------------------------------------------------------------------------
(* Goroutines. *)

\* With the mutex held; "stuck" is a goroutine that panicked holding it.
Critical == {"matched", "raising", "revealing", "clearing", "clearPersist", "stuck"}

\* Inside the GenerateThresholdAlarm that UpdateAlarmHistoryList calls.
Threshold == {"thresholdId", "thresholdIdStore", "thresholdActive",
              "thresholdActiveStore", "thresholdHistory", "thresholdHistoryStore"}

Unlocked == {"waiting", "raiseDelay", "clearDelay", "history", "historyLoad",
             "historyStore", "persist", "post"} \cup Threshold

PCs == {"idle"} \cup Critical \cup Unlocked

\* Locals: m, idx, the threshold alarm being generated, a slice header read.
Local == [pc : PCs, m : Notification, idx : Nat,
          threshold : Notification, loaded : Seq(Notification)]

ZeroNotification == [object |-> ManagerObject, problem |-> ActiveProblem,
                     severity |-> "WARNING", action |-> "CLEAR",
                     id |-> 0, raiseDelay |-> 0]

Idle == [pc |-> "idle", m |-> ZeroNotification, idx |-> 0,
         threshold |-> ZeroNotification, loaded |-> <<>>]

At(h, label) == ~crashed /\ handler[h].pc = label

Goto(h, label) == handler' = [handler EXCEPT ![h].pc = label]

Return(h) == handler' = [handler EXCEPT ![h] = Idle]

Lock(h)   == mutex = Free /\ mutex' = h
Unlock(h) == mutex = h /\ mutex' = Free

Defined(p) == definitions[p] # NoDefinition

(***************************************************************************)
(* A panic (a nil definition is dereferenced, an index is out of range).   *)
(* net/http recovers it: only the goroutine ends, and a mutex it holds     *)
(* stays locked for good. Any other goroutine takes the process down.      *)
(***************************************************************************)
Panic(h) ==
    /\ crashed' = (h \notin HttpHandlers)
    /\ handler' = [handler EXCEPT ![h] =
                      IF mutex = h THEN [Idle EXCEPT !.pc = "stuck"] ELSE Idle]
    /\ UNCHANGED mutex

-------------------------------------------------------------------------------
(* Appends without the mutex. *)

\* A slice header read earlier, over the array that `now` is kept in today.
Overlay(loaded, now) ==
    [i \in DOMAIN loaded |-> IF i \in DOMAIN now THEN now[i] ELSE loaded[i]]

\* The goroutine inside the mutex reads, changes and writes the same variables.
Overlapped == \E h \in Handlers : mutex = h /\ handler[h].pc \in {"raising", "clearing"}

(***************************************************************************)
(* What `list = append(list, e)` leaves in list when it runs without the   *)
(* mutex, `loaded` being the slice it read: the slice read is written back *)
(* with e, its array reallocated since or not, unless the goroutine inside *)
(* the mutex read list before the write and overwrites it.                 *)
(***************************************************************************)
RacyAppend(list, loaded, e) ==
    {Append(loaded, e), Append(Overlay(loaded, list), e)}
        \cup (IF Overlapped THEN {list} ELSE {})

-------------------------------------------------------------------------------
(* ProcessAlarm up to its dispatch. *)

ThresholdAlarm(p, id) ==
    [object |-> ManagerObject, problem |-> p, severity |-> "WARNING",
     action |-> "RAISE", id |-> id, raiseDelay |-> definitions[p].raiseDelay]

\* HandleAlarms, doAction and ProcessAlerts call ProcessAlarm with a message.
Submit(h, m) ==
    /\ At(h, "idle")
    /\ requests < MaxRequests
    /\ requests' = requests + 1
    /\ handler' = [handler EXCEPT ![h] = [Idle EXCEPT !.pc = "waiting", !.m = Notify(m)]]
    /\ UNCHANGED <<mutex, table, config, definitions, crashed, changes>>

\* No definition, nothing to clear, or an action not handled.
Suppress(h) ==
    LET m == handler[h].m IN
    /\ At(h, "waiting")
    /\ mutex = Free
    /\ \/ ~Defined(m.problem)
       \/ m.action = "CLEAR" /\ ~IsMatchFound(activeAlarms, m)
       \/ m.action \notin {"RAISE", "CLEAR"}
    /\ Return(h)
    /\ UNCHANGED <<mutex, table, setting>>

\* The delay is that of the definition found here, whatever becomes of the map.
AcceptRaise(h) ==
    LET m == handler[h].m
        accepted == [handler EXCEPT ![h].m.raiseDelay = definitions[m.problem].raiseDelay] IN
    /\ At(h, "waiting")
    /\ Lock(h)
    /\ Defined(m.problem)
    /\ m.action = "RAISE"
    /\ \/ /\ ~IsMatchFound(activeAlarms, m)
          /\ handler' = [accepted EXCEPT ![h].pc = "raising"]
       \/ \E i \in DOMAIN activeAlarms :
             /\ IsFirstMatch(activeAlarms, m, i)
             /\ handler' = [accepted EXCEPT ![h].pc = "matched", ![h].idx = i]
    /\ UNCHANGED <<table, setting>>

\* The alarm at the index that the search has returned.
Matched(h) == activeAlarms[handler[h].idx]

HasMatched(h) == At(h, "matched") /\ handler[h].idx \in DOMAIN activeAlarms

\* Mutant: a raise of another severity is taken for a duplicate.
SuppressAnySeverity(h) ==
    /\ HasMatched(h)
    /\ Unlock(h)
    /\ Return(h)
    /\ UNCHANGED <<table, setting>>

SuppressDuplicate(h) ==
    /\ HasMatched(h)
    /\ Matched(h).severity = handler[h].m.severity
    /\ Unlock(h)
    /\ Return(h)
    /\ UNCHANGED <<table, setting>>

\* Mutant: the match of another severity is not removed.
ReplaceKeepingOld(h) ==
    /\ HasMatched(h)
    /\ Matched(h).severity # handler[h].m.severity
    /\ Goto(h, "raising")
    /\ UNCHANGED <<mutex, table, setting>>

\* A match of another severity is removed, and ProcessRaiseAlarm is called.
Replace(h) ==
    /\ HasMatched(h)
    /\ Matched(h).severity # handler[h].m.severity
    /\ activeAlarms' = RemoveAlarm(activeAlarms, handler[h].idx)
    /\ Goto(h, "raising")
    /\ UNCHANGED <<mutex, alarmHistory, uniqueAlarmId, flags, setting>>

\* ProcessClearAlarm is called; with a clear delay it releases the mutex.
AcceptClear(h) ==
    LET m == handler[h].m IN
    /\ At(h, "waiting")
    /\ mutex = Free
    /\ Defined(m.problem)
    /\ m.action = "CLEAR"
    /\ \E i \in DOMAIN activeAlarms :
          /\ IsFirstMatch(activeAlarms, m, i)
          /\ IF definitions[m.problem].clearDelay > 0
             THEN /\ handler' = [handler EXCEPT ![h].pc = "clearDelay", ![h].idx = i]
                  /\ UNCHANGED mutex
             ELSE /\ handler' = [handler EXCEPT ![h].pc = "clearing", ![h].idx = i]
                  /\ mutex' = h
    /\ UNCHANGED <<table, setting>>

-------------------------------------------------------------------------------
(* ProcessRaiseAlarm. *)

ActiveLimitReached == Len(activeAlarms) >= maxActiveAlarms /\ ~exceededActiveAlarmOn

\* Mutant: the raise delay is not waited for.
AfterRaisingAtOnce(h, id) ==
    handler' = [handler EXCEPT ![h].m.id = id, ![h].pc = "history"]

AfterRaising(h, id) ==
    handler' = [handler EXCEPT ![h].m.id = id,
                  ![h].pc = IF handler[h].m.raiseDelay > 0 THEN "raiseDelay" ELSE "history"]

Raise(h) ==
    LET id == uniqueAlarmId + 1 IN
    /\ At(h, "raising")
    /\ Defined(handler[h].m.problem)
    /\ ~ActiveLimitReached
    /\ uniqueAlarmId' = id
    /\ activeAlarms' = Append(activeAlarms, [handler[h].m EXCEPT !.id = id])
    /\ AfterRaising(h, id)
    /\ Unlock(h)
    /\ UNCHANGED <<alarmHistory, flags, setting>>

\* Mutant: both alarms get the id of one GenerateAlarmId.
RaiseOverLimitOneId(h) ==
    LET id == uniqueAlarmId + 1
        t  == ThresholdAlarm(ActiveProblem, id) IN
    /\ At(h, "raising")
    /\ Defined(handler[h].m.problem) /\ Defined(ActiveProblem)
    /\ ActiveLimitReached
    /\ uniqueAlarmId' = id
    /\ definitions' = [definitions EXCEPT ![ActiveProblem].alarmId = id]
    /\ activeAlarms' = Append(Append(activeAlarms, t), [handler[h].m EXCEPT !.id = id])
    /\ alarmHistory' = Append(alarmHistory, t)
    /\ exceededActiveAlarmOn' = TRUE
    /\ AfterRaising(h, id)
    /\ Unlock(h)
    /\ UNCHANGED <<exceededAlarmHistoryOn, config, crashed, inputs>>

\* The threshold alarm is generated after m has its id and stored before m.
RaiseOverLimit(h) ==
    LET id == uniqueAlarmId + 1
        t  == ThresholdAlarm(ActiveProblem, id + 1) IN
    /\ At(h, "raising")
    /\ Defined(handler[h].m.problem) /\ Defined(ActiveProblem)
    /\ ActiveLimitReached
    /\ uniqueAlarmId' = id + 1
    /\ definitions' = [definitions EXCEPT ![ActiveProblem].alarmId = id + 1]
    /\ activeAlarms' = Append(Append(activeAlarms, t), [handler[h].m EXCEPT !.id = id])
    /\ alarmHistory' = Append(alarmHistory, t)
    /\ exceededActiveAlarmOn' = TRUE
    /\ AfterRaising(h, id)
    /\ Unlock(h)
    /\ UNCHANGED <<exceededAlarmHistoryOn, config, crashed, inputs>>

\* Mutant: a failed search is not noticed.
RaiseDelayOverUnchecked(h) ==
    /\ At(h, "raiseDelay")
    /\ Lock(h)
    /\ \E i \in DOMAIN activeAlarms \cup {0 - 1} :
          /\ IF i = 0 - 1 THEN ~IsMatchFound(activeAlarms, handler[h].m)
                          ELSE IsFirstMatch(activeAlarms, handler[h].m, i)
          /\ handler' = [handler EXCEPT ![h].pc = "revealing", ![h].idx = i]
    /\ UNCHANGED <<table, setting>>

\* The raise delay has elapsed and an alarm of this identity is active.
RaiseDelayOver(h) ==
    /\ At(h, "raiseDelay")
    /\ Lock(h)
    /\ \E i \in DOMAIN activeAlarms :
          /\ IsFirstMatch(activeAlarms, handler[h].m, i)
          /\ handler' = [handler EXCEPT ![h].pc = "revealing", ![h].idx = i]
    /\ UNCHANGED <<table, setting>>

\* Mutant: the alarm's RaiseDelay stays above 0 in the table.
RevealHidden(h) ==
    /\ At(h, "revealing")
    /\ handler[h].idx \in DOMAIN activeAlarms
    /\ handler' = [handler EXCEPT ![h].pc = "history", ![h].m.raiseDelay = 0]
    /\ Unlock(h)
    /\ UNCHANGED <<table, setting>>

Reveal(h) ==
    /\ At(h, "revealing")
    /\ handler[h].idx \in DOMAIN activeAlarms
    /\ activeAlarms' = [activeAlarms EXCEPT ![handler[h].idx].raiseDelay = 0]
    /\ handler' = [handler EXCEPT ![h].pc = "history", ![h].m.raiseDelay = 0]
    /\ Unlock(h)
    /\ UNCHANGED <<alarmHistory, uniqueAlarmId, flags, setting>>

RaiseAbandoned(h) ==
    /\ At(h, "raiseDelay")
    /\ mutex = Free
    /\ ~IsMatchFound(activeAlarms, handler[h].m)
    /\ Return(h)
    /\ UNCHANGED <<mutex, table, setting>>

-------------------------------------------------------------------------------
(* UpdateAlarmHistoryList and what follows, without the mutex. *)

\* Mutant: a full history is waited for.
CheckHistoryWaiting(h) ==
    /\ At(h, "history")
    /\ Goto(h, IF Len(alarmHistory) >= maxAlarmHistory THEN "history" ELSE "historyLoad")
    /\ UNCHANGED <<mutex, table, setting>>

CheckHistory(h) ==
    /\ At(h, "history")
    /\ Goto(h, IF Len(alarmHistory) >= maxAlarmHistory /\ ~exceededAlarmHistoryOn
               THEN "thresholdId" ELSE "historyLoad")
    /\ UNCHANGED <<mutex, table, setting>>

LoadId(h) ==
    /\ At(h, "thresholdId")
    /\ handler' = [handler EXCEPT ![h].pc = "thresholdIdStore",
                                  ![h].threshold.id = uniqueAlarmId]
    /\ UNCHANGED <<mutex, table, setting>>

\* The increment is written, unless the mutex holder's overwrites it.
RacyIncrement(loadedId) ==
    {loadedId + 1} \cup (IF Overlapped THEN {uniqueAlarmId} ELSE {})

\* The definition that all goroutines share takes the alarm's id as its own. The id is
\* the value stored, which the compiler returns without reading the counter again.
StoreId(h) ==
    LET id == handler[h].threshold.id + 1 IN
    /\ At(h, "thresholdIdStore")
    /\ Defined(HistoryProblem)
    /\ uniqueAlarmId' \in RacyIncrement(handler[h].threshold.id)
    /\ definitions' = [definitions EXCEPT ![HistoryProblem].alarmId = id]
    /\ handler' = [handler EXCEPT ![h].pc = "thresholdActive",
                                  ![h].threshold = ThresholdAlarm(HistoryProblem, id)]
    /\ UNCHANGED <<mutex, activeAlarms, alarmHistory, flags, config, crashed, inputs>>

LoadActive(h) ==
    /\ At(h, "thresholdActive")
    /\ handler' = [handler EXCEPT ![h].pc = "thresholdActiveStore",
                                  ![h].loaded = activeAlarms]
    /\ UNCHANGED <<mutex, table, setting>>

StoreActive(h) ==
    /\ At(h, "thresholdActiveStore")
    /\ activeAlarms' \in RacyAppend(activeAlarms, handler[h].loaded, handler[h].threshold)
    /\ Goto(h, "thresholdHistory")
    /\ UNCHANGED <<mutex, alarmHistory, uniqueAlarmId, flags, setting>>

\* Both appends to the history begin by reading its slice.
LoadHistory(h) ==
    /\ \/ At(h, "thresholdHistory") /\ handler' = [handler EXCEPT
             ![h].pc = "thresholdHistoryStore", ![h].loaded = alarmHistory]
       \/ At(h, "historyLoad") /\ handler' = [handler EXCEPT
             ![h].pc = "historyStore", ![h].loaded = alarmHistory]
    /\ UNCHANGED <<mutex, table, setting>>

StoreThresholdHistory(h) ==
    /\ At(h, "thresholdHistoryStore")
    /\ alarmHistory' \in RacyAppend(alarmHistory, handler[h].loaded, handler[h].threshold)
    /\ exceededAlarmHistoryOn' = TRUE
    /\ Goto(h, "historyLoad")
    /\ UNCHANGED <<mutex, activeAlarms, uniqueAlarmId, exceededActiveAlarmOn, setting>>

StoreHistory(h) ==
    /\ At(h, "historyStore")
    /\ alarmHistory' \in RacyAppend(alarmHistory, handler[h].loaded, handler[h].m)
    /\ handler' = [handler EXCEPT ![h] = [Idle EXCEPT !.pc = "persist", !.m = handler[h].m]]
    /\ UNCHANGED <<mutex, activeAlarms, uniqueAlarmId, flags, setting>>

\* The table is written to the persistent volume: nothing changes in memory.
Persist(h) ==
    /\ At(h, "persist")
    /\ Goto(h, "post")
    /\ UNCHANGED <<mutex, table, setting>>

\* The alert's labels are taken from the definition, except for FM and NOMA.
LabelsNeedDefinition(m) == ~NomaEnabled /\ m.object \notin FmObjects

Post(h) ==
    /\ At(h, "post")
    /\ LabelsNeedDefinition(handler[h].m) => Defined(handler[h].m.problem)
    /\ Return(h)
    /\ UNCHANGED <<mutex, table, setting>>

-------------------------------------------------------------------------------
(* ProcessClearAlarm. *)

\* Mutants: the index of before the delay is used; a failed search is not noticed.
ClearDelayOverStale(h) ==
    /\ At(h, "clearDelay")
    /\ Lock(h)
    /\ IsMatchFound(activeAlarms, handler[h].m)
    /\ Goto(h, "clearing")
    /\ UNCHANGED <<table, setting>>

ClearDelayOverUnchecked(h) ==
    /\ At(h, "clearDelay")
    /\ Lock(h)
    /\ \E i \in DOMAIN activeAlarms \cup {0 - 1} :
          /\ IF i = 0 - 1 THEN ~IsMatchFound(activeAlarms, handler[h].m)
                          ELSE IsFirstMatch(activeAlarms, handler[h].m, i)
          /\ handler' = [handler EXCEPT ![h].pc = "clearing", ![h].idx = i]
    /\ UNCHANGED <<table, setting>>

\* The clear delay has elapsed: the alarm is looked up again.
ClearDelayOver(h) ==
    /\ At(h, "clearDelay")
    /\ Lock(h)
    /\ \E i \in DOMAIN activeAlarms :
          /\ IsFirstMatch(activeAlarms, handler[h].m, i)
          /\ handler' = [handler EXCEPT ![h].pc = "clearing", ![h].idx = i]
    /\ UNCHANGED <<table, setting>>

\* Mutant: waits for the alarm to appear again.
ClearAbandonedRetried(h) ==
    /\ At(h, "clearDelay")
    /\ mutex = Free
    /\ ~IsMatchFound(activeAlarms, handler[h].m)
    /\ UNCHANGED vars

ClearAbandoned(h) ==
    /\ At(h, "clearDelay")
    /\ mutex = Free
    /\ ~IsMatchFound(activeAlarms, handler[h].m)
    /\ Return(h)
    /\ UNCHANGED <<mutex, table, setting>>

ClearedHistory(h) ==
    Append(alarmHistory, [handler[h].m EXCEPT !.id = activeAlarms[handler[h].idx].id])

HistoryLimitReached(h) ==
    Len(ClearedHistory(h)) >= maxAlarmHistory /\ ~exceededAlarmHistoryOn

\* Mutant: the flags stay up.
ResetFlagsNever(h) == UNCHANGED flags

\* A flag goes down with the clear of any alarm of its problem.
ResetFlags(h) ==
    /\ exceededActiveAlarmOn'  = (exceededActiveAlarmOn
                                    /\ handler[h].m.problem # ActiveProblem)
    /\ exceededAlarmHistoryOn' = (exceededAlarmHistoryOn
                                    /\ handler[h].m.problem # HistoryProblem)

CanClear(h) == Defined(handler[h].m.problem) /\ handler[h].idx \in DOMAIN activeAlarms

\* Mutant: the alarm stays in the table.
ClearKeepingAlarm(h) ==
    /\ At(h, "clearing")
    /\ CanClear(h)
    /\ ~HistoryLimitReached(h)
    /\ alarmHistory' = ClearedHistory(h)
    /\ ResetFlags(h)
    /\ Goto(h, "clearPersist")
    /\ UNCHANGED <<mutex, activeAlarms, uniqueAlarmId, setting>>

Clear(h) ==
    /\ At(h, "clearing")
    /\ CanClear(h)
    /\ ~HistoryLimitReached(h)
    /\ alarmHistory' = ClearedHistory(h)
    /\ activeAlarms' = RemoveAlarm(activeAlarms, handler[h].idx)
    /\ ResetFlags(h)
    /\ Goto(h, "clearPersist")
    /\ UNCHANGED <<mutex, uniqueAlarmId, setting>>

\* GenerateThresholdAlarm's result is not assigned to the flag here.
ClearOverLimit(h) ==
    LET id == uniqueAlarmId + 1
        t  == ThresholdAlarm(HistoryProblem, id) IN
    /\ At(h, "clearing")
    /\ CanClear(h)
    /\ HistoryLimitReached(h)
    /\ Defined(HistoryProblem)
    /\ uniqueAlarmId' = id
    /\ definitions' = [definitions EXCEPT ![HistoryProblem].alarmId = id]
    /\ alarmHistory' = Append(ClearedHistory(h), t)
    /\ activeAlarms' = Append(RemoveAlarm(activeAlarms, handler[h].idx), t)
    /\ ResetFlags(h)
    /\ Goto(h, "clearPersist")
    /\ UNCHANGED <<mutex, config, crashed, inputs>>

\* Mutant: the mutex is not released.
ClearDoneLocked(h) ==
    /\ At(h, "clearPersist")
    /\ Return(h)
    /\ UNCHANGED <<mutex, table, setting>>

ClearDone(h) ==
    /\ At(h, "clearPersist")
    /\ Unlock(h)
    /\ Return(h)
    /\ UNCHANGED <<table, setting>>

-------------------------------------------------------------------------------
(* Panics, where a definition or the index is gone. *)

\* The index that the search returned.
PanicIndex(h) ==
    /\ At(h, "matched") \/ At(h, "revealing")
    /\ handler[h].idx \notin DOMAIN activeAlarms
    /\ Panic(h)
    /\ UNCHANGED <<table, config, definitions, inputs>>

\* UpdateAlarmFields, or the threshold alarm after it took an id too.
PanicRaising(h) ==
    /\ At(h, "raising")
    /\ \/ ~Defined(handler[h].m.problem) /\ uniqueAlarmId' = uniqueAlarmId + 1
       \/ /\ Defined(handler[h].m.problem)
          /\ ActiveLimitReached /\ ~Defined(ActiveProblem)
          /\ uniqueAlarmId' = uniqueAlarmId + 2
    /\ Panic(h)
    /\ UNCHANGED <<activeAlarms, alarmHistory, flags, config, definitions, inputs>>

PanicClearing(h) ==
    /\ At(h, "clearing")
    /\ \/ ~CanClear(h) /\ UNCHANGED <<activeAlarms, alarmHistory, uniqueAlarmId>>
       \/ /\ CanClear(h)
          /\ HistoryLimitReached(h) /\ ~Defined(HistoryProblem)
          /\ alarmHistory' = ClearedHistory(h)
          /\ activeAlarms' = RemoveAlarm(activeAlarms, handler[h].idx)
          /\ uniqueAlarmId' = uniqueAlarmId + 1
    /\ Panic(h)
    /\ UNCHANGED <<flags, config, definitions, inputs>>

\* GenerateThresholdAlarm without the mutex.
PanicThreshold(h) ==
    /\ At(h, "thresholdIdStore")
    /\ ~Defined(HistoryProblem)
    /\ uniqueAlarmId' \in RacyIncrement(handler[h].threshold.id)
    /\ Panic(h)
    /\ UNCHANGED <<activeAlarms, alarmHistory, flags, config, definitions, inputs>>

\* GenerateAlertLabels.
PanicPosting(h) ==
    /\ At(h, "post")
    /\ LabelsNeedDefinition(handler[h].m)
    /\ ~Defined(handler[h].m.problem)
    /\ Panic(h)
    /\ UNCHANGED <<table, config, definitions, inputs>>

-------------------------------------------------------------------------------
(* The REST interface and configuration changes, without the mutex. *)

\* The Go runtime may stop a program that writes a map while a goroutine reads it or a
\* request for the definitions (GetAlarmDefinition, SymptomDataHandler) iterates over it.
WriteMap == ~crashed /\ crashed' \in BOOLEAN

SetAlarmDefinition(d) ==
    /\ WriteMap
    /\ changes < MaxChanges
    /\ changes' = changes + 1
    /\ ~Defined(d.problem)
    /\ definitions' = [definitions EXCEPT ![d.problem] =
          [alarmId |-> d.problem, raiseDelay |-> d.raiseDelay, clearDelay |-> d.clearDelay]]
    /\ UNCHANGED <<mutex, table, config, handler, requests>>

DeleteAlarmDefinition(p) ==
    /\ WriteMap
    /\ changes < MaxChanges
    /\ changes' = changes + 1
    /\ Defined(p)
    /\ definitions' = [definitions EXCEPT ![p] = NoDefinition]
    /\ UNCHANGED <<mutex, table, config, handler, requests>>

SetLimits(active, history) ==
    /\ ~crashed
    /\ changes < MaxChanges
    /\ changes' = changes + 1
    /\ maxActiveAlarms' = active
    /\ maxAlarmHistory' = history
    /\ UNCHANGED <<mutex, table, definitions, handler, crashed, requests>>

SetAlarmConfig(c) == SetLimits(c.maxActiveAlarms, c.maxAlarmHistory)

DefaultMaxActiveAlarms == 5000
DefaultMaxAlarmHistory == 20000

\* A limit that is not configured is 0 and gets its default.
Limit(configured, default) == IF configured = 0 THEN default ELSE configured

\* A limit of 0 can be seen before its default replaces it: what is seen then is what
\* SetAlarmConfig(c) leaves.
ConfigChangeCB(c) == SetLimits(Limit(c.maxActiveAlarms, DefaultMaxActiveAlarms),
                               Limit(c.maxAlarmHistory, DefaultMaxAlarmHistory))

-------------------------------------------------------------------------------
Init ==
    /\ mutex = Free
    /\ activeAlarms = <<>>
    /\ alarmHistory = <<>>
    /\ uniqueAlarmId = 0
    /\ exceededActiveAlarmOn = FALSE
    /\ exceededAlarmHistoryOn = FALSE
    /\ maxActiveAlarms = Limit(InitialConfig.maxActiveAlarms, DefaultMaxActiveAlarms)
    /\ maxAlarmHistory = Limit(InitialConfig.maxAlarmHistory, DefaultMaxAlarmHistory)
    /\ definitions = InitialDefinitions
    /\ handler = [h \in Handlers |-> Idle]
    /\ crashed = FALSE
    /\ requests = 0
    /\ changes = 0

\* Steps that begin by taking the mutex.
Acquire(h) ==
    \/ Suppress(h) \/ AcceptRaise(h) \/ AcceptClear(h)
    \/ RaiseDelayOver(h) \/ RaiseAbandoned(h)
    \/ ClearDelayOver(h) \/ ClearAbandoned(h)

\* Steps of a goroutine that holds the mutex already or does without.
Proceed(h) ==
    \/ SuppressDuplicate(h) \/ Replace(h) \/ Reveal(h) \/ PanicIndex(h)
    \/ Raise(h) \/ RaiseOverLimit(h) \/ PanicRaising(h)
    \/ CheckHistory(h) \/ LoadId(h) \/ StoreId(h) \/ PanicThreshold(h)
    \/ LoadActive(h) \/ StoreActive(h)
    \/ LoadHistory(h) \/ StoreThresholdHistory(h) \/ StoreHistory(h)
    \/ Persist(h) \/ Post(h) \/ PanicPosting(h)
    \/ Clear(h) \/ ClearOverLimit(h) \/ PanicClearing(h) \/ ClearDone(h)

Environment ==
    \/ \E d \in NewDefinitions : SetAlarmDefinition(d)
    \/ \E p \in Deletable : DeleteAlarmDefinition(p)
    \/ \E c \in NewConfigs : SetAlarmConfig(c) \/ ConfigChangeCB(c)

\* Nothing is left to do: the clients are silent, or the process is dead.
Done ==
    /\ \/ crashed
       \/ requests = MaxRequests /\ \A h \in Handlers : handler[h].pc = "idle"
    /\ UNCHANGED vars

Next ==
    \/ \E h \in Handlers, m \in Requests : Submit(h, m)
    \/ \E h \in Handlers : Acquire(h) \/ Proceed(h)
    \/ Environment
    \/ Done

Spec == Init /\ [][Next]_vars

(***************************************************************************)
(* sync.Mutex hands the lock to a goroutine that has waited for 1 ms, the  *)
(* Go scheduler runs every ready goroutine and timers fire. A post to NOMA *)
(* has no timeout, one to the Alertmanager has.                            *)
(***************************************************************************)
Bounded(h) == ~(NomaEnabled /\ At(h, "post"))

Fairness ==
    \A h \in Handlers : SF_vars(Acquire(h)) /\ WF_vars(Bounded(h) /\ Proceed(h))

FairSpec == Spec /\ Fairness

===============================================================================
