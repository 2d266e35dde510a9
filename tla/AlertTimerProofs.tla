--------------------------- MODULE AlertTimerProofs ---------------------------
(***************************************************************************)
(* The mutex beside the alert timer, which holds it over two HTTP          *)
(* exchanges, for any number of goroutines and any alerts.                 *)
(***************************************************************************)
EXTENDS AlertTimer, AlarmManagerProofs

\* The mutex may be the timer's, everything else is typed as without it.
AlertTypeOK ==
    /\ DataOK
    /\ mutex \in Handlers \cup {Free, Timer}
    /\ alerts \subseteq FmAlerts

AlertInv == AlertTypeOK /\ AlertLockDiscipline

-------------------------------------------------------------------------------
\* While the timer sleeps the types are those of the manager alone.
LEMMA AsleepTyped == AlertInv /\ phase = "asleep" => TypeOK /\ LockDiscipline
BY TypeSplit DEF AlertInv, AlertTypeOK, AlertLockDiscipline

\* While it does not, no goroutine is in a critical section.
LEMMA AwakeAlone ==
    AlertInv /\ phase # "asleep" =>
        mutex = Timer /\ \A h \in Handlers : mutex # h /\ handler[h].pc \notin Critical
BY AlertAssumption DEF AlertInv, AlertLockDiscipline, LockDiscipline

\* What no goroutine does leaves the mutex and the critical sections alone.
LEMMA ClientsKeep ==
    ASSUME AlertInv, ClientsBeside
    PROVE  AlertInv'
<1>1. DataOK'
  BY NextTyped DEF AlertInv, AlertTypeOK, ClientsBeside, Next
<1>2. UNCHANGED <<mutex, phase, alerts>>
  BY OutsideMutex DEF ClientsBeside, clock
<1>3. \A h \in Handlers : handler'[h].pc \in Critical <=> handler[h].pc \in Critical
  <2>1. ASSUME NEW h \in Handlers, NEW m \in Requests, Submit(h, m)
        PROVE  /\ handler[h].pc = "idle" /\ handler'[h].pc = "waiting"
               /\ \A k \in Handlers \ {h} : handler'[k] = handler[k]
    BY <2>1 DEF Submit, At, Idle, AlertInv, AlertTypeOK, DataOK
  <2>2. CASE Environment
    BY <2>2 DEF Environment, SetAlarmDefinition, DeleteAlarmDefinition, SetAlarmConfig,
       ConfigChangeCB, SetLimits
  <2> QED BY <2>1, <2>2 DEF ClientsBeside, Critical
<1> QED BY <1>1, <1>2, <1>3
        DEF AlertInv, AlertTypeOK, AlertLockDiscipline, LockDiscipline

\* While the timer sleeps, the goroutines take and release the mutex as without it; while
\* it does not, only what needs no mutex goes on.
LEMMA HandlersKeep ==
    ASSUME AlertInv, NEW h \in Handlers, AcquireBeside(h) \/ ProceedBeside(h)
    PROVE  AlertInv'
<1>1. Acquire(h) \/ Proceed(h)
  BY DEF AcquireBeside, ProceedBeside, PostBeside, OtherSteps, Proceed
<1>2. UNCHANGED <<phase, alerts>>
  BY DEF AcquireBeside, ProceedBeside, PostBeside, clock
<1>3. DataOK'
  BY <1>1, NextTyped DEF AlertInv, AlertTypeOK, Next
<1>4. CASE phase = "asleep"
  <2>1. TypeOK /\ LockDiscipline
    BY <1>4, AsleepTyped
  <2>2. TypeOK' /\ LockDiscipline'
    BY <1>1, <2>1, StepTyped, StepLocks DEF Next
  <2>3. mutex' \in Handlers \cup {Free} /\ mutex' # Timer
    BY <2>2, AlertAssumption DEF TypeOK
  <2> QED BY <1>2, <1>3, <1>4, <2>2, <2>3
          DEF AlertInv, AlertTypeOK, AlertLockDiscipline
<1>5. CASE phase # "asleep"
  <2>1. mutex = Timer /\ \A k \in Handlers : mutex # k /\ handler[k].pc \notin Critical
    BY <1>5, AwakeAlone
  <2>2. Proceed(h)
    BY <1>1, <2>1, AcquireNeedsFree, AlertAssumption
  <2>3. UNCHANGED mutex /\ handler'[h].pc \notin Critical
    BY <2>1, <2>2, UnlockedStays DEF AlertInv, AlertTypeOK
  <2>4. \A k \in Handlers \ {h} : handler'[k] = handler[k]
    BY <1>1, OthersStay DEF AlertInv, AlertTypeOK
  <2> QED BY <1>2, <1>3, <1>5, <2>1, <2>3, <2>4
          DEF AlertInv, AlertTypeOK, AlertLockDiscipline, LockDiscipline
<1> QED BY <1>4, <1>5

\* The messages that follow from the alerts can be dealt with as any other.
LEMMA FollowingTyped ==
    ASSUME AlertTypeOK
    PROVE  Following \subseteq Notification
<1>1. Entries(activeAlarms) \subseteq Notification
  BY LenProperties, ElementOfSeq DEF AlertTypeOK, DataOK, Entries
<1>2. alerts \subseteq Message
  BY AlertAssumption DEF AlertTypeOK
<1>3. ASSUME NEW a \in alerts PROVE Notify(a) \in Notification
  BY <1>2 DEF Notify, Message, Notification
<1>4. ASSUME NEW e \in Entries(activeAlarms)
      PROVE  Notify([e EXCEPT !.action = "CLEAR"]) \in Notification
  BY <1>1 DEF Notify, Notification, Actions
<1> QED BY <1>3, <1>4 DEF Following

\* The workers that ProcessAlerts starts were idle and wait for the mutex.
LEMMA ProcessAlertsKeeps ==
    ASSUME AlertInv, ProcessAlerts
    PROVE  AlertInv'
<1>1. PICK start \in [Following -> IdleWorkers] :
         handler' = [h \in Handlers |->
                       IF \E m \in Following : start[m] = h
                       THEN [Idle EXCEPT !.pc = "waiting",
                                         !.m = CHOOSE m \in Following : start[m] = h]
                       ELSE handler[h]]
  BY DEF ProcessAlerts
<1>2. /\ UNCHANGED <<mutex, table, setting, alerts>>
      /\ phase # "asleep" /\ phase' # "asleep"
  BY DEF ProcessAlerts
<1>3. ASSUME NEW h \in Handlers, \E m \in Following : start[m] = h
      PROVE  /\ handler[h].pc = "idle" /\ handler'[h].pc = "waiting"
             /\ handler'[h] \in Local
  <2> DEFINE n == CHOOSE m \in Following : start[m] = h
  <2>1. n \in Following /\ start[n] = h
    BY <1>3
  <2>2. handler'[h] = [Idle EXCEPT !.pc = "waiting", !.m = n]
    BY <1>1, <1>3
  <2> HIDE DEF n
  <2>3. h \in IdleWorkers
    BY <1>1, <2>1
  <2>4. n \in Notification
    BY <2>1, FollowingTyped DEF AlertInv
  <2>5. [Idle EXCEPT !.pc = "waiting", !.m = n] \in Local
    BY <2>4, IdleTyped DEF Local, PCs, Unlocked
  <2>6. [Idle EXCEPT !.pc = "waiting", !.m = n].pc = "waiting"
    BY DEF Idle
  <2> QED BY <2>2, <2>3, <2>5, <2>6 DEF IdleWorkers
<1>4. ASSUME NEW h \in Handlers, ~\E m \in Following : start[m] = h
      PROVE  handler'[h] = handler[h]
  BY <1>1, <1>4
<1>5. handler' \in [Handlers -> Local]
  <2>1. \A h \in Handlers : handler'[h] \in Local
    BY <1>3, <1>4 DEF AlertInv, AlertTypeOK, DataOK
  <2>2. handler' = [h \in Handlers |-> handler'[h]]
    BY <1>1
  <2> QED BY <2>1, <2>2
<1>6. AlertTypeOK'
  BY <1>2, <1>5
     DEF AlertInv, AlertTypeOK, DataOK, table, flags, setting, config, inputs
<1>7. \A h \in Handlers : handler'[h].pc \in Critical <=> handler[h].pc \in Critical
  BY <1>3, <1>4 DEF Critical
<1> QED BY <1>2, <1>6, <1>7 DEF AlertInv, AlertLockDiscipline, LockDiscipline

\* The other steps of the timer take the mutex when it is free, keep it, or release it.
LEMMA TimerKeeps ==
    ASSUME AlertInv, Tick \/ GetAlertsFails \/ Posted
    PROVE  AlertInv'
<1>1. /\ UNCHANGED <<table, handler, config, definitions, inputs, alerts>>
      /\ crashed' \in {crashed, TRUE}
  BY DEF Tick, GetAlertsFails, Posted, RePost, RePostPanics, vars, setting, clock
<1>2. DataOK'
  BY <1>1 DEF AlertInv, AlertTypeOK, DataOK, table, flags, config, inputs
<1>3. \/ mutex = Free /\ phase = "asleep" /\ mutex' = Timer /\ phase' # "asleep"
      \/ mutex = Timer /\ mutex' = Free /\ phase' = "asleep"
      \/ UNCHANGED mutex /\ phase # "asleep" /\ phase' # "asleep"
  BY DEF Tick, GetAlertsFails, Posted, RePost, RePostPanics, Lock, Unlock, vars,
     clock
<1>4. AlertTypeOK'
  BY <1>1, <1>2, <1>3 DEF AlertInv, AlertTypeOK
<1> QED BY <1>1, <1>3, <1>4, AlertAssumption, ManagerAssumption
        DEF AlertInv, AlertLockDiscipline, LockDiscipline

\* The Alertmanager has nothing to do with the mutex.
LEMMA AlertmanagerKeeps ==
    ASSUME AlertInv,
           \/ \E a \in FmAlerts : Fire(a) \/ Resolve(a)
           \/ \E l \in posted : TimeOut(l)
           \/ Crashed \/ UNCHANGED alertVars
    PROVE  AlertInv'
<1>1. UNCHANGED <<vars, phase>> /\ alerts' \subseteq FmAlerts
  BY DEF Fire, Resolve, AlertChange, TimeOut, Crashed, alertVars, clock, AlertInv, AlertTypeOK
<1> QED BY <1>1 DEF AlertInv, AlertTypeOK, DataOK, AlertLockDiscipline, LockDiscipline,
                    vars, table, flags, setting, config, inputs

\* The mutex is the timer's from its tick to the end of its posts, over the exchanges with
\* the Alertmanager that fail or answer, and otherwise that of the goroutine between its
\* Lock and its Unlock, for any number of goroutines, started by the timer or by clients.
THEOREM AlertMutualExclusion == AlertSpec => []AlertLockDiscipline
<1>1. AlertInit => AlertInv
  <2> SUFFICES ASSUME AlertInit PROVE AlertInv
    OBVIOUS
  <2>1. TypeOK
    BY TypeInit DEF AlertInit
  <2>2. DataOK /\ mutex \in Handlers \cup {Free}
    BY <2>1, TypeSplit
  <2>3. AlertLockDiscipline
    BY ManagerAssumption, AlertAssumption
       DEF AlertInit, Init, AlertLockDiscipline, LockDiscipline, Idle, Critical
  <2> QED BY <2>2, <2>3 DEF AlertInit, AlertInv, AlertTypeOK
<1>2. AlertInv /\ [AlertNext]_alertVars => AlertInv'
  BY ClientsKeep, HandlersKeep, ProcessAlertsKeeps, TimerKeeps, AlertmanagerKeeps
     DEF AlertNext, Fetched
<1>3. AlertInv => AlertLockDiscipline
  BY DEF AlertInv
<1> QED BY <1>1, <1>2, <1>3, PTL DEF AlertSpec

===============================================================================
