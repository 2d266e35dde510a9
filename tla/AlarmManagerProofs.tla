-------------------------- MODULE AlarmManagerProofs --------------------------
(***************************************************************************)
(* Theorems about the alarm manager's core, for every value of its         *)
(* constants.                                                              *)
(***************************************************************************)
EXTENDS AlarmProperties, SequenceTheorems, TLAPS

-------------------------------------------------------------------------------
(* The table. *)

\* What RemoveAlarm (manager.go:250-254) returns: one element fewer, those after
\* position i moved down by one.
LEMMA RemoveAlarmProperties ==
    ASSUME NEW S, NEW s \in Seq(S), NEW i \in 1..Len(s)
    PROVE  /\ RemoveAlarm(s, i) \in Seq(S)
           /\ Len(RemoveAlarm(s, i)) = Len(s) - 1
           /\ \A k \in 1..(Len(s) - 1) :
                 RemoveAlarm(s, i)[k] = IF k < i THEN s[k] ELSE s[k + 1]
<1> DEFINE a == SubSeq(s, 1, i - 1)
           b == SubSeq(s, i + 1, Len(s))
<1>0. Len(s) \in Nat /\ i \in Int /\ i - 1 \in Int /\ i + 1 \in Int /\ Len(s) \in Int
  BY LenProperties
<1>1. /\ a \in Seq(S)
      /\ Len(a) = i - 1
      /\ \A k \in 1..(i - 1) : a[k] = s[k]
  <2>1. \A k \in 1..(i - 1) : s[k] \in S
    BY <1>0, ElementOfSeq
  <2>2. /\ a \in Seq(S)
        /\ Len(a) = IF 1 <= i - 1 THEN (i - 1) - 1 + 1 ELSE 0
        /\ \A k \in 1..((i - 1) - 1 + 1) : a[k] = s[1 + k - 1]
    BY <1>0, <2>1, SubSeqProperties
  <2> QED BY <1>0, <2>2
<1>2. /\ b \in Seq(S)
      /\ Len(b) = Len(s) - i
      /\ \A k \in 1..(Len(s) - i) : b[k] = s[k + i]
  <2>1. \A k \in (i + 1)..Len(s) : s[k] \in S
    BY <1>0, ElementOfSeq
  <2>2. /\ b \in Seq(S)
        /\ Len(b) = IF i + 1 <= Len(s) THEN Len(s) - (i + 1) + 1 ELSE 0
        /\ \A k \in 1..(Len(s) - (i + 1) + 1) : b[k] = s[(i + 1) + k - 1]
    BY <1>0, <2>1, SubSeqProperties
  <2> QED BY <1>0, <2>2
<1>3. /\ a \o b \in Seq(S)
      /\ Len(a \o b) = Len(a) + Len(b)
      /\ \A k \in 1..(Len(a) + Len(b)) :
            (a \o b)[k] = IF k <= Len(a) THEN a[k] ELSE b[k - Len(a)]
  BY <1>1, <1>2, ConcatProperties
<1>4. RemoveAlarm(s, i) = a \o b
  BY DEF RemoveAlarm, RemoveAt
<1> HIDE DEF a, b
<1>5. \A k \in 1..(Len(s) - 1) : (a \o b)[k] = IF k < i THEN s[k] ELSE s[k + 1]
  BY <1>0, <1>1, <1>2, <1>3
<1>6. a \o b \in Seq(S) /\ Len(a \o b) = Len(s) - 1
  BY <1>0, <1>1, <1>2, <1>3
<1> QED BY <1>4, <1>5, <1>6, Zenon

-------------------------------------------------------------------------------
(* Types. *)

\* A goroutine's locals keep their types when a message is assigned and a label.
LEMMA LocalUpdate ==
    ASSUME NEW l \in Local, NEW label \in PCs
    PROVE  /\ [l EXCEPT !.pc = label] \in Local
           /\ \A x \in Notification : [l EXCEPT !.pc = label, !.m = x] \in Local
           /\ \A x \in Notification : [l EXCEPT !.pc = label, !.threshold = x] \in Local
           /\ \A x \in Seq(Notification) : [l EXCEPT !.pc = label, !.loaded = x] \in Local
BY DEF Local

\* The goroutines keep their types when one of them gets locals of their type.
LEMMA HandlerUpdate ==
    ASSUME handler \in [Handlers -> Local], NEW h \in Handlers, NEW l \in Local
    PROVE  [handler EXCEPT ![h] = l] \in [Handlers -> Local]
OBVIOUS

\* The zero notification and the locals of an idle goroutine are well typed.
LEMMA IdleTyped == ZeroNotification \in Notification /\ Idle \in Local
<1>1. ZeroNotification \in Notification
  BY ManagerAssumption, TableAssumption DEF ZeroNotification, Notification, Actions
<1>2. <<>> \in Seq(Notification)
  BY EmptySeq
<1> QED BY <1>1, <1>2 DEF Idle, Local, PCs

\* The two slices an append without the mutex may write back are sequences.
LEMMA RacyAppendTyped ==
    ASSUME NEW list \in Seq(Notification), NEW loaded \in Seq(Notification),
           NEW e \in Notification
    PROVE  RacyAppend(list, loaded, e) \subseteq Seq(Notification)
<1>1. Overlay(loaded, list) \in Seq(Notification)
  <2>1. DOMAIN loaded = 1..Len(loaded) /\ Len(loaded) \in Nat
    BY LenProperties
  <2>2. \A i \in 1..Len(loaded) :
           (IF i \in DOMAIN list THEN list[i] ELSE loaded[i]) \in Notification
    BY LenProperties, ElementOfSeq
  <2>3. Overlay(loaded, list) \in [1..Len(loaded) -> Notification]
    BY <2>1, <2>2 DEF Overlay
  <2> QED BY <2>1, <2>3, SeqDef
<1>2. Append(loaded, e) \in Seq(Notification)
  BY AppendProperties
<1>3. Append(Overlay(loaded, list), e) \in Seq(Notification)
  BY <1>1, AppendProperties
<1> QED BY <1>2, <1>3 DEF RacyAppend

\* A threshold alarm is generated from a definition that exists.
LEMMA ThresholdTyped ==
    ASSUME NEW p \in Problems, NEW id \in Nat,
           definitions \in [Problems -> Definition \cup {NoDefinition}], Defined(p)
    PROVE  /\ ThresholdAlarm(p, id) \in Notification
           /\ [definitions EXCEPT ![p].alarmId = id]
                 \in [Problems -> Definition \cup {NoDefinition}]
<1>1. definitions[p] \in Definition
  BY DEF Defined
<1>2. [definitions[p] EXCEPT !.alarmId = id] \in Definition
  BY <1>1 DEF Definition
<1>3. ThresholdAlarm(p, id) \in Notification
  BY <1>1, ManagerAssumption, TableAssumption
     DEF ThresholdAlarm, Definition, Notification, Actions
<1> QED BY <1>2, <1>3

\* Notifications keep their types when the manager fills in their fields.
LEMMA NotificationUpdate ==
    ASSUME NEW m \in Notification, NEW n \in Nat
    PROVE  /\ [m EXCEPT !.id = n] \in Notification
           /\ [m EXCEPT !.raiseDelay = n] \in Notification
BY DEF Notification

\* Initially everything has its type.
LEMMA TypeInit == Init => TypeOK
<1> SUFFICES ASSUME Init PROVE TypeOK
  OBVIOUS
<1>1. handler \in [Handlers -> Local]
  BY IdleTyped DEF Init
<1>2. activeAlarms \in Seq(Notification) /\ alarmHistory \in Seq(Notification)
  BY EmptySeq DEF Init
<1>3. maxActiveAlarms \in Nat /\ maxAlarmHistory \in Nat
  BY ManagerAssumption DEF Init, Limit, Config, DefaultMaxActiveAlarms, DefaultMaxAlarmHistory
<1>4. definitions \in [Problems -> Definition \cup {NoDefinition}]
  BY ManagerAssumption DEF Init
<1>5. exceededActiveAlarmOn \in BOOLEAN /\ exceededAlarmHistoryOn \in BOOLEAN
  BY DEF Init
<1>7. crashed \in BOOLEAN
  BY DEF Init
<1>8. mutex \in Handlers \cup {Free}
  BY DEF Init
<1>6. uniqueAlarmId \in Nat /\ requests \in Nat /\ changes \in Nat
  BY DEF Init
<1> QED BY <1>1, <1>2, <1>3, <1>4, <1>5, <1>6, <1>7, <1>8 DEF TypeOK

\* What is typed beside the mutex. A timer, too, may hold the mutex: what the goroutines
\* then go on doing without it keeps these types.
DataOK ==
    /\ activeAlarms \in Seq(Notification)
    /\ alarmHistory \in Seq(Notification)
    /\ uniqueAlarmId \in Nat
    /\ exceededActiveAlarmOn \in BOOLEAN
    /\ exceededAlarmHistoryOn \in BOOLEAN
    /\ maxActiveAlarms \in Nat
    /\ maxAlarmHistory \in Nat
    /\ definitions \in [Problems -> Definition \cup {NoDefinition}]
    /\ handler \in [Handlers -> Local]
    /\ crashed \in BOOLEAN
    /\ requests \in Nat
    /\ changes \in Nat

LEMMA TypeSplit == TypeOK <=> DataOK /\ mutex \in Handlers \cup {Free}
BY DEF TypeOK, DataOK

\* A raise goes on with its definition's delay: as a new alarm, or with its match.
LEMMA AcceptRaiseMoves ==
    ASSUME DataOK, NEW h \in Handlers, AcceptRaise(h)
    PROVE  /\ handler[h].pc = "waiting" /\ mutex = Free /\ mutex' = h /\ ~crashed
           /\ Defined(handler[h].m.problem) /\ handler[h].m.action = "RAISE"
           /\ handler' \in [Handlers -> Local]
           /\ \A k \in Handlers \ {h} : handler'[k] = handler[k]
           /\ handler'[h].pc \in {"raising", "matched"}
           /\ handler'[h].m = [handler[h].m EXCEPT
                 !.raiseDelay = definitions[handler[h].m.problem].raiseDelay]
           /\ handler'[h].m \in Notification /\ SameAlarm(handler'[h].m, handler[h].m)
           /\ handler'[h].pc = "raising" => ~IsMatchFound(activeAlarms, handler[h].m)
           /\ handler'[h].pc = "matched" =>
                 IsFirstMatch(activeAlarms, handler[h].m, handler'[h].idx)
<1> USE DEF DataOK, Local
<1> DEFINE m == handler[h].m
           delay == definitions[m.problem].raiseDelay
           n == [m EXCEPT !.raiseDelay = delay]
           l(label, i) == [handler[h] EXCEPT !.pc = label, !.m = n, !.idx = i]
<1>1. /\ handler[h].pc = "waiting" /\ mutex = Free /\ mutex' = h /\ ~crashed
      /\ Defined(m.problem) /\ m.action = "RAISE"
  BY DEF AcceptRaise, At, Lock
<1>2. m \in Notification /\ m.problem \in Problems
  BY DEF Notification
<1>3. delay \in Nat
  BY <1>1, <1>2 DEF Defined, Definition
<1>4. n \in Notification /\ SameAlarm(n, m)
  BY <1>2, <1>3, NotificationUpdate DEF SameAlarm, Notification
<1>5. handler[h].idx \in Nat /\ \A i \in DOMAIN activeAlarms : i \in Nat
  BY LenProperties
<1>6. \/ /\ handler' = [handler EXCEPT ![h] = l("raising", handler[h].idx)]
         /\ ~IsMatchFound(activeAlarms, m)
      \/ \E i \in DOMAIN activeAlarms :
            /\ handler' = [handler EXCEPT ![h] = l("matched", i)]
            /\ IsFirstMatch(activeAlarms, m, i)
  BY DEF AcceptRaise
<1>7. ASSUME NEW label \in {"raising", "matched"}, NEW i \in Nat,
             handler' = [handler EXCEPT ![h] = l(label, i)]
      PROVE  /\ handler' \in [Handlers -> Local]
             /\ \A k \in Handlers \ {h} : handler'[k] = handler[k]
             /\ handler'[h].pc = label /\ handler'[h].idx = i /\ handler'[h].m = n
  <2>1. l(label, i) \in Local
    BY <1>4 DEF PCs, Critical
  <2>2. handler'[h] = l(label, i)
    BY <1>7
  <2>3. l(label, i).pc = label /\ l(label, i).idx = i /\ l(label, i).m = n
    OBVIOUS
  <2> QED BY <1>7, <2>1, <2>2, <2>3
<1> HIDE DEF l, n
<1>8. CASE /\ handler' = [handler EXCEPT ![h] = l("raising", handler[h].idx)]
           /\ ~IsMatchFound(activeAlarms, m)
  BY <1>1, <1>4, <1>5, <1>7, <1>8 DEF n
<1>9. CASE \E i \in DOMAIN activeAlarms :
              /\ handler' = [handler EXCEPT ![h] = l("matched", i)]
              /\ IsFirstMatch(activeAlarms, m, i)
  BY <1>1, <1>4, <1>5, <1>7, <1>9 DEF n
<1> QED BY <1>6, <1>8, <1>9

\* After its raise delay, too, a goroutine looks its alarm up.
LEMMA RaiseDelayOverMoves ==
    ASSUME DataOK, NEW h \in Handlers, RaiseDelayOver(h)
    PROVE  /\ handler[h].pc = "raiseDelay" /\ mutex = Free /\ mutex' = h /\ ~crashed
           /\ handler' \in [Handlers -> Local]
           /\ \A k \in Handlers \ {h} : handler'[k] = handler[k]
           /\ handler'[h].pc = "revealing" /\ handler'[h].m = handler[h].m
           /\ IsFirstMatch(activeAlarms, handler[h].m, handler'[h].idx)
<1> USE DEF DataOK, Local
<1>1. handler[h].pc = "raiseDelay" /\ mutex = Free /\ mutex' = h /\ ~crashed
  BY DEF RaiseDelayOver, At, Lock
<1> PICK i \in DOMAIN activeAlarms :
           /\ IsFirstMatch(activeAlarms, handler[h].m, i)
           /\ handler' = [handler EXCEPT ![h].pc = "revealing", ![h].idx = i]
  BY DEF RaiseDelayOver
<1>2. i \in Nat
  BY LenProperties
<1> QED BY <1>1, <1>2 DEF PCs, Critical

\* The goroutine goes on with the index that the search returned.
LEMMA MatchedMoves ==
    ASSUME DataOK, NEW h \in Handlers, SuppressDuplicate(h) \/ Replace(h) \/ Reveal(h)
    PROVE  /\ ~crashed /\ UNCHANGED <<alarmHistory, uniqueAlarmId, flags, setting>>
           /\ handler[h].idx \in DOMAIN activeAlarms
           /\ activeAlarms' \in Seq(Notification)
           /\ handler' \in [Handlers -> Local]
           /\ \A k \in Handlers \ {h} : handler'[k] = handler[k]
           /\ SuppressDuplicate(h) =>
                 /\ handler[h].pc = "matched" /\ handler'[h] = Idle /\ handler'[h].pc = "idle"
                 /\ UNCHANGED activeAlarms /\ mutex = h /\ mutex' = Free
           /\ Replace(h) =>
                 /\ handler[h].pc = "matched" /\ handler'[h].pc = "raising"
                 /\ handler'[h].m = handler[h].m
                 /\ activeAlarms' = RemoveAlarm(activeAlarms, handler[h].idx)
                 /\ UNCHANGED mutex
           /\ Reveal(h) =>
                 /\ handler[h].pc = "revealing" /\ handler'[h].pc = "history"
                 /\ handler'[h].m = [handler[h].m EXCEPT !.raiseDelay = 0]
                 /\ activeAlarms' = [activeAlarms EXCEPT ![handler[h].idx].raiseDelay = 0]
                 /\ mutex = h /\ mutex' = Free
<1> USE DEF DataOK, Local, At, HasMatched
<1>0. /\ DOMAIN activeAlarms = 1..Len(activeAlarms) /\ handler[h].m \in Notification
      /\ activeAlarms \in [1..Len(activeAlarms) -> Notification]
  BY LenProperties
<1>1. CASE SuppressDuplicate(h)
  <2>1. Idle.pc = "idle"
    BY DEF Idle
  <2> QED BY <1>1, <2>1, IdleTyped DEF SuppressDuplicate, Replace, Reveal, Return, Unlock,
        table, flags
<1>2. CASE Replace(h)
  <2>1. /\ handler' \in [Handlers -> Local]
        /\ \A k \in Handlers \ {h} : handler'[k] = handler[k]
        /\ handler'[h].pc = "raising" /\ handler'[h].m = handler[h].m
    BY <1>2 DEF Replace, Goto, PCs, Critical
  <2>2. activeAlarms' \in Seq(Notification)
    BY <1>0, <1>2, RemoveAlarmProperties DEF Replace
  <2> QED BY <1>2, <2>1, <2>2 DEF SuppressDuplicate, Replace, Reveal
<1>3. CASE Reveal(h)
  <2> DEFINE n == [handler[h].m EXCEPT !.raiseDelay = 0]
  <2>1. n \in Notification
    BY <1>0, NotificationUpdate
  <2>2. handler' = [handler EXCEPT ![h] = [handler[h] EXCEPT !.pc = "history", !.m = n]]
    <3> HIDE DEF DataOK, Local, At, HasMatched
    <3> QED BY <1>3, Zenon DEF Reveal
  <2>3. [handler[h] EXCEPT !.pc = "history", !.m = n] \in Local
    <3> HIDE DEF n
    <3> QED BY <2>1 DEF PCs, Unlocked
  <2>4. activeAlarms' \in Seq(Notification)
    <3>1. [activeAlarms[handler[h].idx] EXCEPT !.raiseDelay = 0] \in Notification
      BY <1>0, <1>3, NotificationUpdate DEF Reveal
    <3> QED BY <1>0, <1>3, <3>1, ExceptSeq DEF Reveal
  <2>5. handler' \in [Handlers -> Local] /\ \A k \in Handlers \ {h} : handler'[k] = handler[k]
    BY <2>2, <2>3
  <2>6. handler'[h].pc = "history" /\ handler'[h].m = n
    BY <2>2
  <2> QED BY <1>3, <2>4, <2>5, <2>6 DEF SuppressDuplicate, Replace, Reveal, Unlock
<1> QED BY <1>1, <1>2, <1>3

\* The steps that begin by taking the mutex keep the types.
LEMMA AcquireTyped ==
    ASSUME DataOK, NEW h \in Handlers, Acquire(h)
    PROVE  DataOK'
<1> USE DEF DataOK, Local
<1>0. /\ handler[h] \in Local /\ handler[h].m \in Notification
      /\ handler[h].m.problem \in Problems
      /\ activeAlarms \in [1..Len(activeAlarms) -> Notification]
      /\ DOMAIN activeAlarms = 1..Len(activeAlarms) /\ Len(activeAlarms) \in Nat
  BY LenProperties DEF Notification
<1>1. CASE Suppress(h)
  BY <1>1, IdleTyped DEF Suppress, Return, table, flags, setting, config, inputs
<1>2. CASE AcceptRaise(h)
  BY <1>2, AcceptRaiseMoves DEF AcceptRaise, table, flags, setting, config, inputs
<1>3. CASE AcceptClear(h)
  <2> PICK i \in DOMAIN activeAlarms :
           \E label \in {"clearDelay", "clearing"} :
              handler' = [handler EXCEPT ![h].pc = label, ![h].idx = i]
    BY <1>3 DEF AcceptClear
  <2> PICK label \in {"clearDelay", "clearing"} :
           handler' = [handler EXCEPT ![h].pc = label, ![h].idx = i]
    OBVIOUS
  <2>0. i \in Nat /\ label \in PCs
    BY <1>0 DEF PCs, Critical, Unlocked
  <2>1. handler' \in [Handlers -> Local]
    BY <1>0, <2>0
  <2> QED BY <1>3, <2>1 DEF AcceptClear, table, flags, setting, config, inputs
<1>4. CASE RaiseDelayOver(h)
  BY <1>4, RaiseDelayOverMoves DEF RaiseDelayOver, table, flags, setting, config, inputs
<1>5. CASE RaiseAbandoned(h)
  BY <1>5, IdleTyped DEF RaiseAbandoned, Return, table, flags, setting, config, inputs
<1>6. CASE ClearDelayOver(h)
  <2> PICK i \in DOMAIN activeAlarms :
           handler' = [handler EXCEPT ![h].pc = "clearing", ![h].idx = i]
    BY <1>6 DEF ClearDelayOver
  <2>0. i \in Nat
    BY <1>0
  <2>1. handler' \in [Handlers -> Local]
    BY <1>0, <2>0 DEF PCs, Critical
  <2> QED BY <1>6, <2>1 DEF ClearDelayOver, Lock, table, flags, setting, config, inputs
<1>7. CASE ClearAbandoned(h)
  BY <1>7, IdleTyped DEF ClearAbandoned, Return, table, flags, setting, config, inputs
<1> QED BY <1>1, <1>2, <1>3, <1>4, <1>5, <1>6, <1>7 DEF Acquire

\* A message of a client is well typed once it is a notification.
LEMMA NotifyTyped ==
    ASSUME NEW m \in Requests
    PROVE  Notify(m) \in Notification
BY ManagerAssumption DEF Notify, Message, Notification

\* Arrivals, changes from outside and stuttering keep the types.
LEMMA OutsideTyped ==
    ASSUME DataOK,
           \/ \E h \in Handlers, m \in Requests : Submit(h, m)
           \/ Environment \/ Done \/ UNCHANGED vars
    PROVE  DataOK'
<1> USE DEF DataOK, table, flags, setting, config, inputs
<1>1. ASSUME NEW h \in Handlers, NEW m \in Requests, Submit(h, m) PROVE DataOK'
  <2>1. [Idle EXCEPT !.pc = "waiting", !.m = Notify(m)] \in Local
    BY IdleTyped, NotifyTyped DEF Local, PCs, Unlocked
  <2>2. handler' \in [Handlers -> Local]
    BY <1>1, <2>1 DEF Submit
  <2>3. requests' \in Nat
    <3>1. requests' = requests + 1
      BY <1>1, Zenon DEF Submit
    <3> QED BY <3>1
  <2> QED BY <1>1, <2>2, <2>3 DEF Submit
<1>2. ASSUME NEW d \in NewDefinitions, SetAlarmDefinition(d) PROVE DataOK'
  <2>1. d.problem \in Problems /\ d.problem \in Nat
        /\ d.raiseDelay \in Nat /\ d.clearDelay \in Nat
    BY ManagerAssumption, TableAssumption
  <2>2. definitions' \in [Problems -> Definition \cup {NoDefinition}]
    BY <1>2, <2>1 DEF SetAlarmDefinition, Definition
  <2>3. changes' \in Nat
    BY <1>2 DEF SetAlarmDefinition
  <2> QED BY <1>2, <2>2, <2>3 DEF SetAlarmDefinition, WriteMap
<1>3. ASSUME NEW p \in Deletable, DeleteAlarmDefinition(p) PROVE DataOK'
  <2>1. definitions' \in [Problems -> Definition \cup {NoDefinition}]
    BY <1>3, ManagerAssumption DEF DeleteAlarmDefinition
  <2>2. changes' \in Nat
    BY <1>3 DEF DeleteAlarmDefinition
  <2> QED BY <1>3, <2>1, <2>2 DEF DeleteAlarmDefinition, WriteMap
<1>4. ASSUME NEW c \in NewConfigs, SetAlarmConfig(c) \/ ConfigChangeCB(c) PROVE DataOK'
  BY <1>4, ManagerAssumption
     DEF SetAlarmConfig, ConfigChangeCB, SetLimits, Limit, Config,
         DefaultMaxActiveAlarms, DefaultMaxAlarmHistory
<1>5. CASE Done \/ UNCHANGED vars
  BY <1>5 DEF Done, vars
<1> QED BY <1>1, <1>2, <1>3, <1>4, <1>5 DEF Environment

\* A panic leaves the goroutine idle or stuck.
LEMMA PanicTyped ==
    ASSUME DataOK, NEW h \in Handlers, Panic(h)
    PROVE  handler' \in [Handlers -> Local] /\ crashed' \in BOOLEAN
<1>1. Idle \in Local /\ [Idle EXCEPT !.pc = "stuck"] \in Local
  BY IdleTyped, LocalUpdate DEF PCs, Critical
<1>2. handler' \in [Handlers -> Local]
  BY <1>1 DEF DataOK, Panic
<1> QED BY <1>2 DEF Panic

\* What is done with the index that a search returned keeps the types.
LEMMA MatchedTyped ==
    ASSUME DataOK, NEW h \in Handlers,
           SuppressDuplicate(h) \/ Replace(h) \/ Reveal(h) \/ PanicIndex(h)
    PROVE  DataOK'
<1>1. CASE SuppressDuplicate(h) \/ Replace(h) \/ Reveal(h)
  BY <1>1, MatchedMoves DEF DataOK, flags, setting, config, inputs
<1>2. CASE PanicIndex(h)
  BY <1>2, PanicTyped DEF DataOK, PanicIndex, Panic, table, flags, config, inputs
<1> QED BY <1>1, <1>2

\* The steps of ProcessRaiseAlarm inside the mutex keep the types.
LEMMA RaisingTyped ==
    ASSUME DataOK, NEW h \in Handlers, Raise(h) \/ RaiseOverLimit(h) \/ PanicRaising(h)
    PROVE  DataOK'
<1> USE DEF DataOK, Local, table, flags, setting, config, inputs
<1> DEFINE m == handler[h].m
           id == uniqueAlarmId + 1
<1>0. m \in Notification /\ m.raiseDelay \in Nat /\ id \in Nat /\ id + 1 \in Nat
  BY DEF Notification
<1>1. [m EXCEPT !.id = id] \in Notification
  BY <1>0, NotificationUpdate
<1>2. AfterRaising(h, id) => handler' \in [Handlers -> Local]
  <2> DEFINE label == IF m.raiseDelay > 0 THEN "raiseDelay" ELSE "history"
             n == [m EXCEPT !.id = id]
  <2>1. label \in PCs
    BY DEF PCs, Unlocked
  <2>2. [handler[h] EXCEPT !.pc = label, !.m = n] \in Local
    <3> HIDE DEF n, label, Local
    <3> QED BY <1>1, <2>1, LocalUpdate DEF n
  <2>3. AfterRaising(h, id) =>
           handler' = [handler EXCEPT ![h] = [handler[h] EXCEPT !.pc = label, !.m = n]]
    BY DEF AfterRaising
  <2> HIDE DEF n, label, Local
  <2> QED BY <2>2, <2>3, HandlerUpdate
<1>3. CASE Raise(h)
  <2>1. activeAlarms' \in Seq(Notification)
    BY <1>1, <1>3, AppendProperties DEF Raise
  <2>2. handler' \in [Handlers -> Local] /\ uniqueAlarmId' \in Nat
    BY <1>0, <1>2, <1>3 DEF Raise
  <2> QED BY <1>3, <2>1, <2>2 DEF Raise, Unlock
<1>4. CASE RaiseOverLimit(h)
  <2> DEFINE t == ThresholdAlarm(ActiveProblem, id + 1)
  <2>1. /\ t \in Notification
        /\ definitions' \in [Problems -> Definition \cup {NoDefinition}]
    BY <1>0, <1>4, ThresholdTyped, ManagerAssumption DEF RaiseOverLimit
  <2>2. alarmHistory' \in Seq(Notification)
    BY <1>4, <2>1, AppendProperties DEF RaiseOverLimit
  <2>3. activeAlarms' \in Seq(Notification)
    <3>1. Append(activeAlarms, t) \in Seq(Notification)
      BY <2>1, AppendProperties
    <3> QED BY <1>1, <1>4, <3>1, AppendProperties DEF RaiseOverLimit
  <2>4. handler' \in [Handlers -> Local] /\ uniqueAlarmId' \in Nat
    BY <1>0, <1>2, <1>4 DEF RaiseOverLimit
  <2> QED BY <1>4, <2>1, <2>2, <2>3, <2>4 DEF RaiseOverLimit, Unlock
<1>5. CASE PanicRaising(h)
  <2>1. uniqueAlarmId' \in Nat
    BY <1>5 DEF PanicRaising
  <2>2. handler' \in [Handlers -> Local] /\ crashed' \in BOOLEAN
    BY <1>5, PanicTyped DEF PanicRaising
  <2> QED BY <1>5, <2>1, <2>2 DEF PanicRaising, Panic
<1> QED BY <1>3, <1>4, <1>5

\* The steps of ProcessClearAlarm inside the mutex keep the types.
LEMMA ClearingTyped ==
    ASSUME DataOK, NEW h \in Handlers,
           Clear(h) \/ ClearOverLimit(h) \/ PanicClearing(h) \/ ClearDone(h)
    PROVE  DataOK'
<1> USE DEF DataOK, Local, table, flags, setting, config, inputs
<1>0. /\ handler[h].m \in Notification
      /\ DOMAIN activeAlarms = 1..Len(activeAlarms)
  BY LenProperties
<1>1. CanClear(h) => /\ ClearedHistory(h) \in Seq(Notification)
                     /\ RemoveAlarm(activeAlarms, handler[h].idx) \in Seq(Notification)
  <2> HAVE CanClear(h)
  <2>1. activeAlarms[handler[h].idx] \in Notification
    BY <1>0, ElementOfSeq DEF CanClear
  <2>2. [handler[h].m EXCEPT !.id = activeAlarms[handler[h].idx].id] \in Notification
    BY <1>0, <2>1, NotificationUpdate DEF Notification
  <2>3. ClearedHistory(h) \in Seq(Notification)
    BY <2>2, AppendProperties DEF ClearedHistory
  <2> QED BY <1>0, <2>3, RemoveAlarmProperties DEF CanClear
<1>2. Goto(h, "clearPersist") => handler' \in [Handlers -> Local]
  BY DEF Goto, PCs, Critical
<1>3. ResetFlags(h) => exceededActiveAlarmOn' \in BOOLEAN /\ exceededAlarmHistoryOn' \in BOOLEAN
  <2> HIDE DEF DataOK, Local, table, flags, setting, config, inputs
  <2> QED BY DEF ResetFlags
<1>4. CASE Clear(h)
  BY <1>1, <1>2, <1>3, <1>4 DEF Clear
<1>5. CASE ClearOverLimit(h)
  <2> DEFINE id == uniqueAlarmId + 1
             t  == ThresholdAlarm(HistoryProblem, id)
  <2>0. id \in Nat
    OBVIOUS
  <2>1. /\ t \in Notification
        /\ definitions' \in [Problems -> Definition \cup {NoDefinition}]
    BY <1>5, <2>0, ThresholdTyped, ManagerAssumption DEF ClearOverLimit
  <2>2. alarmHistory' \in Seq(Notification) /\ activeAlarms' \in Seq(Notification)
    BY <1>1, <1>5, <2>1, AppendProperties DEF ClearOverLimit
  <2>3. uniqueAlarmId' \in Nat
    BY <1>5, <2>0 DEF ClearOverLimit
  <2> QED BY <1>2, <1>3, <1>5, <2>1, <2>2, <2>3 DEF ClearOverLimit
<1>6. CASE PanicClearing(h)
  <2>1. uniqueAlarmId' \in Nat
    BY <1>6 DEF PanicClearing
  <2>2. alarmHistory' \in Seq(Notification) /\ activeAlarms' \in Seq(Notification)
    BY <1>1, <1>6 DEF PanicClearing
  <2>3. handler' \in [Handlers -> Local] /\ crashed' \in BOOLEAN
    BY <1>6, PanicTyped DEF PanicClearing
  <2> QED BY <1>6, <2>1, <2>2, <2>3 DEF PanicClearing, Panic
<1>7. CASE ClearDone(h)
  BY <1>7, IdleTyped DEF ClearDone, Unlock, Return
<1> QED BY <1>4, <1>5, <1>6, <1>7

\* The steps after the mutex is released keep the types.
LEMMA RecordingTyped ==
    ASSUME DataOK, NEW h \in Handlers,
           \/ CheckHistory(h) \/ LoadId(h) \/ StoreId(h) \/ PanicThreshold(h)
           \/ LoadActive(h) \/ StoreActive(h)
           \/ LoadHistory(h) \/ StoreThresholdHistory(h) \/ StoreHistory(h)
           \/ Persist(h) \/ Post(h) \/ PanicPosting(h)
    PROVE  DataOK'
<1> USE DEF DataOK, Local, table, flags, setting, config, inputs
<1> DEFINE id == handler[h].threshold.id + 1
<1>4. /\ handler[h].m \in Notification /\ handler[h].threshold \in Notification
      /\ handler[h].loaded \in Seq(Notification)
  OBVIOUS
<1>0. id \in Nat
  BY <1>4 DEF Notification
<1>1. RacyIncrement(handler[h].threshold.id) \subseteq Nat
  BY <1>0 DEF RacyIncrement
<1>2. ASSUME NEW list \in Seq(Notification),
             NEW e \in {handler[h].m, handler[h].threshold}
      PROVE  RacyAppend(list, handler[h].loaded, e) \subseteq Seq(Notification)
  BY <1>4, RacyAppendTyped
<1>3. ASSUME NEW label \in PCs, Goto(h, label)
      PROVE  handler' \in [Handlers -> Local]
  BY <1>3 DEF Goto
<1>5. CASE CheckHistory(h)
  <2>1. handler' \in [Handlers -> Local]
    BY <1>3, <1>5 DEF CheckHistory, PCs, Unlocked, Threshold
  <2> QED BY <1>5, <2>1 DEF CheckHistory
<1>6. CASE LoadId(h)
  <2> DEFINE t == [handler[h].threshold EXCEPT !.id = uniqueAlarmId]
  <2>1. t \in Notification
    BY <1>4, NotificationUpdate
  <2>3. "thresholdIdStore" \in PCs
    BY DEF PCs, Unlocked, Threshold
  <2>4. handler' = [handler EXCEPT ![h] =
                      [@ EXCEPT !.pc = "thresholdIdStore", !.threshold = t]]
    BY <1>6 DEF LoadId
  <2>2. handler' \in [Handlers -> Local]
    <3> HIDE DEF t, Local
    <3>1. [handler[h] EXCEPT !.pc = "thresholdIdStore", !.threshold = t] \in Local
      BY <2>1, <2>3, LocalUpdate
    <3> QED BY <2>4, <3>1, HandlerUpdate
  <2> QED BY <1>6, <2>2 DEF LoadId
<1>7. CASE StoreId(h)
  <2>1. /\ ThresholdAlarm(HistoryProblem, id) \in Notification
        /\ definitions' \in [Problems -> Definition \cup {NoDefinition}]
    BY <1>0, <1>7, ThresholdTyped, ManagerAssumption DEF StoreId
  <2>2. handler' \in [Handlers -> Local]
    <3> DEFINE t == ThresholdAlarm(HistoryProblem, id)
    <3>1. handler' = [handler EXCEPT ![h] =
                        [handler[h] EXCEPT !.pc = "thresholdActive", !.threshold = t]]
      BY <1>7 DEF StoreId
    <3>2. t \in Notification /\ "thresholdActive" \in PCs
      BY <2>1 DEF PCs, Unlocked, Threshold
    <3> HIDE DEF t, Local
    <3>3. [handler[h] EXCEPT !.pc = "thresholdActive", !.threshold = t] \in Local
      BY <3>2, LocalUpdate
    <3> QED BY <3>1, <3>3, HandlerUpdate
  <2>3. uniqueAlarmId' \in Nat
    BY <1>1, <1>7 DEF StoreId
  <2> QED BY <1>7, <2>1, <2>2, <2>3 DEF StoreId
<1>8. CASE PanicThreshold(h)
  <2>1. uniqueAlarmId' \in Nat
    BY <1>1, <1>8 DEF PanicThreshold
  <2>2. handler' \in [Handlers -> Local] /\ crashed' \in BOOLEAN
    BY <1>8, PanicTyped DEF PanicThreshold
  <2> QED BY <1>8, <2>1, <2>2 DEF PanicThreshold, Panic
<1>9. CASE LoadActive(h)
  <2>1. handler' \in [Handlers -> Local]
    <3>1. handler' = [handler EXCEPT ![h] = [handler[h] EXCEPT
                        !.pc = "thresholdActiveStore", !.loaded = activeAlarms]]
      BY <1>9 DEF LoadActive
    <3>2. "thresholdActiveStore" \in PCs
      BY DEF PCs, Unlocked, Threshold
    <3> HIDE DEF Local
    <3>3. [handler[h] EXCEPT !.pc = "thresholdActiveStore", !.loaded = activeAlarms] \in Local
      BY <3>2, LocalUpdate
    <3> QED BY <3>1, <3>3, HandlerUpdate
  <2> QED BY <1>9, <2>1 DEF LoadActive
<1>10. CASE StoreActive(h)
  <2>1. activeAlarms' \in Seq(Notification)
    BY <1>2, <1>10 DEF StoreActive
  <2>2. handler' \in [Handlers -> Local]
    BY <1>3, <1>10 DEF StoreActive, PCs, Unlocked, Threshold
  <2> QED BY <1>10, <2>1, <2>2 DEF StoreActive
<1>11. CASE LoadHistory(h)
  <2>1. PICK label \in {"thresholdHistoryStore", "historyStore"} :
           handler' = [handler EXCEPT ![h].pc = label, ![h].loaded = alarmHistory]
    BY <1>11 DEF LoadHistory
  <2>2. label \in PCs
    BY DEF PCs, Unlocked, Threshold
  <2>3. handler' \in [Handlers -> Local]
    BY <2>1, <2>2
  <2> QED BY <1>11, <2>3 DEF LoadHistory
<1>12. CASE StoreThresholdHistory(h)
  <2>1. alarmHistory' \in Seq(Notification)
    BY <1>2, <1>12 DEF StoreThresholdHistory
  <2>2. handler' \in [Handlers -> Local]
    BY <1>3, <1>12 DEF StoreThresholdHistory, PCs, Unlocked
  <2> QED BY <1>12, <2>1, <2>2 DEF StoreThresholdHistory
<1>13. CASE StoreHistory(h)
  <2>1. alarmHistory' \in Seq(Notification)
    BY <1>2, <1>13 DEF StoreHistory
  <2>2. [Idle EXCEPT !.pc = "persist", !.m = handler[h].m] \in Local
    BY <1>4, IdleTyped DEF PCs, Unlocked
  <2>3. handler' \in [Handlers -> Local]
    BY <1>13, <2>2 DEF StoreHistory
  <2> QED BY <1>13, <2>1, <2>3 DEF StoreHistory
<1>14. CASE Persist(h)
  <2>1. handler' \in [Handlers -> Local]
    BY <1>3, <1>14 DEF Persist, PCs, Unlocked
  <2> QED BY <1>14, <2>1 DEF Persist
<1>15. CASE Post(h)
  BY <1>15, IdleTyped DEF Post, Return
<1>16. CASE PanicPosting(h)
  BY <1>16, PanicTyped DEF PanicPosting, Panic
<1> QED BY <1>5, <1>6, <1>7, <1>8, <1>9, <1>10, <1>11, <1>12, <1>13, <1>14, <1>15, <1>16

\* Every step keeps them.
LEMMA NextTyped == DataOK /\ [Next]_vars => DataOK'
BY AcquireTyped, MatchedTyped, RaisingTyped, RecordingTyped, ClearingTyped, OutsideTyped
   DEF Next, Proceed

\* A step leaves the mutex alone, takes it for its goroutine or releases it.
LEMMA MutexMoves ==
    ASSUME NEW h \in Handlers, Acquire(h) \/ Proceed(h)
    PROVE  mutex' \in {mutex, h, Free}
<1> USE DEF Lock, Unlock, Panic
<1>1. CASE Acquire(h)
  BY <1>1 DEF Acquire, Suppress, AcceptRaise, AcceptClear, RaiseDelayOver,
     RaiseAbandoned, ClearDelayOver, ClearAbandoned
<1>2. CASE Raise(h) \/ RaiseOverLimit(h) \/ PanicRaising(h)
  BY <1>2 DEF Raise, RaiseOverLimit, PanicRaising
<1>3. CASE Clear(h) \/ ClearOverLimit(h) \/ PanicClearing(h) \/ ClearDone(h)
  BY <1>3 DEF Clear, ClearOverLimit, PanicClearing, ClearDone
<1>4. CASE CheckHistory(h) \/ LoadId(h) \/ StoreId(h) \/ PanicThreshold(h)
  BY <1>4 DEF CheckHistory, LoadId, StoreId, PanicThreshold
<1>5. CASE LoadActive(h) \/ StoreActive(h) \/ LoadHistory(h) \/ StoreThresholdHistory(h)
  BY <1>5 DEF LoadActive, StoreActive, LoadHistory, StoreThresholdHistory
<1>6. CASE StoreHistory(h) \/ Persist(h) \/ Post(h) \/ PanicPosting(h)
  BY <1>6 DEF StoreHistory, Persist, Post, PanicPosting
<1>7. CASE SuppressDuplicate(h) \/ Replace(h) \/ Reveal(h) \/ PanicIndex(h)
  BY <1>7 DEF SuppressDuplicate, Replace, Reveal, PanicIndex
<1> QED BY <1>1, <1>2, <1>3, <1>4, <1>5, <1>6, <1>7 DEF Proceed

\* What arrives from outside does not touch it.
LEMMA OutsideMutex ==
    ASSUME \/ \E h \in Handlers, m \in Requests : Submit(h, m)
           \/ Environment \/ Done \/ UNCHANGED vars
    PROVE  UNCHANGED mutex
BY DEF Submit, Environment, SetAlarmDefinition, DeleteAlarmDefinition, SetAlarmConfig,
   ConfigChangeCB, SetLimits, Done, vars

\* So every step keeps all types.
LEMMA StepTyped == TypeOK /\ [Next]_vars => TypeOK'
<1> SUFFICES ASSUME TypeOK, [Next]_vars PROVE TypeOK'
  OBVIOUS
<1>1. DataOK'
  BY NextTyped, TypeSplit
<1>2. mutex' \in Handlers \cup {Free}
  <2>1. mutex \in Handlers \cup {Free}
    BY TypeSplit
  <2>2. ASSUME NEW h \in Handlers, Acquire(h) \/ Proceed(h)
        PROVE  mutex' \in Handlers \cup {Free}
    BY <2>1, <2>2, MutexMoves
  <2> QED BY <2>1, <2>2, OutsideMutex DEF Next
<1> QED BY <1>1, <1>2 DEF TypeOK, DataOK

\* The state of the manager and of its goroutines is always well typed: no index
\* is negative, no list holds a notification without an identity, an action or
\* an id, over every interleaving and every panic of the code.
THEOREM TypeCorrect == Spec => []TypeOK
<1> QED BY StepTyped, TypeInit, PTL DEF Spec

-------------------------------------------------------------------------------
(* The mutex. *)

\* The three ways a step of goroutine h agrees with the mutex: it leaves both the
\* mutex and its being inside alone, it enters, or it leaves.
AgreesWithMutex(h) ==
    \/ /\ mutex' = mutex
       /\ handler[h].pc \in Critical <=> handler'[h].pc \in Critical
    \/ mutex = Free /\ mutex' = h /\ handler'[h].pc \in Critical
    \/ mutex = h /\ mutex' = Free /\ handler'[h].pc \notin Critical

\* If it also leaves the other goroutines where they are, the discipline is kept.
LEMMA LockStep ==
    ASSUME LockDiscipline, Free \notin Handlers, NEW h \in Handlers,
           \A k \in Handlers \ {h} : handler'[k].pc = handler[k].pc,
           AgreesWithMutex(h)
    PROVE  LockDiscipline'
BY DEF LockDiscipline, AgreesWithMutex

\* A step of goroutine h leaves the others where they are.
LEMMA OthersStay ==
    ASSUME DataOK, NEW h \in Handlers, Acquire(h) \/ Proceed(h)
    PROVE  \A k \in Handlers \ {h} : handler'[k] = handler[k]
<1> USE DEF DataOK
<1>1. CASE Acquire(h)
  BY <1>1 DEF Acquire, Suppress, AcceptRaise, AcceptClear, RaiseDelayOver,
     RaiseAbandoned, ClearDelayOver, ClearAbandoned, Return
<1>2. CASE Raise(h) \/ RaiseOverLimit(h) \/ PanicRaising(h)
  BY <1>2 DEF Raise, RaiseOverLimit, PanicRaising, AfterRaising, Panic
<1>3. CASE Clear(h) \/ ClearOverLimit(h) \/ PanicClearing(h) \/ ClearDone(h)
  BY <1>3 DEF Clear, ClearOverLimit, PanicClearing, ClearDone, Goto, Panic, Return
<1>4. CASE CheckHistory(h) \/ LoadId(h) \/ StoreId(h) \/ PanicThreshold(h)
  BY <1>4 DEF CheckHistory, LoadId, StoreId, PanicThreshold, Goto, Panic
<1>5. CASE LoadActive(h) \/ StoreActive(h) \/ LoadHistory(h) \/ StoreThresholdHistory(h)
  BY <1>5 DEF LoadActive, StoreActive, LoadHistory, StoreThresholdHistory, Goto
<1>6. CASE StoreHistory(h) \/ Persist(h) \/ Post(h) \/ PanicPosting(h)
  BY <1>6 DEF StoreHistory, Persist, Post, PanicPosting, Goto, Return, Panic
<1>7. CASE SuppressDuplicate(h) \/ Replace(h) \/ Reveal(h)
  BY <1>7, MatchedMoves DEF DataOK
<1>8. CASE PanicIndex(h)
  BY <1>8 DEF PanicIndex, Panic
<1> QED BY <1>1, <1>2, <1>3, <1>4, <1>5, <1>6, <1>7, <1>8 DEF Proceed

LEMMA OthersUntouched ==
    ASSUME TypeOK, NEW h \in Handlers, Acquire(h) \/ Proceed(h)
    PROVE  \A k \in Handlers \ {h} : handler'[k] = handler[k]
BY OthersStay, TypeSplit

\* Steps that begin by taking the mutex find it free.
LEMMA AcquireLocks ==
    ASSUME TypeOK, LockDiscipline, NEW h \in Handlers, Acquire(h)
    PROVE  LockDiscipline'
<1> USE DEF TypeOK, Local, At, Lock, Return, Idle, Critical
<1>0. Free \notin Handlers
  BY ManagerAssumption
<1>1. \A k \in Handlers \ {h} : handler'[k].pc = handler[k].pc
  BY OthersUntouched
<1>2. CASE Suppress(h) \/ RaiseAbandoned(h) \/ ClearAbandoned(h)
  <2>1. AgreesWithMutex(h)
    BY <1>2 DEF AgreesWithMutex, Suppress, RaiseAbandoned, ClearAbandoned
  <2> QED BY <1>0, <1>1, <2>1, LockStep
<1>3. CASE AcceptRaise(h) \/ RaiseDelayOver(h) \/ ClearDelayOver(h)
  <2>1. /\ mutex = Free /\ mutex' = h
        /\ handler'[h].pc \in {"raising", "matched", "revealing", "clearing"}
    <3>1. CASE ClearDelayOver(h)
      BY <3>1 DEF ClearDelayOver
    <3> QED BY <1>3, <3>1, AcceptRaiseMoves, RaiseDelayOverMoves, TypeSplit
  <2>2. AgreesWithMutex(h)
    BY <2>1 DEF AgreesWithMutex
  <2> QED BY <1>0, <1>1, <2>2, LockStep
<1>4. CASE AcceptClear(h)
  <2>1. AgreesWithMutex(h)
    BY <1>4 DEF AgreesWithMutex, AcceptClear
  <2> QED BY <1>0, <1>1, <2>1, LockStep
<1> QED BY <1>2, <1>3, <1>4 DEF Acquire

\* A panic leaves the mutex, and with it the goroutine inside, as it was.
LEMMA PanicLocks ==
    ASSUME TypeOK, LockDiscipline, NEW h \in Handlers, Panic(h)
    PROVE  handler'[h].pc \in Critical <=> handler[h].pc \in Critical
<1>1. handler'[h].pc = IF mutex = h THEN "stuck" ELSE "idle"
  BY DEF TypeOK, Panic, Idle
<1> QED BY <1>1 DEF LockDiscipline, Critical

\* The other steps of a goroutine release the mutex, or leave it as it is.
LEMMA ProceedLocks ==
    ASSUME TypeOK, LockDiscipline, NEW h \in Handlers, Proceed(h)
    PROVE  LockDiscipline'
<1> USE DEF TypeOK, Local, At, Unlock, Goto, Return, Idle, Critical
<1>0. Free \notin Handlers
  BY ManagerAssumption
<1>1. \A k \in Handlers \ {h} : handler'[k].pc = handler[k].pc
  BY OthersUntouched
<1>2. CASE Raise(h) \/ RaiseOverLimit(h)
  <2>1. AgreesWithMutex(h)
    BY <1>2 DEF AgreesWithMutex, Raise, RaiseOverLimit, AfterRaising
  <2> QED BY <1>0, <1>1, <2>1, LockStep
<1>3. CASE Clear(h) \/ ClearOverLimit(h) \/ ClearDone(h)
  <2>1. AgreesWithMutex(h)
    BY <1>3 DEF AgreesWithMutex, Clear, ClearOverLimit, ClearDone
  <2> QED BY <1>0, <1>1, <2>1, LockStep
<1>4. CASE \/ PanicIndex(h) \/ PanicRaising(h) \/ PanicClearing(h)
           \/ PanicThreshold(h) \/ PanicPosting(h)
  <2>1. Panic(h)
    BY <1>4 DEF PanicIndex, PanicRaising, PanicClearing, PanicThreshold, PanicPosting
  <2>2. AgreesWithMutex(h)
    BY <2>1, PanicLocks DEF AgreesWithMutex, Panic
  <2> QED BY <1>0, <1>1, <2>2, LockStep
<1>5. CASE CheckHistory(h) \/ LoadId(h) \/ StoreId(h) \/ LoadActive(h) \/ StoreActive(h)
  <2>1. AgreesWithMutex(h)
    BY <1>5 DEF AgreesWithMutex, CheckHistory, LoadId, StoreId, LoadActive, StoreActive
  <2> QED BY <1>0, <1>1, <2>1, LockStep
<1>6. CASE LoadHistory(h) \/ StoreThresholdHistory(h) \/ StoreHistory(h)
  <2>1. AgreesWithMutex(h)
    <3>1. CASE LoadHistory(h)
      BY <3>1 DEF AgreesWithMutex, LoadHistory
    <3>2. CASE StoreThresholdHistory(h)
      BY <3>2 DEF AgreesWithMutex, StoreThresholdHistory
    <3>3. CASE StoreHistory(h)
      BY <3>3 DEF AgreesWithMutex, StoreHistory
    <3> QED BY <1>6, <3>1, <3>2, <3>3
  <2> QED BY <1>0, <1>1, <2>1, LockStep
<1>7. CASE Persist(h) \/ Post(h)
  <2>1. AgreesWithMutex(h)
    BY <1>7 DEF AgreesWithMutex, Persist, Post
  <2> QED BY <1>0, <1>1, <2>1, LockStep
<1>8. CASE SuppressDuplicate(h) \/ Replace(h) \/ Reveal(h)
  <2>1. AgreesWithMutex(h)
    <3> HIDE DEF TypeOK, Idle
    <3>1. \/ /\ handler[h].pc = "matched" /\ handler'[h].pc = "raising" /\ UNCHANGED mutex
          \/ /\ handler'[h].pc \in {"idle", "history"} /\ mutex = h /\ mutex' = Free
      BY <1>8, MatchedMoves, TypeSplit
    <3> QED BY <3>1 DEF AgreesWithMutex
  <2> QED BY <1>0, <1>1, <2>1, LockStep
<1> QED BY <1>2, <1>3, <1>4, <1>5, <1>6, <1>7, <1>8 DEF Proceed

\* So every step keeps the discipline.
LEMMA StepLocks == TypeOK /\ LockDiscipline /\ [Next]_vars => LockDiscipline'
<1> SUFFICES ASSUME TypeOK, LockDiscipline, [Next]_vars PROVE LockDiscipline'
  OBVIOUS
<1>1. ASSUME NEW h \in Handlers, NEW m \in Requests, Submit(h, m) PROVE LockDiscipline'
  <2>1. \A k \in Handlers \ {h} : handler'[k].pc = handler[k].pc
    BY <1>1 DEF Submit, TypeOK
  <2>2. AgreesWithMutex(h)
    BY <1>1 DEF Submit, TypeOK, At, Idle, Critical, AgreesWithMutex
  <2> QED BY <2>1, <2>2, LockStep, ManagerAssumption
<1>2. CASE Environment \/ Done \/ UNCHANGED vars
  BY <1>2 DEF Environment, SetAlarmDefinition, DeleteAlarmDefinition, SetAlarmConfig,
     ConfigChangeCB, SetLimits, Done, vars, LockDiscipline
<1> QED BY <1>1, <1>2, AcquireLocks, ProceedLocks DEF Next

\* The mutex is held exactly by the goroutine between its Lock and its Unlock,
\* over every early return, delay and panic: no goroutine returns with it held
\* (only one that panicked keeps it), and none unlocks a mutex it does not hold.
THEOREM MutualExclusion == Spec => []LockDiscipline
<1>1. Init => LockDiscipline
  BY ManagerAssumption DEF Init, LockDiscipline, Idle, Critical
<1> QED BY <1>1, StepLocks, TypeCorrect, PTL DEF Spec

\* All that many proofs need of it: whoever is inside holds the mutex. This is also
\* true beside a timer that takes the mutex outside ProcessAlarm.
HeldInside == \A h \in Handlers : handler[h].pc \in Critical => mutex = h

LEMMA LockHeldInside == LockDiscipline => HeldInside
BY DEF LockDiscipline, HeldInside

\* A goroutine that is not in ProcessAlarm takes no step of it.
LEMMA IdleTakesNoStep ==
    ASSUME NEW h \in Handlers, Acquire(h) \/ Proceed(h)
    PROVE  handler[h].pc # "idle" /\ ~crashed
<1>1. CASE Acquire(h)
  BY <1>1 DEF Acquire, At, Suppress, AcceptRaise, AcceptClear, RaiseDelayOver,
     RaiseAbandoned, ClearDelayOver, ClearAbandoned
<1>2. CASE Proceed(h)
  BY <1>2 DEF Proceed, At, Raise, RaiseOverLimit, PanicRaising, CheckHistory, LoadId, StoreId,
     PanicThreshold, LoadActive, StoreActive, LoadHistory, StoreThresholdHistory,
     StoreHistory, Persist, Post, PanicPosting, Clear, ClearOverLimit, PanicClearing,
     ClearDone, SuppressDuplicate, Replace, HasMatched, Reveal, PanicIndex
<1> QED BY <1>1, <1>2

\* Steps that begin with the mutex find it free.
LEMMA AcquireNeedsFree ==
    ASSUME NEW h \in Handlers, Acquire(h)
    PROVE  mutex = Free
BY DEF Acquire, Lock, Suppress, AcceptRaise, AcceptClear, RaiseDelayOver, RaiseAbandoned,
   ClearDelayOver, ClearAbandoned

\* What is done without the mutex neither takes it nor gives it up.
LEMMA UnlockedStays ==
    ASSUME DataOK, NEW h \in Handlers, Proceed(h),
           handler[h].pc \notin Critical, mutex # h
    PROVE  UNCHANGED mutex /\ handler'[h].pc \notin Critical
<1> USE DEF DataOK, Local, At, Critical
<1>1. Panic(h) => UNCHANGED mutex /\ handler'[h].pc = "idle"
  BY DEF Panic, Idle
<1>2. CASE PanicThreshold(h) \/ PanicPosting(h)
  BY <1>1, <1>2 DEF PanicThreshold, PanicPosting
<1>3. CASE CheckHistory(h) \/ StoreActive(h) \/ StoreThresholdHistory(h) \/ Persist(h)
  <2>1. PICK label \in {"thresholdId", "historyLoad", "thresholdHistory", "post"} :
           Goto(h, label)
    BY <1>3 DEF CheckHistory, StoreActive, StoreThresholdHistory, Persist
  <2>2. handler'[h].pc = label
    BY <2>1 DEF Goto
  <2> QED BY <1>3, <2>2 DEF CheckHistory, StoreActive, StoreThresholdHistory, Persist
<1>4. CASE LoadId(h) \/ StoreId(h) \/ LoadActive(h) \/ LoadHistory(h)
  BY <1>4 DEF LoadId, StoreId, LoadActive, LoadHistory
<1>5. CASE StoreHistory(h) \/ Post(h)
  <2>1. UNCHANGED mutex
    BY <1>5 DEF StoreHistory, Post
  <2>2. handler'[h].pc \in {"idle", "persist"}
    <3>1. CASE StoreHistory(h)
      BY <3>1 DEF StoreHistory, Idle
    <3>2. CASE Post(h)
      BY <3>2 DEF Post, Return, Idle
    <3> QED BY <1>5, <3>1, <3>2
  <2> QED BY <2>1, <2>2
<1>6. CASE \/ Raise(h) \/ RaiseOverLimit(h) \/ PanicRaising(h)
           \/ Clear(h) \/ ClearOverLimit(h) \/ PanicClearing(h) \/ ClearDone(h)
           \/ SuppressDuplicate(h) \/ Replace(h) \/ Reveal(h) \/ PanicIndex(h)
  BY <1>6 DEF Raise, RaiseOverLimit, PanicRaising, Clear, ClearOverLimit, PanicClearing,
     ClearDone, SuppressDuplicate, Replace, HasMatched, Reveal, PanicIndex
<1> QED BY <1>2, <1>3, <1>4, <1>5, <1>6 DEF Proceed

-------------------------------------------------------------------------------
(* The history alarm that is generated without the mutex. *)

\* From the store of its id to that of its record a goroutine works with that alarm.
Generating == {"thresholdActive", "thresholdActiveStore",
               "thresholdHistory", "thresholdHistoryStore"}

\* No step changes the table between the read and the write of the append that
\* GenerateThresholdAlarm does without the mutex.
TableUnraced ==
    \A h \in Handlers : handler[h].pc = "thresholdActiveStore" =>
        handler[h].loaded = activeAlarms

\* Where the steps of a goroutine lead that generates no such alarm afterwards.
LEMMA GeneratesNoMore ==
    ASSUME TypeOK, NEW h \in Handlers, Acquire(h) \/ Proceed(h),
           ~StoreId(h), ~LoadActive(h), ~StoreActive(h), ~LoadHistory(h)
    PROVE  handler'[h].pc \notin Generating
<1> USE DEF TypeOK, Local, Generating
<1>1. CASE Suppress(h) \/ RaiseAbandoned(h) \/ ClearAbandoned(h) \/ Post(h) \/ ClearDone(h)
  <2>1. Return(h)
    BY <1>1 DEF Suppress, RaiseAbandoned, ClearAbandoned, Post, ClearDone
  <2> QED BY <2>1 DEF Return, Idle
<1>2. CASE AcceptRaise(h) \/ AcceptClear(h) \/ RaiseDelayOver(h) \/ ClearDelayOver(h)
  <2>1. handler'[h].pc \in {"raising", "matched", "revealing", "clearDelay", "clearing"}
    <3>1. CASE AcceptRaise(h) \/ RaiseDelayOver(h)
      BY <3>1, AcceptRaiseMoves, RaiseDelayOverMoves, TypeSplit
    <3>2. CASE AcceptClear(h) \/ ClearDelayOver(h)
      BY <3>2 DEF AcceptClear, ClearDelayOver
    <3> QED BY <1>2, <3>1, <3>2
  <2> QED BY <2>1
<1>3. CASE \/ PanicRaising(h) \/ PanicThreshold(h) \/ PanicPosting(h) \/ PanicClearing(h)
           \/ PanicIndex(h)
  <2>1. Panic(h)
    BY <1>3 DEF PanicRaising, PanicThreshold, PanicPosting, PanicClearing, PanicIndex
  <2> QED BY <2>1 DEF Panic, Idle
<1>4. CASE Raise(h) \/ RaiseOverLimit(h)
  <2>1. AfterRaising(h, uniqueAlarmId + 1)
    BY <1>4 DEF Raise, RaiseOverLimit
  <2> QED BY <2>1 DEF AfterRaising
<1>5. CASE CheckHistory(h) \/ StoreThresholdHistory(h) \/ Persist(h) \/ Clear(h)
           \/ ClearOverLimit(h)
  <2>1. PICK label \in {"thresholdId", "historyLoad", "post", "clearPersist"} : Goto(h, label)
    BY <1>5 DEF CheckHistory, StoreThresholdHistory, Persist, Clear, ClearOverLimit
  <2> QED BY <2>1 DEF Goto
<1>6. CASE LoadId(h)
  BY <1>6 DEF LoadId
<1>7. CASE StoreHistory(h)
  BY <1>7 DEF StoreHistory, Idle
<1>8. CASE SuppressDuplicate(h) \/ Replace(h) \/ Reveal(h)
  <2> HIDE DEF TypeOK
  <2> QED BY <1>8, MatchedMoves, TypeSplit
<1> QED BY <1>1, <1>2, <1>3, <1>4, <1>5, <1>6, <1>7, <1>8 DEF Acquire, Proceed

\* Once it has its id, the alarm stays as it is.
LEMMA GeneratorMoves ==
    ASSUME TypeOK, NEW h \in Handlers, Acquire(h) \/ Proceed(h),
           handler'[h].pc \in Generating
    PROVE  \/ StoreId(h)
           \/ /\ LoadActive(h) \/ StoreActive(h) \/ LoadHistory(h)
              /\ handler[h].pc \in Generating
              /\ handler'[h].threshold = handler[h].threshold
<1> USE DEF TypeOK, Local, Generating, At
<1>1. CASE LoadActive(h)
  BY <1>1 DEF LoadActive
<1>2. CASE StoreActive(h)
  BY <1>2 DEF StoreActive, Goto
<1>3. CASE LoadHistory(h)
  <2>1. CASE handler' = [handler EXCEPT ![h].pc = "historyStore", ![h].loaded = alarmHistory]
    BY <2>1
  <2>2. CASE /\ handler[h].pc = "thresholdHistory"
             /\ handler' = [handler EXCEPT ![h].pc = "thresholdHistoryStore",
                                           ![h].loaded = alarmHistory]
    BY <1>3, <2>2
  <2> QED BY <1>3, <2>1, <2>2 DEF LoadHistory
<1> QED BY <1>1, <1>2, <1>3, GeneratesNoMore

\* It is the manager's own, a raise of the history problem.
GeneratesOwn ==
    \A h \in Handlers : handler[h].pc \in Generating =>
        /\ handler[h].threshold.object = ManagerObject
        /\ handler[h].threshold.problem = HistoryProblem
        /\ handler[h].threshold.action = "RAISE"

LEMMA StepGeneratesOwn ==
    ASSUME TypeOK, GeneratesOwn, NEW h \in Handlers, Acquire(h) \/ Proceed(h)
    PROVE  GeneratesOwn'
<1>1. \A k \in Handlers \ {h} : handler'[k] = handler[k]
  BY OthersUntouched
<1>2. CASE StoreId(h)
  <2>1. handler'[h].threshold
           = ThresholdAlarm(HistoryProblem, handler[h].threshold.id + 1)
    BY <1>2 DEF StoreId, TypeOK, Local
  <2> QED BY <1>1, <2>1 DEF GeneratesOwn, ThresholdAlarm
<1>3. CASE ~StoreId(h)
  BY <1>1, <1>3, GeneratorMoves DEF GeneratesOwn
<1> QED BY <1>2, <1>3

\* What arrives, and what changes from outside, brings no goroutine there.
LEMMA OutsideGenerates ==
    ASSUME TypeOK, \/ \E h \in Handlers, m \in Requests : Submit(h, m)
                   \/ Environment \/ Done \/ UNCHANGED vars
    PROVE  \A k \in Handlers : handler'[k] = handler[k] \/ handler'[k].pc = "waiting"
<1>1. ASSUME NEW h \in Handlers, NEW m \in Requests, Submit(h, m)
      PROVE  /\ \A k \in Handlers \ {h} : handler'[k] = handler[k]
             /\ handler'[h].pc = "waiting"
  BY <1>1 DEF Submit, Idle, TypeOK
<1>2. CASE Environment \/ Done \/ UNCHANGED vars
  BY <1>2 DEF Environment, SetAlarmDefinition, DeleteAlarmDefinition, SetAlarmConfig,
     ConfigChangeCB, SetLimits, Done, vars
<1> QED BY <1>1, <1>2

LEMMA GeneratorsInvariant == Spec => []GeneratesOwn
<1>1. Init => GeneratesOwn
  BY DEF Init, Idle, Generating, GeneratesOwn
<1>2. TypeOK /\ GeneratesOwn /\ [Next]_vars => GeneratesOwn'
  <2> SUFFICES ASSUME TypeOK, GeneratesOwn, [Next]_vars PROVE GeneratesOwn'
    OBVIOUS
  <2>1. CASE \E h \in Handlers : Acquire(h) \/ Proceed(h)
    BY <2>1, StepGeneratesOwn
  <2>2. CASE \/ \E h \in Handlers, m \in Requests : Submit(h, m)
             \/ Environment \/ Done \/ UNCHANGED vars
    BY <2>2, OutsideGenerates DEF GeneratesOwn, Generating
  <2> QED BY <2>1, <2>2 DEF Next
<1> QED BY <1>1, <1>2, TypeCorrect, PTL DEF Spec

\* While nobody races for the table, the append does what it says, or is overwritten.
LEMMA StoreActiveAppends ==
    ASSUME TypeOK, TableUnraced, NEW h \in Handlers, StoreActive(h)
    PROVE  /\ handler[h].pc = "thresholdActiveStore" /\ handler'[h].pc = "thresholdHistory"
           /\ handler[h].threshold \in Notification
           /\ activeAlarms' \in {activeAlarms, Append(activeAlarms, handler[h].threshold)}
           /\ activeAlarms' # activeAlarms
                 => activeAlarms' = Append(activeAlarms, handler[h].threshold)
<1>1. /\ handler[h].pc = "thresholdActiveStore" /\ handler'[h].pc = "thresholdHistory"
      /\ handler[h].threshold \in Notification
      /\ activeAlarms' \in RacyAppend(activeAlarms, handler[h].loaded, handler[h].threshold)
  BY DEF StoreActive, At, Goto, TypeOK, Local
<1>2. handler[h].loaded = activeAlarms
  BY <1>1 DEF TableUnraced
<1>3. Overlay(activeAlarms, activeAlarms) = activeAlarms
  <2>1. activeAlarms \in [1..Len(activeAlarms) -> Notification]
        /\ DOMAIN activeAlarms = 1..Len(activeAlarms)
    BY LenProperties DEF TypeOK
  <2> QED BY <2>1 DEF Overlay
<1> QED BY <1>1, <1>2, <1>3 DEF RacyAppend

\* Where the recording of an alarm, with the manager's own that it may cause, leads: the
\* message stays as it is, and the slice that will be written back with a record is the
\* history as it was read.
Recording == {"history", "historyLoad", "historyStore", "persist", "post"} \cup Threshold

Readers == {"historyStore", "thresholdHistoryStore"}

LEMMA RecordingMoves ==
    ASSUME TypeOK, NEW h \in Handlers,
           \/ CheckHistory(h) \/ LoadId(h) \/ StoreId(h) \/ LoadActive(h) \/ StoreActive(h)
           \/ LoadHistory(h) \/ StoreThresholdHistory(h) \/ StoreHistory(h) \/ Persist(h)
    PROVE  /\ handler[h].pc \in Recording /\ handler'[h].pc \in Recording
           /\ handler[h].pc = "persist" => handler'[h].pc = "post"
           /\ handler[h].pc # "post"
           /\ handler'[h].m = handler[h].m
           /\ handler'[h].pc \in Readers => handler'[h].loaded = alarmHistory
<1> USE DEF Recording, Threshold, Readers
<1>1. CASE \/ CheckHistory(h) \/ StoreActive(h) \/ StoreThresholdHistory(h)
           \/ Persist(h)
  <2>1. PICK from \in {"history", "thresholdActiveStore", "thresholdHistoryStore", "persist"},
             to \in {"thresholdId", "historyLoad", "thresholdHistory", "post"} :
           /\ handler[h].pc = from /\ Goto(h, to)
           /\ from = "persist" => to = "post"
    BY <1>1 DEF CheckHistory, StoreActive, StoreThresholdHistory, Persist, At
  <2>2. handler'[h].pc = to /\ handler'[h].m = handler[h].m
    BY <2>1 DEF Goto, TypeOK, Local
  <2> QED BY <2>1, <2>2
<1>2. CASE StoreHistory(h)
  <2>1. handler[h].pc = "historyStore"
    BY <1>2 DEF StoreHistory, At
  <2>2. handler'[h].pc = "persist" /\ handler'[h].m = handler[h].m
    BY <1>2 DEF StoreHistory, Idle, TypeOK
  <2> QED BY <2>1, <2>2
<1>3. CASE LoadHistory(h)
  <2>1. PICK from \in {"thresholdHistory", "historyLoad"},
             to \in {"thresholdHistoryStore", "historyStore"} :
           /\ handler[h].pc = from
           /\ handler' = [handler EXCEPT ![h].pc = to, ![h].loaded = alarmHistory]
    BY <1>3 DEF LoadHistory, At
  <2>2. /\ handler'[h].pc = to /\ handler'[h].m = handler[h].m
        /\ handler'[h].loaded = alarmHistory
    BY <2>1 DEF TypeOK, Local
  <2> QED BY <2>1, <2>2
<1>4. CASE LoadId(h) \/ StoreId(h) \/ LoadActive(h)
  <2>1. handler[h].pc \in {"thresholdId", "thresholdIdStore", "thresholdActive"}
    BY <1>4 DEF LoadId, StoreId, LoadActive, At
  <2>2. /\ handler'[h].pc \in {"thresholdIdStore", "thresholdActive", "thresholdActiveStore"}
        /\ handler'[h].m = handler[h].m
    BY <1>4 DEF LoadId, StoreId, LoadActive, TypeOK, Local
  <2> QED BY <2>1, <2>2
<1> QED BY <1>1, <1>2, <1>3, <1>4

-------------------------------------------------------------------------------
(* One alarm per identity, while the table is changed inside the mutex only. *)

\* Removing an alarm keeps the identities apart, and none like the removed one
\* is left.
LEMMA RemoveKeepsIdentities ==
    ASSUME NEW s \in Seq(Notification), NEW i \in 1..Len(s), OneAlarmPerIdentity(s)
    PROVE  /\ OneAlarmPerIdentity(RemoveAlarm(s, i))
           /\ \A m : SameAlarm(s[i], m) /\ s[i].object # ManagerObject
                    => ~IsMatchFound(RemoveAlarm(s, i), m)
<1> DEFINE r == RemoveAlarm(s, i)
           old(k) == IF k < i THEN k ELSE k + 1
<1>0. Len(s) \in Nat /\ DOMAIN s = 1..Len(s)
  BY LenProperties
<1>1. /\ r \in Seq(Notification) /\ Len(r) = Len(s) - 1
      /\ \A k \in 1..(Len(s) - 1) : r[k] = IF k < i THEN s[k] ELSE s[k + 1]
  BY RemoveAlarmProperties
<1> HIDE DEF r
<1>2. DOMAIN r = 1..(Len(s) - 1)
  BY <1>1, LenProperties
<1>3. \A k \in DOMAIN r : old(k) \in DOMAIN s /\ old(k) # i /\ r[k] = s[old(k)]
  BY <1>0, <1>1, <1>2
<1>4. \A k, l \in DOMAIN r : old(k) = old(l) => k = l
  BY <1>0, <1>2
<1> HIDE DEF old
<1>5. OneAlarmPerIdentity(r)
  BY <1>3, <1>4 DEF OneAlarmPerIdentity
<1>6. ASSUME NEW m, SameAlarm(s[i], m), s[i].object # ManagerObject
      PROVE  ~IsMatchFound(r, m)
  <2> SUFFICES ASSUME NEW k \in DOMAIN r, SameAlarm(r[k], m) PROVE FALSE
    BY DEF IsMatchFound
  <2>1. SameAlarm(s[i], s[old(k)])
    BY <1>3, <1>6 DEF SameAlarm
  <2> QED BY <1>0, <1>3, <1>6, <2>1 DEF OneAlarmPerIdentity
<1> QED BY <1>5, <1>6 DEF r

\* So does appending an alarm of the manager's own, or one without a match.
LEMMA AppendKeepsIdentities ==
    ASSUME NEW s \in Seq(Notification), NEW e \in Notification, OneAlarmPerIdentity(s),
           e.object = ManagerObject \/ ~IsMatchFound(s, e)
    PROVE  OneAlarmPerIdentity(Append(s, e))
<1> DEFINE r == Append(s, e)
<1>1. /\ r \in Seq(Notification) /\ Len(r) = Len(s) + 1 /\ r[Len(s) + 1] = e
      /\ \A k \in 1..Len(s) : r[k] = s[k]
  BY AppendProperties
<1> HIDE DEF r
<1>2. Len(s) \in Nat /\ DOMAIN s = 1..Len(s) /\ DOMAIN r = 1..(Len(s) + 1)
  BY <1>1, LenProperties
<1>3. SUFFICES ASSUME NEW i \in DOMAIN r, NEW j \in DOMAIN r,
                      SameAlarm(r[i], r[j]), r[i].object # ManagerObject
               PROVE  i = j
  BY DEF OneAlarmPerIdentity, r
<1>4. CASE i \in DOMAIN s /\ j \in DOMAIN s
  BY <1>1, <1>2, <1>3, <1>4 DEF OneAlarmPerIdentity
<1>5. CASE i = Len(s) + 1 /\ j \in DOMAIN s
  BY <1>1, <1>2, <1>3, <1>5 DEF IsMatchFound, SameAlarm
<1>6. CASE i \in DOMAIN s /\ j = Len(s) + 1
  BY <1>1, <1>2, <1>3, <1>6 DEF IsMatchFound, SameAlarm
<1> QED BY <1>2, <1>4, <1>5, <1>6

\* The generated alarm is no match for an application's alarm.
LEMMA AppendKeepsUnmatched ==
    ASSUME NEW s \in Seq(Notification), NEW e \in Notification, NEW m,
           ~IsMatchFound(s, m), ~SameAlarm(e, m)
    PROVE  ~IsMatchFound(Append(s, e), m)
<1>1. /\ Append(s, e) \in Seq(Notification) /\ Len(Append(s, e)) = Len(s) + 1
      /\ Append(s, e)[Len(s) + 1] = e
      /\ \A k \in 1..Len(s) : Append(s, e)[k] = s[k]
  BY AppendProperties
<1>2. Len(s) \in Nat /\ DOMAIN s = 1..Len(s) /\ DOMAIN Append(s, e) = 1..(Len(s) + 1)
  BY <1>1, LenProperties
<1> QED BY <1>1, <1>2 DEF IsMatchFound

\* A step of the goroutine that takes or holds the mutex concerns no other one's
\* pending append or removal: it is enough to look at its own.
LEMMA OwnStep ==
    ASSUME TypeOK, HeldInside, ClientsRaiseOwn,
           NEW h \in Handlers, Acquire(h) \/ Proceed(h), mutex \in {Free, h},
           handler'[h].pc # "waiting", UniqueIdentity',
           handler'[h].pc \in {"matched", "revealing", "clearing"} =>
              /\ handler'[h].idx \in DOMAIN activeAlarms'
              /\ SameAlarm(activeAlarms'[handler'[h].idx], handler'[h].m),
           handler'[h].pc = "raising" =>
              /\ handler'[h].m.object # ManagerObject
              /\ ~IsMatchFound(activeAlarms', handler'[h].m),
           handler'[h].pc = "matched" => handler'[h].m.object # ManagerObject
    PROVE  IdentityInv'
<1>1. \A k \in Handlers \ {h} : handler'[k] = handler[k]
  BY OthersUntouched
<1>2. \A k \in Handlers \ {h} : handler[k].pc \notin Critical
  BY ManagerAssumption DEF HeldInside
<1>3. IndexTargetsOwnAlarm'
  BY <1>1, <1>2 DEF IndexTargetsOwnAlarm, Critical
<1>4. RaiseUnmatched'
  BY <1>1, <1>2 DEF RaiseUnmatched, Critical
<1>5. ClientsRaiseOwn'
  BY <1>1 DEF ClientsRaiseOwn
<1> QED BY <1>3, <1>4, <1>5 DEF IdentityInv

\* A step that leaves the table alone and brings no goroutine to an append or a
\* removal changes nothing.
LEMMA QuietStep ==
    ASSUME IdentityInv, NEW h \in Handlers, UNCHANGED activeAlarms,
           \A k \in Handlers \ {h} : handler'[k] = handler[k],
           handler'[h].pc
              \notin {"waiting", "matched", "raising", "revealing", "clearing"}
    PROVE  IdentityInv'
BY DEF IdentityInv, UniqueIdentity, IndexTargetsOwnAlarm, RaiseUnmatched, ClientsRaiseOwn

\* The steps that take the mutex.
LEMMA AcquireKeepsIdentity ==
    ASSUME TypeOK, HeldInside, IdentityInv, NEW h \in Handlers, Acquire(h)
    PROVE  IdentityInv'
<1> USE DEF TypeOK, Local
<1>0. /\ \A k \in Handlers \ {h} : handler'[k] = handler[k]
      /\ DOMAIN activeAlarms = 1..Len(activeAlarms)
      /\ handler[h].m \in Notification
      /\ UniqueIdentity /\ ClientsRaiseOwn
  BY OthersUntouched, LenProperties DEF IdentityInv
<1>1. CASE Suppress(h) \/ RaiseAbandoned(h) \/ ClearAbandoned(h)
  <2>1. UNCHANGED activeAlarms /\ handler'[h].pc = "idle"
    BY <1>1 DEF Suppress, RaiseAbandoned, ClearAbandoned, Return, Idle, table
  <2> QED BY <1>0, <2>1, QuietStep
<1>2. CASE AcceptRaise(h)
  <2> DEFINE m == handler[h].m
  <2>1. /\ mutex = Free /\ UNCHANGED activeAlarms
        /\ handler[h].pc = "waiting" /\ m.action = "RAISE"
        /\ handler'[h].pc \in {"raising", "matched"} /\ SameAlarm(handler'[h].m, m)
        /\ handler'[h].pc = "raising" => ~IsMatchFound(activeAlarms, m)
        /\ handler'[h].pc = "matched" =>
              handler'[h].idx \in DOMAIN activeAlarms /\ SameAlarm(activeAlarms[handler'[h].idx], m)
    <3> HIDE DEF TypeOK
    <3> QED BY <1>2, AcceptRaiseMoves, TypeSplit DEF AcceptRaise, table, IsFirstMatch
  <2>2. handler'[h].m.object # ManagerObject
    BY <1>0, <2>1 DEF ClientsRaiseOwn, SameAlarm
  <2>3. handler'[h].pc = "raising" => ~IsMatchFound(activeAlarms', handler'[h].m)
    BY <2>1 DEF IsMatchFound, SameAlarm
  <2>4. handler'[h].pc = "matched" =>
           /\ handler'[h].idx \in DOMAIN activeAlarms'
           /\ SameAlarm(activeAlarms'[handler'[h].idx], handler'[h].m)
    BY <2>1 DEF SameAlarm
  <2>5. UniqueIdentity'
    BY <1>0, <2>1 DEF UniqueIdentity
  <2> QED BY <1>0, <2>1, <2>2, <2>3, <2>4, <2>5, OwnStep
<1>3. CASE AcceptClear(h) \/ ClearDelayOver(h)
  <2> PICK i \in DOMAIN activeAlarms :
         /\ SameAlarm(activeAlarms[i], handler[h].m)
         /\ \E label \in {"clearDelay", "clearing"} :
               handler' = [handler EXCEPT ![h].pc = label, ![h].idx = i]
    BY <1>3 DEF AcceptClear, ClearDelayOver, IsFirstMatch
  <2>1. /\ handler'[h].pc \in {"clearDelay", "clearing"}
        /\ handler'[h].idx = i /\ handler'[h].m = handler[h].m
    OBVIOUS
  <2>2. mutex = Free /\ UNCHANGED activeAlarms
    BY <1>3 DEF AcceptClear, ClearDelayOver, Lock, table
  <2>3. UniqueIdentity'
    BY <1>0, <2>2 DEF UniqueIdentity
  <2>4. /\ handler'[h].idx \in DOMAIN activeAlarms'
        /\ SameAlarm(activeAlarms'[handler'[h].idx], handler'[h].m)
    BY <2>1, <2>2
  <2> QED BY <1>0, <2>1, <2>2, <2>3, <2>4, OwnStep
<1>4. CASE RaiseDelayOver(h)
  <2>1. /\ mutex = Free /\ UNCHANGED activeAlarms
        /\ handler'[h].pc = "revealing" /\ handler'[h].m = handler[h].m
        /\ handler'[h].idx \in DOMAIN activeAlarms
        /\ SameAlarm(activeAlarms[handler'[h].idx], handler[h].m)
    <3> HIDE DEF TypeOK
    <3> QED BY <1>4, RaiseDelayOverMoves, TypeSplit DEF RaiseDelayOver, table, IsFirstMatch
  <2>2. UniqueIdentity'
    BY <1>0, <2>1 DEF UniqueIdentity
  <2> QED BY <1>0, <2>1, <2>2, OwnStep
<1> QED BY <1>1, <1>2, <1>3, <1>4 DEF Acquire

\* The history alarm that is appended without the mutex is the manager's own: it is no
\* match for what others are about to append, and moves no index.
LEMMA StoreActiveKeepsIdentity ==
    ASSUME TypeOK, IdentityInv, GeneratesOwn, TableUnraced, NEW h \in Handlers, StoreActive(h)
    PROVE  IdentityInv'
<1> DEFINE t == handler[h].threshold
<1>1. /\ handler'[h].pc = "thresholdHistory" /\ t \in Notification
      /\ t.object = ManagerObject
      /\ activeAlarms' \in {activeAlarms, Append(activeAlarms, t)}
      /\ activeAlarms \in Seq(Notification)
  BY StoreActiveAppends DEF GeneratesOwn, Generating, TypeOK
<1>2. \A k \in Handlers \ {h} : handler'[k] = handler[k]
  BY OthersUntouched DEF Proceed
<1>3. CASE UNCHANGED activeAlarms
  BY <1>1, <1>2, <1>3, QuietStep
<1>4. CASE activeAlarms' = Append(activeAlarms, t)
  <2> HIDE DEF t
  <2>1. UniqueIdentity'
    BY <1>1, <1>4, AppendKeepsIdentities DEF IdentityInv, UniqueIdentity
  <2>2. \A i \in DOMAIN activeAlarms :
           i \in DOMAIN activeAlarms' /\ activeAlarms'[i] = activeAlarms[i]
    <3>1. /\ activeAlarms' \in Seq(Notification)
          /\ Len(activeAlarms') = Len(activeAlarms) + 1
          /\ \A k \in 1..Len(activeAlarms) : activeAlarms'[k] = activeAlarms[k]
      BY <1>1, <1>4, AppendProperties
    <3> QED BY <1>1, <3>1, LenProperties
  <2>3. IndexTargetsOwnAlarm'
    BY <1>1, <1>2, <2>2 DEF IdentityInv, IndexTargetsOwnAlarm
  <2>4. RaiseUnmatched'
    <3> SUFFICES ASSUME NEW k \in Handlers, handler'[k].pc = "raising"
                 PROVE  /\ handler'[k].m.object # ManagerObject
                        /\ ~IsMatchFound(activeAlarms', handler'[k].m)
      BY DEF RaiseUnmatched
    <3>1. handler'[k] = handler[k]
      BY <1>1, <1>2
    <3>2. handler[k].m.object # ManagerObject /\ ~IsMatchFound(activeAlarms, handler[k].m)
      BY <3>1 DEF IdentityInv, RaiseUnmatched
    <3>3. ~SameAlarm(t, handler[k].m)
      BY <1>1, <3>2 DEF SameAlarm
    <3> QED BY <1>1, <1>4, <3>1, <3>2, <3>3, AppendKeepsUnmatched
  <2>5. ClientsRaiseOwn'
    BY <1>1, <1>2 DEF IdentityInv, ClientsRaiseOwn
  <2> QED BY <2>1, <2>3, <2>4, <2>5 DEF IdentityInv
<1> QED BY <1>1, <1>3, <1>4

\* A match is removed before the new alarm is raised, one that is revealed keeps its
\* identity.
LEMMA MatchedKeepsIdentity ==
    ASSUME TypeOK, HeldInside, IdentityInv, NEW h \in Handlers,
           SuppressDuplicate(h) \/ Replace(h) \/ Reveal(h)
    PROVE  IdentityInv'
<1> DEFINE i == handler[h].idx
<1>0. /\ DOMAIN activeAlarms = 1..Len(activeAlarms)
      /\ activeAlarms \in [1..Len(activeAlarms) -> Notification]
      /\ activeAlarms \in Seq(Notification)
      /\ UniqueIdentity /\ ClientsRaiseOwn /\ i \in DOMAIN activeAlarms
  BY LenProperties, MatchedMoves, TypeSplit DEF IdentityInv, TypeOK
<1>1. \A k \in Handlers \ {h} : handler'[k] = handler[k]
  BY MatchedMoves, TypeSplit
<1>2. CASE SuppressDuplicate(h)
  <2>1. UNCHANGED activeAlarms /\ handler'[h].pc = "idle"
    BY <1>2, MatchedMoves, TypeSplit
  <2> QED BY <1>1, <2>1, QuietStep
<1>3. CASE Replace(h)
  <2>1. /\ handler[h].pc = "matched" /\ handler'[h].pc = "raising"
        /\ handler'[h].m = handler[h].m
        /\ activeAlarms' = RemoveAlarm(activeAlarms, i)
    BY <1>3, MatchedMoves, TypeSplit
  <2>2. mutex = h
    BY <2>1 DEF HeldInside, Critical
  <2>3. /\ SameAlarm(activeAlarms[i], handler[h].m)
        /\ handler[h].m.object # ManagerObject /\ activeAlarms[i].object # ManagerObject
    BY <2>1 DEF IdentityInv, IndexTargetsOwnAlarm, ClientsRaiseOwn, SameAlarm
  <2>4. UniqueIdentity' /\ ~IsMatchFound(activeAlarms', handler[h].m)
    BY <1>0, <2>1, <2>3, RemoveKeepsIdentities DEF UniqueIdentity
  <2> QED BY <1>0, <2>1, <2>2, <2>3, <2>4, OwnStep DEF Proceed
<1>4. CASE Reveal(h)
  <2>1. /\ handler[h].pc = "revealing" /\ handler'[h].pc = "history"
        /\ activeAlarms' = [activeAlarms EXCEPT ![i].raiseDelay = 0]
    BY <1>4, MatchedMoves, TypeSplit
  <2>2. mutex = h
    BY <2>1 DEF HeldInside, Critical
  <2>3. /\ DOMAIN activeAlarms' = DOMAIN activeAlarms
        /\ \A j \in DOMAIN activeAlarms : SameAlarm(activeAlarms'[j], activeAlarms[j])
    <3> HIDE DEF i
    <3> QED BY <1>0, <2>1 DEF SameAlarm, Notification
  <2>4. UniqueIdentity'
    BY <1>0, <2>3 DEF UniqueIdentity, OneAlarmPerIdentity, SameAlarm
  <2> QED BY <1>0, <2>1, <2>2, <2>4, OwnStep DEF Proceed
<1> QED BY <1>2, <1>3, <1>4

\* The other steps.
LEMMA ProceedKeepsIdentity ==
    ASSUME TypeOK, HeldInside, IdentityInv, GeneratesOwn, TableUnraced,
           NEW h \in Handlers, Proceed(h)
    PROVE  IdentityInv'
<1> USE DEF TypeOK, Local
<1> DEFINE m == handler[h].m
           id == uniqueAlarmId + 1
<1>0. /\ \A k \in Handlers \ {h} : handler'[k] = handler[k]
      /\ DOMAIN activeAlarms = 1..Len(activeAlarms)
      /\ m \in Notification /\ id \in Nat /\ id + 1 \in Nat
      /\ UniqueIdentity /\ ClientsRaiseOwn
  BY OthersUntouched, LenProperties DEF IdentityInv
<1>1. [m EXCEPT !.id = id] \in Notification /\ SameAlarm(m, [m EXCEPT !.id = id])
  BY <1>0, NotificationUpdate DEF Notification, SameAlarm
<1>2. At(h, "raising") => /\ m.object # ManagerObject
                          /\ ~IsMatchFound(activeAlarms, [m EXCEPT !.id = id])
  BY <1>1 DEF At, IdentityInv, RaiseUnmatched, IsMatchFound, SameAlarm
<1>3. ASSUME AfterRaising(h, id)
      PROVE  handler'[h].pc \in {"raiseDelay", "history"}
  BY <1>3 DEF AfterRaising
<1>4. CASE Raise(h)
  <2>1. UniqueIdentity'
    BY <1>0, <1>1, <1>2, <1>4, AppendKeepsIdentities DEF Raise, UniqueIdentity
  <2>2. mutex = h /\ handler'[h].pc \in {"raiseDelay", "history"}
    BY <1>3, <1>4 DEF Raise, Unlock
  <2> QED BY <1>0, <2>1, <2>2, OwnStep
<1>5. CASE RaiseOverLimit(h)
  <2> DEFINE t == ThresholdAlarm(ActiveProblem, id + 1)
             s == Append(activeAlarms, t)
  <2>1. t \in Notification /\ t.object = ManagerObject
    BY <1>0, <1>5, ThresholdTyped, ManagerAssumption DEF RaiseOverLimit, ThresholdAlarm
  <2>2. s \in Seq(Notification) /\ OneAlarmPerIdentity(s)
    BY <1>0, <2>1, AppendProperties, AppendKeepsIdentities DEF UniqueIdentity
  <2>3. ~IsMatchFound(s, [m EXCEPT !.id = id])
    <3>1. ~SameAlarm(t, [m EXCEPT !.id = id])
      BY <1>1, <1>2, <1>5, <2>1 DEF RaiseOverLimit, SameAlarm
    <3>2. ~IsMatchFound(activeAlarms, [m EXCEPT !.id = id])
      BY <1>2, <1>5 DEF RaiseOverLimit
    <3> QED BY <2>1, <3>1, <3>2, AppendKeepsUnmatched
  <2>4. activeAlarms' = Append(s, [m EXCEPT !.id = id])
    BY <1>5 DEF RaiseOverLimit
  <2>5. UniqueIdentity'
    BY <1>1, <2>2, <2>3, <2>4, AppendKeepsIdentities DEF UniqueIdentity
  <2>6. mutex = h /\ handler'[h].pc \in {"raiseDelay", "history"}
    BY <1>3, <1>5 DEF RaiseOverLimit, Unlock
  <2> QED BY <1>0, <2>5, <2>6, OwnStep
<1>6. ASSUME At(h, "clearing"), CanClear(h)
      PROVE  /\ mutex = h
             /\ RemoveAlarm(activeAlarms, handler[h].idx) \in Seq(Notification)
             /\ OneAlarmPerIdentity(RemoveAlarm(activeAlarms, handler[h].idx))
  BY <1>0, <1>6, RemoveKeepsIdentities, RemoveAlarmProperties
     DEF At, CanClear, HeldInside, Critical, UniqueIdentity
<1>7. CASE Clear(h)
  <2>1. UniqueIdentity' /\ mutex = h
    BY <1>6, <1>7 DEF Clear, UniqueIdentity
  <2>2. handler'[h].pc = "clearPersist"
    BY <1>7 DEF Clear, Goto
  <2> QED BY <1>0, <2>1, <2>2, OwnStep
<1>8. CASE ClearOverLimit(h)
  <2> DEFINE t == ThresholdAlarm(HistoryProblem, id)
  <2>1. t \in Notification /\ t.object = ManagerObject
    BY <1>0, <1>8, ThresholdTyped, ManagerAssumption DEF ClearOverLimit, ThresholdAlarm
  <2>2. UniqueIdentity' /\ mutex = h
    BY <1>6, <1>8, <2>1, AppendKeepsIdentities DEF ClearOverLimit, UniqueIdentity
  <2>3. handler'[h].pc = "clearPersist"
    BY <1>8 DEF ClearOverLimit, Goto
  <2> QED BY <1>0, <2>2, <2>3, OwnStep
<1>9. ASSUME Panic(h) PROVE handler'[h].pc \in {"idle", "stuck"}
  BY <1>9 DEF Panic, Idle
<1>10. CASE PanicIndex(h) \/ PanicRaising(h) \/ PanicThreshold(h) \/ PanicPosting(h)
  <2>1. UNCHANGED activeAlarms /\ Panic(h)
    BY <1>10 DEF PanicIndex, PanicRaising, PanicThreshold, PanicPosting, table
  <2> QED BY <1>0, <1>9, <2>1, QuietStep
<1>11. CASE PanicClearing(h)
  <2>1. handler'[h].pc \in {"idle", "stuck"} /\ At(h, "clearing")
    BY <1>9, <1>11 DEF PanicClearing
  <2>2. UniqueIdentity' /\ mutex = h
    BY <1>0, <1>6, <1>11, <2>1 DEF PanicClearing, UniqueIdentity, HeldInside, Critical, At
  <2> QED BY <1>0, <2>1, <2>2, OwnStep
<1>12. CASE ClearDone(h) \/ Post(h)
  <2>1. UNCHANGED activeAlarms /\ handler'[h].pc = "idle"
    BY <1>12 DEF ClearDone, Post, Return, Idle, table
  <2> QED BY <1>0, <2>1, QuietStep
<1>13. CASE CheckHistory(h) \/ StoreHistory(h) \/ Persist(h)
  <2>1. /\ UNCHANGED activeAlarms
        /\ handler'[h].pc \in {"thresholdId", "historyLoad", "persist", "post"}
    <3>1. CASE CheckHistory(h)
      <4>1. PICK label \in {"thresholdId", "historyLoad"} : Goto(h, label)
        BY <3>1 DEF CheckHistory
      <4> QED BY <3>1, <4>1 DEF CheckHistory, Goto, table
    <3>2. CASE StoreHistory(h)
      BY <3>2 DEF StoreHistory, Idle
    <3>3. CASE Persist(h)
      BY <3>3 DEF Persist, Goto, table
    <3> QED BY <1>13, <3>1, <3>2, <3>3
  <2> QED BY <1>0, <2>1, QuietStep
<1>14. CASE LoadHistory(h)
  <2>1. /\ UNCHANGED activeAlarms
        /\ handler'[h].pc \in {"thresholdHistoryStore", "historyStore"}
    BY <1>14 DEF LoadHistory, table
  <2> QED BY <1>0, <2>1, QuietStep
<1>15. CASE StoreActive(h)
  BY <1>15, StoreActiveKeepsIdentity
<1>16. CASE LoadId(h) \/ StoreId(h) \/ LoadActive(h) \/ StoreThresholdHistory(h)
  <2>1. UNCHANGED activeAlarms
    BY <1>16 DEF LoadId, StoreId, LoadActive, StoreThresholdHistory, table
  <2>2. handler'[h].pc \in {"thresholdIdStore", "thresholdActive", "thresholdActiveStore",
                            "historyLoad"}
    <3>1. CASE LoadId(h) \/ StoreId(h) \/ LoadActive(h)
      BY <3>1 DEF LoadId, StoreId, LoadActive
    <3>2. CASE StoreThresholdHistory(h)
      BY <3>2 DEF StoreThresholdHistory, Goto
    <3> QED BY <1>16, <3>1, <3>2
  <2> QED BY <1>0, <2>1, <2>2, QuietStep
<1> QED BY <1>4, <1>5, <1>7, <1>8, <1>10, <1>11, <1>12, <1>13, <1>14, <1>15, <1>16,
        MatchedKeepsIdentity DEF Proceed

\* What arrives from outside brings no goroutine to an append or a removal.
LEMMA OutsideKeepsIdentity ==
    ASSUME TypeOK, IdentityInv,
           \/ \E h \in Handlers, m \in Requests : Submit(h, m)
           \/ Environment \/ Done \/ UNCHANGED vars
    PROVE  IdentityInv'
<1>1. ASSUME NEW h \in Handlers, NEW m \in Requests, Submit(h, m) PROVE IdentityInv'
  <2>1. /\ UNCHANGED activeAlarms
        /\ \A k \in Handlers \ {h} : handler'[k] = handler[k]
        /\ handler'[h].pc = "waiting" /\ handler'[h].m = Notify(m)
    BY <1>1 DEF Submit, TypeOK, Idle, table
  <2>2. Notify(m).action = "RAISE" => Notify(m).object # ManagerObject
    BY ClientAssumption DEF Notify
  <2> QED BY <2>1, <2>2 DEF IdentityInv, UniqueIdentity, IndexTargetsOwnAlarm,
        RaiseUnmatched, ClientsRaiseOwn
<1>2. CASE Environment \/ Done \/ UNCHANGED vars
  <2>1. UNCHANGED <<activeAlarms, handler>>
    BY <1>2 DEF Environment, SetAlarmDefinition, DeleteAlarmDefinition, SetAlarmConfig,
       ConfigChangeCB, SetLimits, Done, vars, table
  <2> QED BY <2>1 DEF IdentityInv, UniqueIdentity, IndexTargetsOwnAlarm,
        RaiseUnmatched, ClientsRaiseOwn
<1> QED BY <1>1, <1>2

\* The strengthened invariant holds while nobody races for the table.
LEMMA IdentityInvariant == Spec /\ []TableUnraced => []IdentityInv
<1>1. Init => IdentityInv
  BY EmptySeq DEF Init, IdentityInv, UniqueIdentity, OneAlarmPerIdentity,
     IndexTargetsOwnAlarm, RaiseUnmatched, ClientsRaiseOwn, Idle
<1>2. TypeOK /\ HeldInside /\ GeneratesOwn /\ IdentityInv /\ TableUnraced /\ [Next]_vars
         => IdentityInv'
  BY AcquireKeepsIdentity, ProceedKeepsIdentity, OutsideKeepsIdentity DEF Next
<1> QED BY <1>1, <1>2, LockHeldInside, TypeCorrect, MutualExclusion, GeneratorsInvariant,
        PTL DEF Spec

\* However raises, clears, delays, limits, definition changes and panics are
\* interleaved, also with goroutines that generate the "history exceeded" alarm without
\* the mutex, no two active alarms of the applications have one identity, as long as no
\* step changes the table between the read and the write of that alarm's append,
THEOREM IdentityWhileUnraced == Spec /\ []TableUnraced => []UniqueIdentity
<1>1. IdentityInv => UniqueIdentity
  BY DEF IdentityInv
<1> QED BY <1>1, IdentityInvariant, PTL

\* and the index that ProcessAlarm, ProcessRaiseAlarm or ProcessClearAlarm uses, looked up
\* before or after a delay, is in the table and that of an alarm of the message's identity.
THEOREM ClearsWhileUnraced == Spec /\ []TableUnraced => []IndexTargetsOwnAlarm
<1>1. IdentityInv => IndexTargetsOwnAlarm
  BY DEF IdentityInv
<1> QED BY <1>1, IdentityInvariant, PTL

-------------------------------------------------------------------------------
(* What it takes to make the manager panic. *)

\* Where a goroutine holds the mutex and an index that a search has returned.
Indexed == {"matched", "revealing", "clearing"}

\* That index is in the table until the "history exceeded" alarm is stored without the
\* mutex, which may cut the table short.
IndexInv ==
    \A h \in Handlers : handler[h].pc \in Indexed =>
        HistoryAlarmStored \/ handler[h].idx \in DOMAIN activeAlarms

Panicking(h) ==
    \/ PanicIndex(h) \/ PanicRaising(h) \/ PanicThreshold(h) \/ PanicPosting(h)
    \/ PanicClearing(h)

LEMMA PanickingPanics ==
    ASSUME TypeOK, NEW h \in Handlers, Panicking(h)
    PROVE  Panic(h) /\ handler'[h].pc \in {"idle", "stuck"}
<1>1. Panic(h)
  BY DEF Panicking, PanicIndex, PanicRaising, PanicThreshold, PanicPosting, PanicClearing
<1> QED BY <1>1 DEF Panic, Idle, TypeOK

\* A goroutine that is not taking the mutex gets no new index, and unless it panics it
\* leaves the process alive and the mutex usable.
LEMMA ProceedsOrPanics ==
    ASSUME TypeOK, NEW h \in Handlers, Proceed(h)
    PROVE  \/ Panicking(h)
           \/ UNCHANGED crashed /\ handler'[h].pc \notin Indexed \cup {"stuck"}
<1> USE DEF TypeOK, Local, Indexed
<1>1. CASE SuppressDuplicate(h) \/ Replace(h) \/ Reveal(h)
  <2> HIDE DEF TypeOK
  <2>1. UNCHANGED setting /\ handler'[h].pc \in {"idle", "raising", "history"}
    BY <1>1, MatchedMoves, TypeSplit
  <2> QED BY <2>1 DEF setting
<1>2. CASE Panicking(h)
  BY <1>2
<1>3. CASE Raise(h) \/ RaiseOverLimit(h)
  <2>1. UNCHANGED crashed /\ AfterRaising(h, uniqueAlarmId + 1)
    BY <1>3 DEF Raise, RaiseOverLimit, setting
  <2> QED BY <2>1 DEF AfterRaising
<1>4. CASE \/ CheckHistory(h) \/ StoreActive(h) \/ StoreThresholdHistory(h) \/ Persist(h)
           \/ Clear(h) \/ ClearOverLimit(h)
  <2>1. PICK label \in {"thresholdId", "historyLoad", "thresholdHistory", "post",
                        "clearPersist"} : Goto(h, label)
    BY <1>4 DEF CheckHistory, StoreActive, StoreThresholdHistory, Persist, Clear,
       ClearOverLimit
  <2>2. handler'[h].pc = label
    BY <2>1 DEF Goto
  <2>3. UNCHANGED crashed
    BY <1>4 DEF CheckHistory, StoreActive, StoreThresholdHistory, Persist, Clear,
       ClearOverLimit, setting
  <2> QED BY <2>2, <2>3
<1>5. CASE LoadId(h) \/ StoreId(h) \/ LoadActive(h) \/ LoadHistory(h)
  <2>1. UNCHANGED crashed
    BY <1>5 DEF LoadId, StoreId, LoadActive, LoadHistory, setting
  <2>2. handler'[h].pc \in {"thresholdIdStore", "thresholdActive", "thresholdActiveStore",
                            "thresholdHistoryStore", "historyStore"}
    BY <1>5 DEF LoadId, StoreId, LoadActive, LoadHistory
  <2> QED BY <2>1, <2>2
<1>6. CASE StoreHistory(h)
  BY <1>6 DEF StoreHistory, Idle, setting
<1>7. CASE Post(h) \/ ClearDone(h)
  <2>1. Return(h) /\ UNCHANGED crashed
    BY <1>7 DEF Post, ClearDone, setting
  <2> QED BY <2>1 DEF Return, Idle
<1> QED BY <1>1, <1>2, <1>3, <1>4, <1>5, <1>6, <1>7 DEF Proceed, Panicking

\* Nor does one that takes it, and the index it gets is in the table.
LEMMA AcquireIndexes ==
    ASSUME TypeOK, NEW h \in Handlers, Acquire(h)
    PROVE  /\ UNCHANGED <<crashed, activeAlarms>> /\ mutex = Free
           /\ handler'[h].pc # "stuck"
           /\ handler'[h].pc \in Indexed => handler'[h].idx \in DOMAIN activeAlarms
<1>1. /\ UNCHANGED <<crashed, activeAlarms>> /\ mutex = Free
  BY AcquireNeedsFree DEF Acquire, Suppress, AcceptRaise, AcceptClear, RaiseDelayOver,
     RaiseAbandoned, ClearDelayOver, ClearAbandoned, table, setting
<1>2. CASE Suppress(h) \/ RaiseAbandoned(h) \/ ClearAbandoned(h)
  <2>1. Return(h)
    BY <1>2 DEF Suppress, RaiseAbandoned, ClearAbandoned
  <2>2. handler'[h].pc = "idle"
    BY <2>1 DEF Return, Idle, TypeOK
  <2> QED BY <1>1, <2>2 DEF Indexed
<1>3. CASE AcceptRaise(h) \/ RaiseDelayOver(h)
  <2>1. /\ handler'[h].pc \in {"raising", "matched", "revealing"}
        /\ handler'[h].pc # "raising" => handler'[h].idx \in DOMAIN activeAlarms
    BY <1>3, AcceptRaiseMoves, RaiseDelayOverMoves, TypeSplit DEF IsFirstMatch
  <2> QED BY <1>1, <2>1 DEF Indexed
<1>4. CASE AcceptClear(h) \/ ClearDelayOver(h)
  <2> PICK i \in DOMAIN activeAlarms : \E label \in {"clearDelay", "clearing"} :
             handler' = [handler EXCEPT ![h].pc = label, ![h].idx = i]
    BY <1>4 DEF AcceptClear, ClearDelayOver
  <2>1. handler'[h].pc \in {"clearDelay", "clearing"} /\ handler'[h].idx = i
    BY DEF TypeOK, Local
  <2> QED BY <1>1, <2>1
<1> QED BY <1>2, <1>3, <1>4 DEF Acquire

\* The steps without the mutex leave the indices good, or the alarm stored.
LEMMA RecordingKeepsIndex ==
    ASSUME TypeOK, NEW h \in Handlers, Proceed(h), handler[h].pc \notin Critical,
           \A k \in Handlers \ {h} : handler'[k] = handler[k]
    PROVE  \/ HistoryAlarmStored'
           \/ UNCHANGED activeAlarms /\ ~HistoryAlarmStored
<1> USE DEF TypeOK, Local, At
<1>1. CASE StoreActive(h)
  <2>1. handler'[h].pc = "thresholdHistory"
    BY <1>1 DEF StoreActive, Goto
  <2> QED BY <2>1 DEF HistoryAlarmStored
<1>2. CASE StoreThresholdHistory(h)
  BY <1>2 DEF StoreThresholdHistory, HistoryAlarmStored
<1>3. CASE LoadHistory(h)
  <2>1. /\ UNCHANGED <<activeAlarms, exceededAlarmHistoryOn>>
        /\ handler[h].pc \in {"thresholdHistory", "thresholdHistoryStore"} =>
              handler'[h].pc \in {"thresholdHistory", "thresholdHistoryStore"}
    BY <1>3 DEF LoadHistory, table, flags
  <2> QED BY <2>1 DEF HistoryAlarmStored
<1>4. ASSUME UNCHANGED <<activeAlarms, exceededAlarmHistoryOn>>,
             handler[h].pc \notin {"thresholdHistory", "thresholdHistoryStore"}
      PROVE  \/ HistoryAlarmStored'
             \/ UNCHANGED activeAlarms /\ ~HistoryAlarmStored
  BY <1>4 DEF HistoryAlarmStored
<1>5. CASE \/ CheckHistory(h) \/ LoadId(h) \/ StoreId(h) \/ LoadActive(h) \/ StoreHistory(h)
  BY <1>4, <1>5 DEF CheckHistory, LoadId, StoreId, LoadActive, StoreHistory, table, flags
<1>6. CASE Persist(h) \/ Post(h) \/ PanicThreshold(h) \/ PanicPosting(h)
  BY <1>4, <1>6 DEF Persist, Post, PanicThreshold, PanicPosting, table, flags
<1>7. CASE \/ SuppressDuplicate(h) \/ Replace(h) \/ Reveal(h) \/ PanicIndex(h)
           \/ Raise(h) \/ RaiseOverLimit(h) \/ PanicRaising(h)
           \/ Clear(h) \/ ClearOverLimit(h) \/ PanicClearing(h) \/ ClearDone(h)
  BY <1>7 DEF SuppressDuplicate, Replace, HasMatched, Reveal, PanicIndex, Raise,
     RaiseOverLimit, PanicRaising, Clear, ClearOverLimit, PanicClearing, ClearDone, Critical
<1> QED BY <1>1, <1>2, <1>3, <1>5, <1>6, <1>7 DEF Proceed

\* What a goroutine does with the mutex disturbs no other one's index.
LEMMA StepKeepsIndex ==
    ASSUME TypeOK, HeldInside, IndexInv, NEW h \in Handlers, Acquire(h) \/ Proceed(h)
    PROVE  IndexInv'
<1>1. \A k \in Handlers \ {h} : handler'[k] = handler[k]
  BY OthersUntouched
<1>2. ASSUME mutex \in {Free, h}
      PROVE  \A k \in Handlers \ {h} : handler'[k].pc \notin Indexed
  BY <1>1, <1>2, ManagerAssumption DEF HeldInside, Critical, Indexed
<1>3. CASE Acquire(h)
  BY <1>2, <1>3, AcquireIndexes DEF IndexInv
<1>4. CASE Proceed(h)
  <2>1. handler'[h].pc \notin Indexed
    BY <1>4, ProceedsOrPanics, PanickingPanics DEF Indexed
  <2>2. CASE handler[h].pc \in Critical
    BY <1>2, <2>1, <2>2 DEF IndexInv, HeldInside
  <2>3. CASE handler[h].pc \notin Critical
    BY <1>1, <1>4, <2>1, <2>3, RecordingKeepsIndex DEF IndexInv
  <2> QED BY <2>2, <2>3
<1> QED BY <1>3, <1>4

\* So do messages that arrive, changes from outside and stuttering.
LEMMA OutsideKeepsIndex ==
    ASSUME TypeOK, IndexInv,
           \/ \E h \in Handlers, m \in Requests : Submit(h, m)
           \/ Environment \/ Done \/ UNCHANGED vars
    PROVE  IndexInv'
<1>1. UNCHANGED <<activeAlarms, exceededAlarmHistoryOn>>
  BY DEF Submit, Environment, SetAlarmDefinition, DeleteAlarmDefinition, SetAlarmConfig,
     ConfigChangeCB, SetLimits, Done, vars, table, flags
<1>2. \A k \in Handlers :
         \/ handler'[k] = handler[k]
         \/ handler[k].pc = "idle" /\ handler'[k].pc = "waiting"
  <2>1. ASSUME NEW h \in Handlers, NEW m \in Requests, Submit(h, m)
        PROVE  /\ \A k \in Handlers \ {h} : handler'[k] = handler[k]
               /\ handler[h].pc = "idle" /\ handler'[h].pc = "waiting"
    BY <2>1 DEF Submit, At, Idle, TypeOK
  <2>2. CASE Environment \/ Done \/ UNCHANGED vars
    BY <2>2 DEF Environment, SetAlarmDefinition, DeleteAlarmDefinition, SetAlarmConfig,
       ConfigChangeCB, SetLimits, Done, vars
  <2> QED BY <2>1, <2>2
<1>3. HistoryAlarmStored => HistoryAlarmStored'
  BY <1>1, <1>2 DEF HistoryAlarmStored
<1> QED BY <1>1, <1>2, <1>3 DEF IndexInv, Indexed

LEMMA IndexInvariant == Spec => []IndexInv
<1>1. Init => IndexInv
  BY DEF Init, IndexInv, Idle, Indexed
<1>2. TypeOK /\ HeldInside /\ IndexInv /\ [Next]_vars => IndexInv'
  BY StepKeepsIndex, OutsideKeepsIndex DEF Next
<1> QED BY <1>1, <1>2, LockHeldInside, TypeCorrect, MutualExclusion, PTL DEF Spec

\* A goroutine that panics does so for want of a definition, or because its index is not
\* in the table.
LEMMA PanicHasReason ==
    ASSUME TypeOK, NEW h \in Handlers, Acquire(h) \/ Proceed(h), ~Panicked, Panicked'
    PROVE  /\ handler'[h] # handler[h]
           /\ \/ LacksDefinition(h)
              \/ handler[h].pc \in Indexed /\ handler[h].idx \notin DOMAIN activeAlarms
<1> USE DEF TypeOK, Local, At, LacksDefinition
<1>1. \A k \in Handlers \ {h} : handler'[k] = handler[k]
  BY OthersUntouched
<1>2. CASE Acquire(h)
  BY <1>1, <1>2, AcquireIndexes DEF Panicked
<1>3. CASE UNCHANGED crashed /\ handler'[h].pc # "stuck"
  BY <1>1, <1>3 DEF Panicked
<1>4. CASE Panicking(h)
  <2>1. handler'[h].pc \in {"idle", "stuck"}
    BY <1>4, PanickingPanics
  <2>2. CASE PanicIndex(h)
    BY <2>1, <2>2 DEF PanicIndex, Indexed
  <2>3. CASE PanicRaising(h)
    BY <2>1, <2>3 DEF PanicRaising
  <2>4. CASE PanicThreshold(h)
    BY <2>1, <2>4 DEF PanicThreshold
  <2>5. CASE PanicPosting(h)
    BY <2>1, <2>5 DEF PanicPosting
  <2>6. CASE PanicClearing(h)
    BY <2>1, <2>6 DEF PanicClearing, CanClear, Indexed
  <2> QED BY <1>4, <2>2, <2>3, <2>4, <2>5, <2>6 DEF Panicking
<1> QED BY <1>2, <1>3, <1>4, ProceedsOrPanics

\* What comes from outside ends the process only while it writes the definitions.
LEMMA OutsideHasReason ==
    ASSUME TypeOK, ~Panicked, Panicked',
           \/ \E h \in Handlers, m \in Requests : Submit(h, m)
           \/ Environment \/ Done \/ UNCHANGED vars
    PROVE  definitions' # definitions
<1>1. ASSUME NEW h \in Handlers, NEW m \in Requests, Submit(h, m) PROVE FALSE
  <2>1. /\ \A k \in Handlers \ {h} : handler'[k] = handler[k]
        /\ handler'[h].pc = "waiting" /\ UNCHANGED crashed
    BY <1>1 DEF Submit, Idle, TypeOK
  <2> QED BY <2>1 DEF Panicked
<1>2. ASSUME NEW d \in NewDefinitions, SetAlarmDefinition(d) PROVE definitions' # definitions
  <2>1. d.problem \in Problems /\ d.problem \in Nat
        /\ d.raiseDelay \in Nat /\ d.clearDelay \in Nat
    BY ManagerAssumption, TableAssumption
  <2>2. definitions'[d.problem] \in Definition
    BY <1>2, <2>1 DEF SetAlarmDefinition, Definition, TypeOK
  <2>3. definitions[d.problem] = NoDefinition
    BY <1>2 DEF SetAlarmDefinition, Defined
  <2> QED BY <2>2, <2>3, ManagerAssumption
<1>3. ASSUME NEW p \in Deletable, DeleteAlarmDefinition(p) PROVE definitions' # definitions
  BY <1>3, ManagerAssumption DEF DeleteAlarmDefinition, Defined, TypeOK
<1>4. CASE \E c \in NewConfigs : SetAlarmConfig(c) \/ ConfigChangeCB(c)
  BY <1>4 DEF SetAlarmConfig, ConfigChangeCB, SetLimits, Panicked
<1>5. CASE Done \/ UNCHANGED vars
  BY <1>5 DEF Done, vars, setting, Panicked
<1> QED BY <1>1, <1>2, <1>3, <1>4, <1>5 DEF Environment

\* However many clears of one alarm wait for their delays, whatever is raised, replaced
\* and cleared beside them: at the moment of a panic the definitions are being written, or
\* one that the goroutine needs is not there, or the "history exceeded" alarm has been
\* stored without the mutex, which alone can take an index out of the table.
THEOREM PanicsExplained == Spec => PanicHasCause
<1>1. TypeOK /\ IndexInv /\ [Next]_vars /\ ~Panicked /\ Panicked' =>
         \/ definitions' # definitions
         \/ \E h \in Handlers : handler'[h] # handler[h] /\ LacksDefinition(h)
         \/ HistoryAlarmStored
  BY PanicHasReason, OutsideHasReason DEF IndexInv, Next
<1>2. TypeOK /\ IndexInv /\ [Next]_vars =>
         [~Panicked /\ Panicked' =>
             \/ definitions' # definitions
             \/ \E h \in Handlers : handler'[h] # handler[h] /\ LacksDefinition(h)
             \/ HistoryAlarmStored]_vars
  BY <1>1
<1> QED BY <1>2, TypeCorrect, IndexInvariant, PTL DEF Spec, PanicHasCause

\* While nobody races for the table no index panics at all, the history limit reached or
\* not: what is left is the map of definitions and a definition that is gone.
OnlyDefinitionsPanic ==
    [][~Panicked /\ Panicked' =>
          \/ definitions' # definitions
          \/ \E h \in Handlers : handler'[h] # handler[h] /\ LacksDefinition(h)]_vars

THEOREM PanicsWhileUnraced == Spec /\ []TableUnraced => OnlyDefinitionsPanic
<1>1. TypeOK /\ IndexTargetsOwnAlarm /\ [Next]_vars =>
         [~Panicked /\ Panicked' =>
             \/ definitions' # definitions
             \/ \E h \in Handlers : handler'[h] # handler[h] /\ LacksDefinition(h)]_vars
  BY PanicHasReason, OutsideHasReason DEF IndexTargetsOwnAlarm, Indexed, Next
<1> QED BY <1>1, TypeCorrect, ClearsWhileUnraced, PTL DEF Spec, OnlyDefinitionsPanic

===============================================================================
