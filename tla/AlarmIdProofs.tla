----------------------------- MODULE AlarmIdProofs -----------------------------
(***************************************************************************)
(* What ids, the flag of the active-alarm limit, the raise delays and the  *)
(* history rest on, for every value of the constants, also while goroutines*)
(* generate the history alarm without the mutex: as long as no step comes  *)
(* between the two halves of what they do to the table and the id counter. *)
(***************************************************************************)
EXTENDS AlarmManagerProofs

-------------------------------------------------------------------------------
(* Tables, their entries and ids. *)

\* What an append adds.
LEMMA AppendEntries ==
    ASSUME NEW s \in Seq(Notification), NEW e \in Notification
    PROVE  /\ Append(s, e) \in Seq(Notification)
           /\ Entries(Append(s, e)) = Entries(s) \cup {e}
<1>1. /\ Append(s, e) \in Seq(Notification) /\ Len(Append(s, e)) = Len(s) + 1
      /\ Append(s, e)[Len(s) + 1] = e
      /\ \A k \in 1..Len(s) : Append(s, e)[k] = s[k]
  BY AppendProperties
<1>2. Len(s) \in Nat /\ DOMAIN s = 1..Len(s) /\ DOMAIN Append(s, e) = 1..(Len(s) + 1)
  BY <1>1, LenProperties
<1> QED BY <1>1, <1>2 DEF Entries

\* What a removal leaves: everything but the alarm removed.
LEMMA RemoveEntries ==
    ASSUME NEW s \in Seq(Notification), NEW i \in DOMAIN s
    PROVE  /\ RemoveAlarm(s, i) \in Seq(Notification)
           /\ Entries(RemoveAlarm(s, i)) \subseteq Entries(s)
           /\ \A k \in DOMAIN s \ {i} : s[k] \in Entries(RemoveAlarm(s, i))
<1> DEFINE r == RemoveAlarm(s, i)
           old(k) == IF k < i THEN k ELSE k + 1
           new(k) == IF k < i THEN k ELSE k - 1
<1>0. Len(s) \in Nat /\ DOMAIN s = 1..Len(s) /\ i \in 1..Len(s)
  BY LenProperties
<1>1. /\ r \in Seq(Notification) /\ Len(r) = Len(s) - 1
      /\ \A k \in 1..(Len(s) - 1) : r[k] = IF k < i THEN s[k] ELSE s[k + 1]
  BY <1>0, RemoveAlarmProperties
<1> HIDE DEF r
<1>2. DOMAIN r = 1..(Len(s) - 1)
  BY <1>1, LenProperties
<1>3. \A k \in DOMAIN r : old(k) \in DOMAIN s /\ r[k] = s[old(k)]
  BY <1>0, <1>1, <1>2
<1>4. \A k \in DOMAIN s \ {i} : new(k) \in DOMAIN r /\ s[k] = r[new(k)]
  BY <1>0, <1>1, <1>2
<1> HIDE DEF old, new
<1>5. Entries(r) \subseteq Entries(s)
  BY <1>3 DEF Entries
<1>6. \A k \in DOMAIN s \ {i} : s[k] \in Entries(r)
  BY <1>4 DEF Entries
<1> QED BY <1>1, <1>5, <1>6 DEF r

\* The ids of a table are different, and none is above n.
IdsBelow(s, n) ==
    /\ \A i, j \in DOMAIN s : s[i].id = s[j].id => i = j
    /\ \A e \in Entries(s) : e.id <= n

\* They stay so when an alarm is removed,
LEMMA RemoveKeepsIds ==
    ASSUME NEW s \in Seq(Notification), NEW i \in DOMAIN s, NEW n \in Nat, IdsBelow(s, n)
    PROVE  IdsBelow(RemoveAlarm(s, i), n)
<1> DEFINE r == RemoveAlarm(s, i)
           old(k) == IF k < i THEN k ELSE k + 1
<1>0. Len(s) \in Nat /\ DOMAIN s = 1..Len(s) /\ i \in 1..Len(s)
  BY LenProperties
<1>1. /\ r \in Seq(Notification) /\ Len(r) = Len(s) - 1
      /\ \A k \in 1..(Len(s) - 1) : r[k] = IF k < i THEN s[k] ELSE s[k + 1]
  BY <1>0, RemoveAlarmProperties
<1>5. Entries(r) \subseteq Entries(s)
  BY RemoveEntries
<1> HIDE DEF r
<1>2. DOMAIN r = 1..(Len(s) - 1)
  BY <1>1, LenProperties
<1>3. \A k \in DOMAIN r : old(k) \in DOMAIN s /\ r[k] = s[old(k)]
  BY <1>0, <1>1, <1>2
<1>4. \A k, l \in DOMAIN r : old(k) = old(l) => k = l
  BY <1>0, <1>2
<1> HIDE DEF old
<1>6. \A k, l \in DOMAIN r : r[k].id = r[l].id => k = l
  BY <1>3, <1>4 DEF IdsBelow
<1>7. \A e \in Entries(r) : e.id <= n
  BY <1>5 DEF IdsBelow
<1> QED BY <1>6, <1>7 DEF IdsBelow, r

\* and when an alarm with another id is appended.
LEMMA AppendKeepsIds ==
    ASSUME NEW s \in Seq(Notification), NEW e \in Notification,
           NEW n \in Nat, NEW new \in Nat, IdsBelow(s, n), n <= new, e.id <= new,
           \A k \in DOMAIN s : s[k].id # e.id
    PROVE  IdsBelow(Append(s, e), new)
<1> DEFINE r == Append(s, e)
<1>1. /\ r \in Seq(Notification) /\ Len(r) = Len(s) + 1 /\ r[Len(s) + 1] = e
      /\ \A k \in 1..Len(s) : r[k] = s[k]
  BY AppendProperties
<1>2. Len(s) \in Nat /\ DOMAIN s = 1..Len(s) /\ DOMAIN r = 1..(Len(s) + 1)
  BY <1>1, LenProperties
<1>3. Entries(r) = Entries(s) \cup {e} /\ Entries(s) \subseteq Notification
  BY <1>2, AppendEntries, ElementOfSeq DEF Entries
<1> HIDE DEF r
<1>4. \A x \in Entries(r) : x.id <= new
  <2> SUFFICES ASSUME NEW x \in Entries(s) PROVE x.id <= new
    BY <1>3
  <2>1. x.id \in Nat /\ x.id <= n
    BY <1>3 DEF Notification, IdsBelow
  <2> QED BY <2>1
<1>5. \A i, j \in DOMAIN r : r[i].id = r[j].id => i = j
  BY <1>1, <1>2 DEF IdsBelow
<1> QED BY <1>4, <1>5 DEF IdsBelow, r

\* The entries of the table are notifications.
LEMMA EntriesTyped == TypeOK => Entries(activeAlarms) \subseteq Notification
BY LenProperties, ElementOfSeq DEF TypeOK, Entries

\* A reveal changes the delay of the alarm at its index and nothing else in the table.
LEMMA RevealedTable ==
    ASSUME TypeOK, NEW h \in Handlers, Reveal(h)
    PROVE  /\ handler[h].idx \in DOMAIN activeAlarms
           /\ DOMAIN activeAlarms' = DOMAIN activeAlarms
           /\ \A k \in DOMAIN activeAlarms :
                 /\ activeAlarms'[k].id = activeAlarms[k].id
                 /\ SameAlarm(activeAlarms'[k], activeAlarms[k])
                 /\ IF k = handler[h].idx THEN activeAlarms'[k].raiseDelay = 0
                                          ELSE activeAlarms'[k] = activeAlarms[k]
<1> DEFINE i == handler[h].idx
<1>1. /\ i \in DOMAIN activeAlarms
      /\ activeAlarms' = [activeAlarms EXCEPT ![i].raiseDelay = 0]
  BY DEF Reveal
<1>2. activeAlarms[i] \in Notification /\ activeAlarms \in Seq(Notification)
  BY <1>1, ElementOfSeq, LenProperties DEF TypeOK
<1> QED BY <1>1, <1>2 DEF Notification, SameAlarm

\* The manager's own two problems have no raise delay
\* (definitions/alarm-definition.json).
OwnUndelayed ==
    \A p \in {ActiveProblem, HistoryProblem} : Defined(p) => definitions[p].raiseDelay = 0

\* What the manager's own alarms are.
LEMMA OwnAlarm ==
    ASSUME TypeOK, NEW p \in {ActiveProblem, HistoryProblem}, Defined(p), NEW id \in Nat
    PROVE  /\ ThresholdAlarm(p, id) \in Notification
           /\ ThresholdAlarm(p, id).id = id
           /\ ThresholdAlarm(p, id).object = ManagerObject
           /\ ThresholdAlarm(p, id).problem = p
           /\ ThresholdAlarm(p, id).action = "RAISE"
           /\ OwnUndelayed => ThresholdAlarm(p, id).raiseDelay = 0
<1>1. ThresholdAlarm(p, id) \in Notification
  <2>1. p \in Problems /\ definitions \in [Problems -> Definition \cup {NoDefinition}]
    BY ManagerAssumption DEF TypeOK
  <2> QED BY <2>1, ThresholdTyped
<1> QED BY <1>1 DEF ThresholdAlarm, OwnUndelayed

-------------------------------------------------------------------------------
(* Where goroutines go, and what they carry. *)

\* Between the raise of an alarm, which gives it its id, and its record in the history.
Recorders ==
    {"raiseDelay", "revealing", "history", "historyLoad", "historyStore"} \cup Threshold

\* A raise on its way to ProcessRaiseAlarm.
Raising == {"matched", "raising"}

\* A goroutine in ProcessRaiseAlarm carries a raise, one in ProcessClearAlarm a clear.
KindInv ==
    \A h \in Handlers :
        /\ handler[h].pc \in Raising \cup Recorders => handler[h].m.action = "RAISE"
        /\ handler[h].pc \in {"clearDelay", "clearing"} => handler[h].m.action = "CLEAR"

\* How a goroutine moves: it raises what came as a raise, clears what came as a clear,
\* records what it has raised, and keeps its message; what it reads of the history is
\* the history as it is.
Moves(h) ==
    /\ handler'[h].pc \in Readers => handler'[h].loaded = alarmHistory
    /\ handler'[h].pc \in Raising \cup {"clearDelay", "clearing"} \cup Recorders =>
          handler'[h].m.action = handler[h].m.action
    /\ handler'[h].pc \in Raising =>
          handler[h].pc = "matched" \/ handler[h].m.action = "RAISE"
    /\ handler'[h].pc \in {"clearDelay", "clearing"} =>
          handler[h].pc = "clearDelay" \/ handler[h].m.action = "CLEAR"
    /\ handler'[h].pc \in Recorders =>
          \/ handler[h].pc \in Recorders /\ handler'[h].m.id = handler[h].m.id
          \/ /\ Raise(h) \/ RaiseOverLimit(h)
             /\ handler[h].pc = "raising" /\ handler'[h].m.id = uniqueAlarmId + 1
             /\ uniqueAlarmId < uniqueAlarmId'

\* The steps that take the mutex move so,
LEMMA AcquireMoves ==
    ASSUME TypeOK, NEW h \in Handlers, Acquire(h)
    PROVE  Moves(h)
<1> USE DEF TypeOK, Local, Notification, Moves, Raising, Recorders, Threshold, Readers, At
<1>0. DataOK
  BY TypeSplit
<1>1. CASE Suppress(h) \/ RaiseAbandoned(h) \/ ClearAbandoned(h)
  <2>1. handler'[h] = Idle
    BY <1>1 DEF Suppress, RaiseAbandoned, ClearAbandoned, Return
  <2> QED BY <2>1 DEF Idle
<1>2. CASE AcceptRaise(h)
  <2>1. /\ handler[h].m.action = "RAISE" /\ handler'[h].pc \in Raising
        /\ handler'[h].m = [handler[h].m EXCEPT
              !.raiseDelay = definitions[handler[h].m.problem].raiseDelay]
    BY <1>0, <1>2, AcceptRaiseMoves
  <2> QED BY <2>1
<1>3. CASE AcceptClear(h)
  <2>1. handler[h].m.action = "CLEAR"
    BY <1>3 DEF AcceptClear
  <2>2. PICK i \in DOMAIN activeAlarms, label \in {"clearDelay", "clearing"} :
           handler' = [handler EXCEPT ![h].pc = label, ![h].idx = i]
    BY <1>3 DEF AcceptClear
  <2>3. handler'[h].pc \in {"clearDelay", "clearing"} /\ handler'[h].m = handler[h].m
    BY <2>2
  <2> QED BY <2>1, <2>3
<1>4. CASE RaiseDelayOver(h)
  <2>1. /\ handler[h].pc = "raiseDelay" /\ handler'[h].pc = "revealing"
        /\ handler'[h].m = handler[h].m
    BY <1>0, <1>4, RaiseDelayOverMoves
  <2> QED BY <2>1
<1>5. CASE ClearDelayOver(h)
  <2>1. /\ handler[h].pc = "clearDelay" /\ handler'[h].pc = "clearing"
        /\ handler'[h].m = handler[h].m
    BY <1>5 DEF ClearDelayOver
  <2> QED BY <2>1
<1> QED BY <1>1, <1>2, <1>3, <1>4, <1>5 DEF Acquire

\* and so do the others.
LEMMA ProceedMoves ==
    ASSUME TypeOK, NEW h \in Handlers, Proceed(h)
    PROVE  Moves(h)
<1> USE DEF Moves, Raising, Recorders, Threshold, Readers
<1>1. CASE Raise(h) \/ RaiseOverLimit(h)
  <2>1. /\ handler[h].pc = "raising" /\ AfterRaising(h, uniqueAlarmId + 1)
        /\ uniqueAlarmId' \in {uniqueAlarmId + 1, uniqueAlarmId + 2}
    BY <1>1 DEF Raise, RaiseOverLimit, At, TypeOK
  <2>2. uniqueAlarmId < uniqueAlarmId'
    BY <2>1 DEF TypeOK
  <2>3. /\ handler'[h].pc \in {"raiseDelay", "history"}
        /\ handler'[h].m.id = uniqueAlarmId + 1
        /\ handler'[h].m.action = handler[h].m.action
    BY <2>1 DEF AfterRaising, TypeOK, Local, Notification
  <2> QED BY <1>1, <2>1, <2>2, <2>3
<1>2. CASE \/ PanicIndex(h) \/ PanicRaising(h) \/ PanicThreshold(h) \/ PanicClearing(h)
           \/ PanicPosting(h)
  <2>1. handler'[h] \in {Idle, [Idle EXCEPT !.pc = "stuck"]}
    BY <1>2 DEF PanicIndex, PanicRaising, PanicThreshold, PanicClearing, PanicPosting, Panic,
       TypeOK
  <2>2. handler'[h].pc \in {"idle", "stuck"}
    BY <2>1 DEF Idle
  <2> QED BY <2>2
<1>3. CASE \/ CheckHistory(h) \/ LoadId(h) \/ StoreId(h) \/ LoadActive(h) \/ StoreActive(h)
           \/ LoadHistory(h) \/ StoreThresholdHistory(h) \/ StoreHistory(h) \/ Persist(h)
  <2>1. /\ handler[h].pc \in Recording /\ handler'[h].pc \in Recording
        /\ handler[h].pc = "persist" => handler'[h].pc = "post"
        /\ handler[h].pc # "post"
        /\ handler'[h].m = handler[h].m
        /\ handler'[h].pc \in Readers => handler'[h].loaded = alarmHistory
    BY <1>3, RecordingMoves
  <2> QED BY <2>1 DEF Recording
<1>4. CASE ClearDone(h) \/ Post(h)
  <2>1. handler'[h].pc = "idle"
    BY <1>4 DEF ClearDone, Post, Return, Idle, TypeOK
  <2> QED BY <2>1
<1>5. CASE Clear(h) \/ ClearOverLimit(h)
  <2>1. handler' = [handler EXCEPT ![h].pc = "clearPersist"]
    BY <1>5 DEF Clear, ClearOverLimit, Goto
  <2>2. handler'[h].pc = "clearPersist"
    BY <2>1 DEF TypeOK, Local
  <2> QED BY <2>2
<1>6. CASE SuppressDuplicate(h) \/ Replace(h) \/ Reveal(h)
  <2>1. \/ handler'[h].pc = "idle"
        \/ /\ handler[h].pc = "matched" /\ handler'[h].pc = "raising"
           /\ handler'[h].m = handler[h].m
        \/ /\ handler[h].pc = "revealing" /\ handler'[h].pc = "history"
           /\ handler'[h].m = [handler[h].m EXCEPT !.raiseDelay = 0]
    BY <1>6, MatchedMoves, TypeSplit
  <2>2. handler[h].m \in Notification
    BY DEF TypeOK, Local
  <2> QED BY <2>1, <2>2 DEF Notification
<1> QED BY <1>1, <1>2, <1>3, <1>4, <1>5, <1>6 DEF Proceed

\* Where everyone is after a step of the goroutines.
LEMMA EveryoneMoves ==
    ASSUME TypeOK, NEW h \in Handlers, Acquire(h) \/ Proceed(h)
    PROVE  Moves(h) /\ \A k \in Handlers \ {h} : handler'[k] = handler[k]
BY AcquireMoves, ProceedMoves, OthersUntouched

\* An arrival, a change from outside and a stutter begin nothing.
LEMMA OutsideMoves ==
    ASSUME TypeOK, \/ \E h \in Handlers, m \in Requests : Submit(h, m)
                   \/ Environment \/ Done \/ UNCHANGED vars
    PROVE  /\ UNCHANGED table
           /\ \A k \in Handlers : handler'[k] = handler[k] \/ handler'[k].pc = "waiting"
<1>1. UNCHANGED table
  BY DEF Submit, Environment, SetAlarmDefinition, DeleteAlarmDefinition, SetAlarmConfig,
     ConfigChangeCB, SetLimits, Done, vars
<1> QED BY <1>1, OutsideGenerates

\* The goroutines carry raises and clears where they should.
LEMMA KindInvariant == Spec => []KindInv
<1>1. Init => KindInv
  BY DEF Init, KindInv, Idle, Raising, Recorders, Threshold
<1>2. TypeOK /\ KindInv /\ [Next]_vars => KindInv'
  <2> SUFFICES ASSUME TypeOK, KindInv, [Next]_vars PROVE KindInv'
    OBVIOUS
  <2>1. ASSUME NEW h \in Handlers, Acquire(h) \/ Proceed(h) PROVE KindInv'
    <3>1. Moves(h) /\ \A k \in Handlers \ {h} : handler'[k] = handler[k]
      BY <2>1, EveryoneMoves
    <3>2. handler'[h].pc \in Raising \cup Recorders => handler'[h].m.action = "RAISE"
      BY <3>1 DEF Moves, KindInv, Raising
    <3>3. handler'[h].pc \in {"clearDelay", "clearing"} => handler'[h].m.action = "CLEAR"
      BY <3>1 DEF Moves, KindInv
    <3> QED BY <3>1, <3>2, <3>3 DEF KindInv
  <2>2. CASE \/ \E h \in Handlers, m \in Requests : Submit(h, m)
             \/ Environment \/ Done \/ UNCHANGED vars
    <3>1. \A k \in Handlers : handler'[k] = handler[k] \/ handler'[k].pc = "waiting"
      BY <2>2, OutsideMoves
    <3> QED BY <3>1 DEF KindInv, Raising, Recorders, Threshold
  <2> QED BY <2>1, <2>2 DEF Next
<1> QED BY <1>1, <1>2, TypeCorrect, PTL DEF Spec

\* Who has something to record had it before, or has just raised it.
LEMMA RecordersMove ==
    ASSUME TypeOK, [Next]_vars, NEW k \in Handlers, handler'[k].pc \in Recorders
    PROVE  \/ handler[k].pc \in Recorders /\ handler'[k].m.id = handler[k].m.id
           \/ /\ Raise(k) \/ RaiseOverLimit(k)
              /\ handler'[k].m.id = uniqueAlarmId + 1 /\ uniqueAlarmId < uniqueAlarmId'
<1>1. ASSUME NEW h \in Handlers, Acquire(h) \/ Proceed(h), k # h
      PROVE  handler'[k] = handler[k]
  BY <1>1, EveryoneMoves
<1>2. CASE Acquire(k) \/ Proceed(k)
  BY <1>2, EveryoneMoves DEF Moves
<1>3. CASE \/ \E h \in Handlers, m \in Requests : Submit(h, m)
           \/ Environment \/ Done \/ UNCHANGED vars
  <2>1. handler'[k] = handler[k]
    BY <1>3, OutsideMoves DEF Recorders, Threshold
  <2> QED BY <2>1
<1> QED BY <1>1, <1>2, <1>3 DEF Next

-------------------------------------------------------------------------------
(* The history alarm that a goroutine generates without the mutex. *)

\* No step changes the id counter between the read and the write of the increment that
\* GenerateThresholdAlarm does without the mutex, and nobody inside the mutex does so
\* around the write.
IdUnraced ==
    \A h \in Handlers : handler[h].pc = "thresholdIdStore" =>
        handler[h].threshold.id = uniqueAlarmId /\ ~Overlapped

Unraced == TableUnraced /\ IdUnraced

\* It has its id and is not in the table yet.
Unstored == {"thresholdActive", "thresholdActiveStore"}

\* Who generates it has just given it its id, or had before.
LEMMA GeneratorsMove ==
    ASSUME TypeOK, [Next]_vars, NEW k \in Handlers, handler'[k].pc \in Generating
    PROVE  \/ StoreId(k)
           \/ /\ handler[k].pc \in Generating
              /\ handler'[k].threshold = handler[k].threshold
              /\ handler'[k].pc \in Unstored => handler[k].pc \in Unstored /\ ~StoreActive(k)
<1>1. CASE Acquire(k) \/ Proceed(k)
  <2>1. CASE StoreId(k)
    BY <2>1
  <2>2. CASE LoadActive(k)
    <3>1. handler[k].pc = "thresholdActive" /\ ~StoreActive(k)
      BY <2>2 DEF LoadActive, StoreActive, At
    <3>2. handler'[k].threshold = handler[k].threshold
      BY <2>2 DEF LoadActive, TypeOK, Local
    <3> QED BY <3>1, <3>2 DEF Generating, Unstored
  <2>3. CASE ~StoreId(k) /\ ~LoadActive(k)
    <3>1. /\ StoreActive(k) \/ LoadHistory(k)
          /\ handler[k].pc \in Generating
          /\ handler'[k].threshold = handler[k].threshold
      BY <1>1, <2>3, GeneratorMoves
    <3>2. handler'[k].pc \in {"thresholdHistory", "thresholdHistoryStore", "historyStore"}
      BY <3>1 DEF StoreActive, LoadHistory, Goto, TypeOK, Local
    <3> QED BY <3>1, <3>2 DEF Unstored
  <2> QED BY <2>1, <2>2, <2>3
<1>2. ASSUME NEW h \in Handlers, Acquire(h) \/ Proceed(h), k # h
      PROVE  handler'[k] = handler[k] /\ ~StoreActive(k)
  <2>1. handler'[k] = handler[k]
    BY <1>2, OthersUntouched
  <2>2. StoreActive(k) => handler[k].pc # handler'[k].pc
    BY DEF StoreActive, At, Goto, TypeOK, Local
  <2> QED BY <2>1, <2>2
<1>3. CASE \/ \E h \in Handlers, m \in Requests : Submit(h, m)
           \/ Environment \/ Done \/ UNCHANGED vars
  <2>1. handler'[k] = handler[k]
    BY <1>3, OutsideGenerates DEF Generating
  <2>2. StoreActive(k) => handler[k].pc # handler'[k].pc
    BY DEF StoreActive, At, Goto, TypeOK, Local
  <2> QED BY <2>1, <2>2
<1> QED BY <1>1, <1>2, <1>3 DEF Next

\* The id that it takes is a new one while nobody races for the counter.
LEMMA StoreIdIsNew ==
    ASSUME TypeOK, IdUnraced, NEW h \in Handlers, StoreId(h)
    PROVE  /\ uniqueAlarmId' = uniqueAlarmId + 1 /\ UNCHANGED activeAlarms
           /\ handler'[h].threshold.id = uniqueAlarmId + 1
           /\ Defined(HistoryProblem)
           /\ handler'[h].threshold.raiseDelay = definitions[HistoryProblem].raiseDelay
           /\ handler[h].pc = "thresholdIdStore" /\ handler'[h].pc = "thresholdActive"
           /\ \A k \in Handlers \ {h} : handler'[k] = handler[k]
<1>1. handler[h].threshold.id = uniqueAlarmId /\ ~Overlapped /\ handler[h].pc = "thresholdIdStore"
  BY DEF StoreId, At, IdUnraced
<1>2. uniqueAlarmId' = uniqueAlarmId + 1
  BY <1>1 DEF StoreId, RacyIncrement
<1>3. /\ handler'[h].threshold = ThresholdAlarm(HistoryProblem, uniqueAlarmId + 1)
      /\ handler'[h].pc = "thresholdActive"
  BY <1>1 DEF StoreId, TypeOK, Local
<1>4. UNCHANGED activeAlarms /\ Defined(HistoryProblem)
  BY DEF StoreId
<1>5. \A k \in Handlers \ {h} : handler'[k] = handler[k]
  BY OthersUntouched DEF Proceed
<1> QED BY <1>1, <1>2, <1>3, <1>4, <1>5 DEF ThresholdAlarm

-------------------------------------------------------------------------------
(* Ids. *)

\* The steps that change the table.
TableStep(h) ==
    \/ Replace(h) \/ Reveal(h) \/ Raise(h) \/ RaiseOverLimit(h)
    \/ Clear(h) \/ ClearOverLimit(h) \/ PanicClearing(h) \/ StoreActive(h)

\* The others leave it and the flag of its limit alone.
LEMMA OtherSteps ==
    ASSUME [Next]_vars, \A h \in Handlers : ~TableStep(h)
    PROVE  UNCHANGED <<activeAlarms, exceededActiveAlarmOn>>
<1> USE DEF table, flags
<1>1. ASSUME NEW h \in Handlers, NEW m \in Requests, Submit(h, m)
      PROVE  UNCHANGED <<activeAlarms, exceededActiveAlarmOn>>
  BY <1>1 DEF Submit
<1>2. CASE Environment \/ Done \/ UNCHANGED vars
  BY <1>2 DEF Environment, SetAlarmDefinition, DeleteAlarmDefinition, SetAlarmConfig,
     ConfigChangeCB, SetLimits, Done, vars
<1>3. ASSUME NEW h \in Handlers, Acquire(h)
      PROVE  UNCHANGED <<activeAlarms, exceededActiveAlarmOn>>
  BY <1>3 DEF Acquire, Suppress, AcceptRaise, AcceptClear, RaiseDelayOver, RaiseAbandoned,
     ClearDelayOver, ClearAbandoned
<1>4. ASSUME NEW h \in Handlers, Proceed(h)
      PROVE  UNCHANGED <<activeAlarms, exceededActiveAlarmOn>>
  <2>1. CASE \/ SuppressDuplicate(h) \/ PanicIndex(h) \/ PanicRaising(h)
             \/ PanicThreshold(h) \/ PanicPosting(h)
    BY <2>1 DEF SuppressDuplicate, PanicIndex, PanicRaising, PanicThreshold, PanicPosting
  <2>2. CASE CheckHistory(h) \/ LoadHistory(h) \/ StoreHistory(h) \/ Persist(h)
    BY <2>2 DEF CheckHistory, LoadHistory, StoreHistory, Persist
  <2>3. CASE Post(h) \/ ClearDone(h)
    BY <2>3 DEF Post, ClearDone
  <2>4. CASE LoadId(h) \/ StoreId(h) \/ LoadActive(h) \/ StoreThresholdHistory(h)
    BY <2>4 DEF LoadId, StoreId, LoadActive, StoreThresholdHistory
  <2> QED BY <1>4, <2>1, <2>2, <2>3, <2>4 DEF Proceed, TableStep
<1> QED BY <1>1, <1>2, <1>3, <1>4 DEF Next

\* The id counter goes back only where its increment is written without the mutex over
\* another one.
LEMMA CounterGrows ==
    ASSUME TypeOK, IdUnraced, [Next]_vars
    PROVE  uniqueAlarmId' \in Nat /\ uniqueAlarmId <= uniqueAlarmId'
<1> USE DEF table
<1>0. uniqueAlarmId \in Nat
  BY DEF TypeOK
<1> SUFFICES uniqueAlarmId' \in {uniqueAlarmId, uniqueAlarmId + 1, uniqueAlarmId + 2}
  BY <1>0
<1>1. ASSUME NEW h \in Handlers, NEW m \in Requests, Submit(h, m)
      PROVE  UNCHANGED uniqueAlarmId
  BY <1>1 DEF Submit
<1>2. CASE Environment \/ Done \/ UNCHANGED vars
  BY <1>2 DEF Environment, SetAlarmDefinition, DeleteAlarmDefinition, SetAlarmConfig,
     ConfigChangeCB, SetLimits, Done, vars
<1>3. ASSUME NEW h \in Handlers, Acquire(h) PROVE UNCHANGED uniqueAlarmId
  BY <1>3 DEF Acquire, Suppress, AcceptRaise, AcceptClear, RaiseDelayOver, RaiseAbandoned,
     ClearDelayOver, ClearAbandoned
<1>4. ASSUME NEW h \in Handlers, Proceed(h)
      PROVE  uniqueAlarmId' \in {uniqueAlarmId, uniqueAlarmId + 1, uniqueAlarmId + 2}
  <2>1. CASE StoreId(h)
    BY <2>1, StoreIdIsNew
  <2>2. CASE PanicThreshold(h)
    <3>1. /\ handler[h].threshold.id = uniqueAlarmId /\ ~Overlapped
          /\ uniqueAlarmId' \in RacyIncrement(handler[h].threshold.id)
      BY <2>2 DEF PanicThreshold, At, IdUnraced
    <3> QED BY <3>1 DEF RacyIncrement
  <2>3. CASE PanicRaising(h) \/ PanicClearing(h)
    BY <2>3 DEF PanicRaising, PanicClearing
  <2>4. CASE Raise(h) \/ RaiseOverLimit(h)
    BY <1>0, <2>4 DEF Raise, RaiseOverLimit
  <2>5. CASE Clear(h) \/ ClearOverLimit(h) \/ ClearDone(h)
    BY <2>5 DEF Clear, ClearOverLimit, ClearDone
  <2>6. CASE \/ CheckHistory(h) \/ LoadId(h) \/ LoadActive(h) \/ StoreActive(h)
             \/ LoadHistory(h)
    BY <2>6 DEF CheckHistory, LoadId, LoadActive, StoreActive, LoadHistory
  <2>7. CASE \/ StoreThresholdHistory(h) \/ StoreHistory(h) \/ Persist(h) \/ Post(h)
             \/ PanicPosting(h)
    BY <2>7 DEF StoreThresholdHistory, StoreHistory, Persist, Post, PanicPosting
  <2>8. CASE SuppressDuplicate(h) \/ Replace(h) \/ Reveal(h) \/ PanicIndex(h)
    BY <2>8 DEF SuppressDuplicate, Replace, Reveal, PanicIndex
  <2> QED BY <1>4, <2>1, <2>2, <2>3, <2>4, <2>5, <2>6, <2>7, <2>8 DEF Proceed
<1> QED BY <1>1, <1>2, <1>3, <1>4 DEF Next

\* The entries after a step: those of before, revealed or not, new ones, and a history
\* alarm that got its id before.
NewTable ==
    \A e \in Entries(activeAlarms') :
        \/ \E f \in Entries(activeAlarms) :
              f.id = e.id /\ (e.raiseDelay > 0 => f.raiseDelay > 0)
        \/ e.id > uniqueAlarmId
        \/ \E h \in Handlers : StoreActive(h) /\ e = handler[h].threshold

LEMMA StepNewTable ==
    ASSUME TypeOK, TableUnraced, [Next]_vars
    PROVE  NewTable
<1>0. /\ activeAlarms \in Seq(Notification) /\ uniqueAlarmId \in Nat
      /\ uniqueAlarmId + 1 \in Nat /\ uniqueAlarmId + 1 + 1 \in Nat
      /\ uniqueAlarmId + 1 > uniqueAlarmId /\ uniqueAlarmId + 1 + 1 > uniqueAlarmId
  BY DEF TypeOK
<1>1. ASSUME Entries(activeAlarms') \subseteq Entries(activeAlarms) PROVE NewTable
  BY <1>1 DEF NewTable
<1>2. ASSUME NEW h \in Handlers, Replace(h) \/ Clear(h) \/ PanicClearing(h)
      PROVE  NewTable
  <2>1. \/ UNCHANGED activeAlarms
        \/ \E i \in DOMAIN activeAlarms : activeAlarms' = RemoveAlarm(activeAlarms, i)
    BY <1>2 DEF Replace, HasMatched, Clear, PanicClearing, CanClear
  <2> QED BY <1>0, <1>1, <2>1, RemoveEntries
<1>3. ASSUME NEW h \in Handlers, Reveal(h) PROVE NewTable
  <2>1. \A k \in DOMAIN activeAlarms' :
           /\ k \in DOMAIN activeAlarms /\ activeAlarms'[k].id = activeAlarms[k].id
           /\ activeAlarms'[k].raiseDelay > 0 => activeAlarms[k].raiseDelay > 0
    BY <1>3, RevealedTable
  <2> QED BY <2>1 DEF NewTable, Entries
<1>4. ASSUME NEW h \in Handlers, Raise(h) \/ RaiseOverLimit(h) PROVE NewTable
  <2> DEFINE id == uniqueAlarmId + 1
             x  == [handler[h].m EXCEPT !.id = id]
             t  == ThresholdAlarm(ActiveProblem, id + 1)
  <2>1. x \in Notification /\ x.id = id
    <3>1. handler[h].m \in Notification
      BY DEF TypeOK, Local
    <3> QED BY <1>0, <3>1, NotificationUpdate DEF Notification
  <2>2. CASE Raise(h)
    <3>1. activeAlarms' = Append(activeAlarms, x)
      BY <2>2 DEF Raise
    <3> HIDE DEF x
    <3>2. Entries(activeAlarms') = Entries(activeAlarms) \cup {x}
      BY <1>0, <2>1, <3>1, AppendEntries
    <3> QED BY <1>0, <2>1, <3>2 DEF NewTable
  <2>3. CASE RaiseOverLimit(h)
    <3>1. t \in Notification /\ t.id = id + 1
      BY <1>0, <2>3, OwnAlarm DEF RaiseOverLimit
    <3>2. activeAlarms' = Append(Append(activeAlarms, t), x)
      BY <2>3 DEF RaiseOverLimit
    <3> HIDE DEF x, t
    <3>3. /\ Append(activeAlarms, t) \in Seq(Notification)
          /\ Entries(Append(activeAlarms, t)) = Entries(activeAlarms) \cup {t}
      BY <1>0, <3>1, AppendEntries
    <3>4. Entries(activeAlarms') = Entries(Append(activeAlarms, t)) \cup {x}
      BY <2>1, <3>2, <3>3, AppendEntries
    <3> QED BY <1>0, <2>1, <3>1, <3>3, <3>4 DEF NewTable
  <2> QED BY <1>4, <2>2, <2>3
<1>5. ASSUME NEW h \in Handlers, ClearOverLimit(h) PROVE NewTable
  <2> DEFINE t == ThresholdAlarm(HistoryProblem, uniqueAlarmId + 1)
             s == RemoveAlarm(activeAlarms, handler[h].idx)
  <2>1. t \in Notification /\ t.id = uniqueAlarmId + 1
    BY <1>0, <1>5, OwnAlarm DEF ClearOverLimit
  <2>2. /\ activeAlarms' = Append(s, t)
        /\ s \in Seq(Notification) /\ Entries(s) \subseteq Entries(activeAlarms)
    BY <1>0, <1>5, RemoveEntries DEF ClearOverLimit, CanClear
  <2> HIDE DEF s, t
  <2>3. Entries(activeAlarms') = Entries(s) \cup {t}
    BY <2>1, <2>2, AppendEntries
  <2> QED BY <1>0, <2>1, <2>2, <2>3 DEF NewTable
<1>6. ASSUME NEW h \in Handlers, StoreActive(h) PROVE NewTable
  <2>1. /\ handler[h].threshold \in Notification
        /\ activeAlarms' \in {activeAlarms, Append(activeAlarms, handler[h].threshold)}
    BY <1>6, StoreActiveAppends
  <2>2. Entries(activeAlarms') \subseteq Entries(activeAlarms) \cup {handler[h].threshold}
    BY <1>0, <2>1, AppendEntries
  <2> QED BY <1>6, <2>2 DEF NewTable
<1>7. CASE \A h \in Handlers : ~TableStep(h)
  BY <1>1, <1>7, OtherSteps
<1> QED BY <1>2, <1>3, <1>4, <1>5, <1>6, <1>7 DEF TableStep

\* Ids that goroutines hold were given out.
GivenOut ==
    \A h \in Handlers :
        /\ handler[h].pc \in Recorders => handler[h].m.id <= uniqueAlarmId
        /\ handler[h].pc \in Generating => handler[h].threshold.id <= uniqueAlarmId

\* Nobody else has the id of a history alarm that is on its way to the table.
Fresh ==
    \A h \in Handlers : handler[h].pc \in Unstored =>
        /\ \A e \in Entries(activeAlarms) : e.id # handler[h].threshold.id
        /\ \A k \in Handlers :
              /\ handler[k].pc \in Unstored /\ k # h
                    => handler[k].threshold.id # handler[h].threshold.id
              /\ handler[k].pc \in Recorders => handler[k].m.id # handler[h].threshold.id

\* The steps that change the table give each alarm an id of its own.
LEMMA TableStepKeepsIds ==
    ASSUME TypeOK, UniqueIds, GivenOut, Fresh, TableUnraced, NEW h \in Handlers, TableStep(h)
    PROVE  UniqueIds'
<1> DEFINE id == uniqueAlarmId + 1
           m == handler[h].m
           e == [m EXCEPT !.id = id]
<1>0. /\ id \in Nat /\ id + 1 \in Nat /\ uniqueAlarmId \in Nat
      /\ activeAlarms \in Seq(Notification)
      /\ DOMAIN activeAlarms = 1..Len(activeAlarms)
      /\ IdsBelow(activeAlarms, uniqueAlarmId)
  BY LenProperties DEF TypeOK, UniqueIds, IdsBelow
<1>10. e \in Notification /\ e.id = id
  <2>1. m \in Notification
    BY DEF TypeOK, Local
  <2> QED BY <1>0, <2>1, NotificationUpdate DEF Notification
<1>1. SUFFICES IdsBelow(activeAlarms', uniqueAlarmId')
  BY DEF UniqueIds, IdsBelow
<1>2. \A k \in DOMAIN activeAlarms :
         activeAlarms[k].id \in Nat /\ activeAlarms[k].id <= uniqueAlarmId
  <2> SUFFICES ASSUME NEW k \in DOMAIN activeAlarms
               PROVE  activeAlarms[k].id \in Nat /\ activeAlarms[k].id <= uniqueAlarmId
    OBVIOUS
  <2>1. activeAlarms[k] \in Notification
    BY <1>0, ElementOfSeq
  <2> QED BY <1>0, <2>1 DEF IdsBelow, Entries, Notification
<1>3. CASE Replace(h)
  BY <1>0, <1>3, RemoveKeepsIds DEF Replace, HasMatched
<1>4. CASE Reveal(h)
  <2>1. /\ DOMAIN activeAlarms' = DOMAIN activeAlarms
        /\ \A k \in DOMAIN activeAlarms : activeAlarms'[k].id = activeAlarms[k].id
    BY <1>4, RevealedTable
  <2>2. uniqueAlarmId' = uniqueAlarmId
    BY <1>4 DEF Reveal
  <2>3. \A x \in Entries(activeAlarms') : x.id <= uniqueAlarmId
    BY <1>2, <2>1 DEF Entries
  <2> QED BY <1>0, <2>1, <2>2, <2>3 DEF IdsBelow
<1>5. CASE Raise(h)
  <2>1. activeAlarms' = Append(activeAlarms, e) /\ uniqueAlarmId' = id
    BY <1>5 DEF Raise
  <2>2. \A k \in DOMAIN activeAlarms : activeAlarms[k].id # e.id
    BY <1>0, <1>2, <1>10
  <2>3. uniqueAlarmId <= id /\ e.id <= id
    BY <1>0, <1>10
  <2> HIDE DEF e
  <2> QED BY <1>0, <1>10, <2>1, <2>2, <2>3, AppendKeepsIds
<1>6. CASE RaiseOverLimit(h)
  <2> DEFINE t == ThresholdAlarm(ActiveProblem, id + 1)
             s == Append(activeAlarms, t)
  <2>1. t \in Notification /\ t.id = id + 1
    BY <1>0, <1>6, OwnAlarm DEF RaiseOverLimit
  <2>2. activeAlarms' = Append(s, e) /\ uniqueAlarmId' = id + 1
    BY <1>6 DEF RaiseOverLimit
  <2> HIDE DEF e, t
  <2>3. IdsBelow(s, id + 1)
    <3>1. uniqueAlarmId <= id + 1 /\ t.id <= id + 1
      BY <1>0, <2>1
    <3>2. \A k \in DOMAIN activeAlarms : activeAlarms[k].id # t.id
      BY <1>0, <1>2, <2>1
    <3> QED BY <1>0, <2>1, <3>1, <3>2, AppendKeepsIds
  <2>4. s \in Seq(Notification) /\ Entries(s) = Entries(activeAlarms) \cup {t}
    BY <1>0, <2>1, AppendEntries
  <2>5. \A k \in DOMAIN s : s[k].id # e.id
    <3> SUFFICES ASSUME NEW k \in DOMAIN s PROVE s[k].id # id
      BY <1>10
    <3>1. s[k] \in Entries(activeAlarms) \/ s[k] = t
      BY <2>4 DEF Entries
    <3> QED BY <1>0, <1>2, <2>1, <3>1 DEF Entries
  <2> HIDE DEF s
  <2>6. e.id <= id + 1 /\ id + 1 <= id + 1
    BY <1>0, <1>10
  <2> QED BY <1>0, <1>10, <2>2, <2>3, <2>4, <2>5, <2>6, AppendKeepsIds
<1>7. CASE Clear(h)
  BY <1>0, <1>7, RemoveKeepsIds DEF Clear, CanClear
<1>8. CASE ClearOverLimit(h)
  <2> DEFINE t == ThresholdAlarm(HistoryProblem, id)
             s == RemoveAlarm(activeAlarms, handler[h].idx)
  <2>1. t \in Notification /\ t.id = id
    BY <1>0, <1>8, OwnAlarm DEF ClearOverLimit
  <2>2. /\ activeAlarms' = Append(s, t) /\ uniqueAlarmId' = id
        /\ handler[h].idx \in DOMAIN activeAlarms
    BY <1>8 DEF ClearOverLimit, CanClear
  <2>3. s \in Seq(Notification) /\ IdsBelow(s, uniqueAlarmId)
    BY <1>0, <2>2, RemoveKeepsIds, RemoveEntries
  <2> HIDE DEF s, t
  <2>4. \A k \in DOMAIN s : s[k].id # t.id
    <3> SUFFICES ASSUME NEW k \in DOMAIN s PROVE s[k].id # id
      BY <2>1
    <3>1. DOMAIN s = 1..Len(s)
      BY <2>3, LenProperties
    <3>2. s[k] \in Notification /\ s[k].id <= uniqueAlarmId
      BY <2>3, <3>1, ElementOfSeq DEF IdsBelow, Entries
    <3> QED BY <1>0, <3>2 DEF Notification
  <2>5. uniqueAlarmId <= id /\ t.id <= id
    BY <1>0, <2>1
  <2> QED BY <1>0, <2>1, <2>2, <2>3, <2>4, <2>5, AppendKeepsIds
<1>9. CASE PanicClearing(h)
  <2>1. CASE UNCHANGED <<activeAlarms, uniqueAlarmId>>
    BY <1>0, <2>1
  <2>2. CASE /\ handler[h].idx \in DOMAIN activeAlarms
             /\ activeAlarms' = RemoveAlarm(activeAlarms, handler[h].idx)
             /\ uniqueAlarmId' = id
    <3>1. IdsBelow(activeAlarms', uniqueAlarmId)
      BY <1>0, <2>2, RemoveKeepsIds
    <3>2. \A x \in Entries(activeAlarms') : x.id \in Nat
      <4>1. Entries(activeAlarms') \subseteq Entries(activeAlarms)
        BY <1>0, <2>2, RemoveEntries
      <4> QED BY <1>2, <4>1 DEF Entries
    <3> QED BY <1>0, <2>2, <3>1, <3>2 DEF IdsBelow
  <2> QED BY <1>9, <2>1, <2>2 DEF PanicClearing, CanClear
<1>11. CASE StoreActive(h)
  <2> DEFINE t == handler[h].threshold
  <2>1. /\ t \in Notification /\ handler[h].pc \in Unstored \cap Generating
        /\ activeAlarms' \in {activeAlarms, Append(activeAlarms, t)}
        /\ uniqueAlarmId' = uniqueAlarmId
    BY <1>11, StoreActiveAppends DEF StoreActive, Unstored, Generating
  <2>2. t.id <= uniqueAlarmId /\ \A k \in DOMAIN activeAlarms : activeAlarms[k].id # t.id
    BY <2>1 DEF GivenOut, Fresh, Entries
  <2>3. uniqueAlarmId <= uniqueAlarmId
    BY <1>0
  <2> HIDE DEF t
  <2> QED BY <1>0, <2>1, <2>2, <2>3, AppendKeepsIds
<1> QED BY <1>3, <1>4, <1>5, <1>6, <1>7, <1>8, <1>9, <1>11 DEF TableStep

LEMMA StepKeepsUniqueIds ==
    ASSUME TypeOK, Unraced, UniqueIds, GivenOut, Fresh, [Next]_vars
    PROVE  UniqueIds'
<1>1. CASE \E h \in Handlers : TableStep(h)
  BY <1>1, TableStepKeepsIds DEF Unraced
<1>2. CASE ~\E h \in Handlers : TableStep(h)
  <2>1. UNCHANGED activeAlarms /\ uniqueAlarmId' \in Nat /\ uniqueAlarmId <= uniqueAlarmId'
    BY <1>2, OtherSteps, CounterGrows DEF Unraced
  <2>2. \A e \in Entries(activeAlarms) : e.id \in Nat
    BY EntriesTyped DEF Notification
  <2> QED BY <2>1, <2>2 DEF UniqueIds, TypeOK, Entries
<1> QED BY <1>1, <1>2

LEMMA StepGivesOut ==
    ASSUME TypeOK, Unraced, GivenOut, [Next]_vars
    PROVE  GivenOut'
<1>1. uniqueAlarmId \in Nat /\ uniqueAlarmId' \in Nat /\ uniqueAlarmId <= uniqueAlarmId'
  BY CounterGrows DEF Unraced, TypeOK
<1>2. \A h \in Handlers : handler[h].m.id \in Nat /\ handler[h].threshold.id \in Nat
  BY DEF TypeOK, Local, Notification
<1>3. ASSUME NEW k \in Handlers, handler'[k].pc \in Recorders
      PROVE  handler'[k].m.id <= uniqueAlarmId'
  <2>1. CASE handler[k].pc \in Recorders /\ handler'[k].m.id = handler[k].m.id
    BY <1>1, <1>2, <2>1 DEF GivenOut
  <2>2. CASE handler'[k].m.id = uniqueAlarmId + 1 /\ uniqueAlarmId < uniqueAlarmId'
    BY <1>1, <2>2
  <2> QED BY <1>3, <2>1, <2>2, RecordersMove
<1>4. ASSUME NEW k \in Handlers, handler'[k].pc \in Generating
      PROVE  handler'[k].threshold.id <= uniqueAlarmId'
  <2>1. CASE StoreId(k)
    BY <1>1, <2>1, StoreIdIsNew DEF Unraced
  <2>2. CASE handler[k].pc \in Generating /\ handler'[k].threshold = handler[k].threshold
    BY <1>1, <1>2, <2>2 DEF GivenOut
  <2> QED BY <1>4, <2>1, <2>2, GeneratorsMove
<1> QED BY <1>3, <1>4 DEF GivenOut

LEMMA StepKeepsFresh ==
    ASSUME TypeOK, Unraced, UniqueIds, GivenOut, Fresh, [Next]_vars
    PROVE  Fresh'
<1>1. /\ uniqueAlarmId \in Nat
      /\ \A h \in Handlers : handler[h].m.id \in Nat /\ handler[h].threshold.id \in Nat
      /\ \A e \in Entries(activeAlarms) : e.id \in Nat /\ e.id <= uniqueAlarmId
  BY EntriesTyped DEF UniqueIds, TypeOK, Local, Notification
<1>2. Unstored \subseteq Generating /\ Generating \subseteq Recorders
  BY DEF Unstored, Generating, Recorders, Threshold
<1>3. ASSUME NEW k \in Handlers, handler'[k].pc \in Unstored
      PROVE  \/ /\ handler[k].pc \in Unstored /\ ~StoreActive(k)
                /\ handler'[k].threshold = handler[k].threshold
             \/ StoreId(k) /\ handler'[k].threshold.id = uniqueAlarmId + 1
  <2>1. CASE StoreId(k)
    BY <2>1, StoreIdIsNew DEF Unraced
  <2> QED BY <1>2, <1>3, <2>1, GeneratorsMove
<1>4. ASSUME NEW k \in Handlers, handler'[k].pc \in Recorders
      PROVE  \/ handler[k].pc \in Recorders /\ handler'[k].m.id = handler[k].m.id
             \/ (Raise(k) \/ RaiseOverLimit(k)) /\ handler'[k].m.id = uniqueAlarmId + 1
  BY <1>4, RecordersMove
<1>5. ASSUME NEW h \in Handlers, NEW k \in Handlers, StoreId(h),
             StoreId(k) \/ Raise(k) \/ RaiseOverLimit(k)
      PROVE  k = h /\ StoreId(k)
  <2>1. handler[h].pc # handler'[h].pc
    BY <1>5, StoreIdIsNew DEF Unraced
  <2>2. k # h => handler'[h] = handler[h]
    BY <1>5, OthersUntouched DEF Proceed
  <2> QED BY <1>5, <2>1, <2>2 DEF StoreId, Raise, RaiseOverLimit, At
<1>6. ASSUME NEW h \in Handlers, StoreId(h), handler'[h].threshold.id = uniqueAlarmId + 1
      PROVE  /\ \A e \in Entries(activeAlarms') : e.id # handler'[h].threshold.id
             /\ \A k \in Handlers :
                   /\ handler'[k].pc \in Unstored /\ k # h
                         => handler'[k].threshold.id # handler'[h].threshold.id
                   /\ handler'[k].pc \in Recorders
                         => handler'[k].m.id # handler'[h].threshold.id
  <2>1. UNCHANGED activeAlarms
    BY <1>6 DEF StoreId
  <2>2. ASSUME NEW k \in Handlers, handler'[k].pc \in Unstored, k # h
        PROVE  handler'[k].threshold.id # handler'[h].threshold.id
    <3>1. /\ handler[k].pc \in Generating /\ handler'[k].threshold = handler[k].threshold
      BY <1>2, <1>3, <1>5, <1>6, <2>2
    <3> QED BY <1>1, <1>6, <3>1 DEF GivenOut
  <2>3. ASSUME NEW k \in Handlers, handler'[k].pc \in Recorders
        PROVE  handler'[k].m.id # handler'[h].threshold.id
    <3>1. handler[k].pc \in Recorders /\ handler'[k].m.id = handler[k].m.id
      <4>1. ~Raise(k) /\ ~RaiseOverLimit(k)
        <5>1. Raise(k) \/ RaiseOverLimit(k) => ~StoreId(k)
          BY DEF Raise, RaiseOverLimit, StoreId, At
        <5> QED BY <1>5, <1>6, <5>1
      <4> QED BY <1>4, <2>3, <4>1
    <3> QED BY <1>1, <1>6, <3>1 DEF GivenOut
  <2> QED BY <1>1, <1>6, <2>1, <2>2, <2>3
<1>7. ASSUME NEW h \in Handlers, handler[h].pc \in Unstored, ~StoreActive(h),
             handler'[h].threshold = handler[h].threshold
      PROVE  /\ \A e \in Entries(activeAlarms') : e.id # handler'[h].threshold.id
             /\ \A k \in Handlers :
                   /\ handler'[k].pc \in Unstored /\ k # h
                         => handler'[k].threshold.id # handler'[h].threshold.id
                   /\ handler'[k].pc \in Recorders
                         => handler'[k].m.id # handler'[h].threshold.id
  <2>0. handler[h].threshold.id \in Nat /\ handler[h].threshold.id <= uniqueAlarmId
    BY <1>1, <1>2, <1>7 DEF GivenOut
  <2>1. ASSUME NEW e \in Entries(activeAlarms') PROVE e.id # handler[h].threshold.id
    <3>1. CASE \E f \in Entries(activeAlarms) : f.id = e.id
      BY <1>7, <3>1 DEF Fresh
    <3>2. CASE e.id > uniqueAlarmId
      BY <1>1, <2>0, <3>2
    <3>3. ASSUME NEW k \in Handlers, StoreActive(k), e = handler[k].threshold
          PROVE  e.id # handler[h].threshold.id
      BY <1>7, <3>3 DEF Fresh, StoreActive, At, Unstored
    <3>4. NewTable
      BY StepNewTable DEF Unraced
    <3> QED BY <3>1, <3>2, <3>3, <3>4 DEF NewTable
  <2>2. ASSUME NEW k \in Handlers, handler'[k].pc \in Unstored, k # h
        PROVE  handler'[k].threshold.id # handler[h].threshold.id
    <3>1. CASE handler[k].pc \in Unstored /\ handler'[k].threshold = handler[k].threshold
      BY <1>7, <2>2, <3>1 DEF Fresh
    <3>2. CASE handler'[k].threshold.id = uniqueAlarmId + 1
      BY <1>1, <2>0, <3>2
    <3> QED BY <1>3, <2>2, <3>1, <3>2
  <2>3. ASSUME NEW k \in Handlers, handler'[k].pc \in Recorders
        PROVE  handler'[k].m.id # handler[h].threshold.id
    <3>1. CASE handler[k].pc \in Recorders /\ handler'[k].m.id = handler[k].m.id
      BY <1>7, <3>1 DEF Fresh
    <3>2. CASE handler'[k].m.id = uniqueAlarmId + 1
      BY <1>1, <2>0, <3>2
    <3> QED BY <1>4, <2>3, <3>1, <3>2
  <2> QED BY <1>7, <2>1, <2>2, <2>3
<1> QED BY <1>3, <1>6, <1>7 DEF Fresh

\* The strengthened invariant.
IdInv == UniqueIds /\ GivenOut /\ Fresh

LEMMA IdInvariant == Spec /\ []Unraced => []IdInv
<1>1. Init => IdInv
  BY EmptySeq DEF Init, IdInv, UniqueIds, GivenOut, Fresh, Entries, Idle, Recorders,
     Threshold, Generating, Unstored
<1>2. TypeOK /\ Unraced /\ IdInv /\ [Next]_vars => IdInv'
  BY StepKeepsUniqueIds, StepGivesOut, StepKeepsFresh DEF IdInv
<1> QED BY <1>1, <1>2, TypeCorrect, PTL DEF Spec

\* No two active alarms have one id, and none has an id above the last one given out,
\* also when the history alarm takes its id without the mutex, as long as no step comes
\* between the reads and the writes of the counter and of the table.
THEOREM IdsWhileUnraced == Spec /\ []Unraced => []UniqueIds
<1>1. IdInv => UniqueIds
  BY DEF IdInv
<1> QED BY <1>1, IdInvariant, PTL

-------------------------------------------------------------------------------
(* The flag of the active-alarm limit. *)

\* No goroutine has panicked: a panic inside a clear removes the alarm and dies before
\* the flag is reset.
Healthy == ~crashed /\ \A h \in Handlers : handler[h].pc # "stuck"

ActiveLimitAlarm(e) == e.object = ManagerObject /\ e.problem = ActiveProblem

\* The steps that change the table keep the limit's alarm as long as its flag is up.
LEMMA TableStepKeepsFlag ==
    ASSUME TypeOK, LockDiscipline, IndexTargetsOwnAlarm, ClientsRaiseOwn, TableUnraced,
           Healthy', FlagImpliesAlarm, NEW h \in Handlers, TableStep(h)
    PROVE  FlagImpliesAlarm'
<1> DEFINE id == uniqueAlarmId + 1
           m == handler[h].m
           e == [m EXCEPT !.id = id]
<1>0. /\ id \in Nat /\ id + 1 \in Nat /\ activeAlarms \in Seq(Notification)
      /\ DOMAIN activeAlarms = 1..Len(activeAlarms)
      /\ m \in Notification /\ e \in Notification
  <2>1. m \in Notification /\ id \in Nat /\ id + 1 \in Nat
    BY DEF TypeOK, Local
  <2>2. e \in Notification
    BY <2>1, NotificationUpdate
  <2> QED BY <2>1, <2>2, LenProperties DEF TypeOK
<1>1. SUFFICES ASSUME exceededActiveAlarmOn'
               PROVE  \E x \in Entries(activeAlarms') : ActiveLimitAlarm(x)
  BY DEF FlagImpliesAlarm, ActiveLimitAlarm
<1>2. exceededActiveAlarmOn =>
         \E k \in DOMAIN activeAlarms : ActiveLimitAlarm(activeAlarms[k])
  BY DEF FlagImpliesAlarm, Entries, ActiveLimitAlarm
<1> HIDE DEF e
<1>3. CASE Replace(h)
  <2> DEFINE i == handler[h].idx
  <2>1. PICK k \in DOMAIN activeAlarms : ActiveLimitAlarm(activeAlarms[k])
    BY <1>1, <1>2, <1>3 DEF Replace, flags
  <2>2. /\ i \in DOMAIN activeAlarms /\ activeAlarms' = RemoveAlarm(activeAlarms, i)
        /\ SameAlarm(activeAlarms[i], m) /\ m.object # ManagerObject
    BY <1>3 DEF Replace, HasMatched, At, IndexTargetsOwnAlarm, ClientsRaiseOwn
  <2>3. k # i
    BY <2>1, <2>2 DEF ActiveLimitAlarm, SameAlarm
  <2> QED BY <1>0, <2>1, <2>2, <2>3, RemoveEntries
<1>4. CASE Reveal(h)
  <2>1. PICK k \in DOMAIN activeAlarms : ActiveLimitAlarm(activeAlarms[k])
    BY <1>1, <1>2, <1>4 DEF Reveal, flags
  <2>2. k \in DOMAIN activeAlarms' /\ ActiveLimitAlarm(activeAlarms'[k])
    BY <1>4, <2>1, RevealedTable DEF ActiveLimitAlarm, SameAlarm
  <2> QED BY <2>2 DEF Entries
<1>5. CASE Raise(h)
  <2>1. PICK k \in DOMAIN activeAlarms : ActiveLimitAlarm(activeAlarms[k])
    BY <1>1, <1>2, <1>5 DEF Raise, flags
  <2>2. activeAlarms' = Append(activeAlarms, e)
    BY <1>5 DEF Raise, e
  <2> QED BY <1>0, <2>1, <2>2, AppendEntries DEF Entries
<1>6. CASE RaiseOverLimit(h)
  <2> DEFINE t == ThresholdAlarm(ActiveProblem, id + 1)
  <2>1. t \in Notification /\ ActiveLimitAlarm(t)
    BY <1>0, <1>6, OwnAlarm DEF RaiseOverLimit, ActiveLimitAlarm
  <2>2. activeAlarms' = Append(Append(activeAlarms, t), e)
    BY <1>6 DEF RaiseOverLimit, e
  <2> HIDE DEF t
  <2>3. /\ Append(activeAlarms, t) \in Seq(Notification)
        /\ t \in Entries(Append(activeAlarms, t))
    BY <1>0, <2>1, AppendEntries
  <2> QED BY <1>0, <2>1, <2>2, <2>3, AppendEntries
<1>7. ASSUME At(h, "clearing"), CanClear(h), ResetFlags(h)
      PROVE  /\ RemoveAlarm(activeAlarms, handler[h].idx) \in Seq(Notification)
             /\ \E x \in Entries(RemoveAlarm(activeAlarms, handler[h].idx)) :
                   ActiveLimitAlarm(x)
  <2>1. exceededActiveAlarmOn /\ m.problem # ActiveProblem
    BY <1>1, <1>7 DEF ResetFlags
  <2>2. PICK k \in DOMAIN activeAlarms : ActiveLimitAlarm(activeAlarms[k])
    BY <1>2, <2>1
  <2>3. /\ handler[h].idx \in DOMAIN activeAlarms
        /\ SameAlarm(activeAlarms[handler[h].idx], m)
    BY <1>7 DEF At, IndexTargetsOwnAlarm
  <2>4. k # handler[h].idx
    BY <2>1, <2>2, <2>3 DEF ActiveLimitAlarm, SameAlarm
  <2> QED BY <1>0, <2>2, <2>3, <2>4, RemoveEntries
<1>8. CASE Clear(h)
  BY <1>7, <1>8 DEF Clear
<1>9. CASE ClearOverLimit(h)
  <2> DEFINE t == ThresholdAlarm(HistoryProblem, id)
             s == RemoveAlarm(activeAlarms, handler[h].idx)
  <2>1. t \in Notification /\ activeAlarms' = Append(s, t)
    BY <1>0, <1>9, OwnAlarm DEF ClearOverLimit
  <2>2. s \in Seq(Notification) /\ \E x \in Entries(s) : ActiveLimitAlarm(x)
    BY <1>7, <1>9 DEF ClearOverLimit
  <2> HIDE DEF s, t
  <2> QED BY <2>1, <2>2, AppendEntries
<1>10. CASE PanicClearing(h)
  <2>1. Panic(h) /\ mutex = h
    BY <1>10 DEF PanicClearing, At, LockDiscipline, Critical
  <2>2. handler'[h].pc = "stuck"
    BY <2>1 DEF Panic, TypeOK
  <2> QED BY <2>2 DEF Healthy
<1>11. CASE StoreActive(h)
  <2>1. PICK k \in DOMAIN activeAlarms : ActiveLimitAlarm(activeAlarms[k])
    BY <1>1, <1>2, <1>11 DEF StoreActive, flags
  <2>2. /\ handler[h].threshold \in Notification
        /\ activeAlarms' \in {activeAlarms, Append(activeAlarms, handler[h].threshold)}
    BY <1>11, StoreActiveAppends
  <2>3. activeAlarms[k] \in Entries(activeAlarms')
    BY <1>0, <2>2, AppendEntries DEF Entries
  <2> QED BY <2>1, <2>3
<1> QED BY <1>3, <1>4, <1>5, <1>6, <1>8, <1>9, <1>10, <1>11 DEF TableStep

\* While the flag suppresses a new "active alarms exceeded" alarm, the one that put it
\* up is active, whatever is raised, replaced and cleared meanwhile by message or after
\* a delay, as long as no goroutine panics and no step comes between the two halves of
\* the append of the history alarm.
THEOREM FlagWhileHealthy == Spec /\ [](TableUnraced /\ Healthy) => []FlagImpliesAlarm
<1>1. Init => FlagImpliesAlarm
  BY DEF Init, FlagImpliesAlarm
<1>2. TypeOK /\ LockDiscipline /\ IdentityInv /\ TableUnraced /\ Healthy'
         /\ FlagImpliesAlarm /\ [Next]_vars => FlagImpliesAlarm'
  <2> SUFFICES ASSUME TypeOK, LockDiscipline, IdentityInv, TableUnraced, Healthy',
                      FlagImpliesAlarm, [Next]_vars
               PROVE  FlagImpliesAlarm'
    OBVIOUS
  <2>1. CASE \E h \in Handlers : TableStep(h)
    BY <2>1, TableStepKeepsFlag DEF IdentityInv
  <2>2. CASE ~\E h \in Handlers : TableStep(h)
    BY <2>2, OtherSteps DEF FlagImpliesAlarm
  <2> QED BY <2>1, <2>2
<1>3. Spec /\ []TableUnraced => []IdentityInv
  BY IdentityInvariant
<1> QED BY <1>1, <1>2, <1>3, TypeCorrect, MutualExclusion, PTL DEF Spec

-------------------------------------------------------------------------------
(* Raise delays. *)

\* Asleep in the raise delay, or about to reveal the alarm.
Delaying == {"raiseDelay", "revealing"}

\* A goroutine waits for the raise delay of its own alarm only: an entry with its id has
\* its identity.
PendingInv ==
    /\ PendingHasRaiser
    /\ \A h \in Handlers : handler[h].pc \in Delaying =>
          /\ handler[h].m.object # ManagerObject
          /\ \A e \in Entries(activeAlarms) :
                e.id = handler[h].m.id => SameAlarm(e, handler[h].m)

\* The history alarm on its way to the table has none then.
GeneratesUndelayed ==
    \A h \in Handlers : handler[h].pc \in Unstored => handler[h].threshold.raiseDelay = 0

LEMMA DelaysInvariant == Spec /\ [](Unraced /\ OwnUndelayed) => []GeneratesUndelayed
<1>1. Init => GeneratesUndelayed
  BY DEF Init, GeneratesUndelayed, Idle, Unstored
<1>2. TypeOK /\ Unraced /\ OwnUndelayed /\ GeneratesUndelayed /\ [Next]_vars
         => GeneratesUndelayed'
  <2> SUFFICES ASSUME TypeOK, Unraced, OwnUndelayed, GeneratesUndelayed, [Next]_vars,
                      NEW k \in Handlers, handler'[k].pc \in Unstored
               PROVE  handler'[k].threshold.raiseDelay = 0
    BY DEF GeneratesUndelayed
  <2>1. CASE StoreId(k)
    BY <2>1, StoreIdIsNew DEF Unraced, OwnUndelayed
  <2>2. CASE handler[k].pc \in Unstored /\ handler'[k].threshold = handler[k].threshold
    BY <2>2 DEF GeneratesUndelayed
  <2>3. handler'[k].pc \in Generating
    BY DEF Unstored, Generating
  <2> QED BY <2>1, <2>2, <2>3, GeneratorsMove
<1> QED BY <1>1, <1>2, TypeCorrect, PTL DEF Spec

\* No goroutine begins or ends the wait for a raise delay.
SameDelays ==
    \A k \in Handlers :
        /\ handler'[k].pc \in Delaying <=> handler[k].pc \in Delaying
        /\ handler[k].pc \in Delaying => handler'[k].m = handler[k].m

\* Four steps begin or end one.
DelayStep(h) == Raise(h) \/ RaiseOverLimit(h) \/ Reveal(h) \/ RaiseAbandoned(h)

\* The others do not.
LEMMA OthersSameDelays ==
    ASSUME TypeOK, IndexTargetsOwnAlarm, [Next]_vars, \A h \in Handlers : ~DelayStep(h)
    PROVE  SameDelays
<1> USE DEF TypeOK, Local, At, Delaying
<1>0. DataOK
  BY TypeSplit
<1>1. ASSUME NEW h \in Handlers, \A k \in Handlers \ {h} : handler'[k] = handler[k],
             handler[h].pc \notin Delaying, handler'[h].pc \notin Delaying
      PROVE  SameDelays
  BY <1>1 DEF SameDelays
<1>2. ASSUME NEW h \in Handlers, NEW m \in Requests, Submit(h, m) PROVE SameDelays
  <2>1. /\ \A k \in Handlers \ {h} : handler'[k] = handler[k]
        /\ handler[h].pc = "idle" /\ handler'[h].pc = "waiting"
    BY <1>2 DEF Submit, Idle
  <2> QED BY <1>1, <2>1
<1>3. CASE Environment \/ Done \/ UNCHANGED vars
  <2>1. UNCHANGED handler
    BY <1>3 DEF Environment, SetAlarmDefinition, DeleteAlarmDefinition, SetAlarmConfig,
       ConfigChangeCB, SetLimits, Done, vars
  <2> QED BY <2>1 DEF SameDelays
<1>4. ASSUME NEW h \in Handlers, Acquire(h) \/ Proceed(h) PROVE SameDelays
  <2>1. \A k \in Handlers \ {h} : handler'[k] = handler[k]
    BY <1>4, OthersUntouched
  <2>3. Panic(h) => handler'[h].pc \notin Delaying
    BY DEF Panic, Idle
  <2>4. \A label \in PCs : Goto(h, label) => handler'[h].pc = label
    BY DEF Goto
  <2>5. Return(h) => handler'[h].pc \notin Delaying
    BY DEF Return, Idle
  <2>6. CASE \/ Suppress(h) \/ ClearAbandoned(h) \/ Post(h) \/ ClearDone(h)
             \/ SuppressDuplicate(h)
    <3>1. Return(h) /\ handler[h].pc \notin Delaying
      BY <2>6 DEF Suppress, ClearAbandoned, Post, ClearDone, SuppressDuplicate, HasMatched
    <3> QED BY <2>1, <2>5, <3>1, <1>1
  <2>7. CASE \/ PanicIndex(h) \/ PanicRaising(h) \/ PanicThreshold(h) \/ PanicPosting(h)
             \/ PanicClearing(h)
    <3>1. Panic(h) /\ handler[h].pc \notin Delaying
      BY <2>7 DEF PanicIndex, IndexTargetsOwnAlarm, PanicRaising, PanicThreshold,
         PanicPosting, PanicClearing
    <3> QED BY <2>1, <2>3, <3>1, <1>1
  <2>8. CASE \/ CheckHistory(h) \/ StoreActive(h) \/ StoreThresholdHistory(h)
             \/ Persist(h) \/ Clear(h) \/ ClearOverLimit(h) \/ Replace(h)
    <3>0. handler[h].pc \notin Delaying
      BY <2>8 DEF CheckHistory, StoreActive, StoreThresholdHistory, Persist, Clear,
         ClearOverLimit, Replace, HasMatched
    <3>1. PICK label \in {"thresholdId", "historyLoad", "thresholdHistory", "post",
                          "clearPersist", "raising"} : Goto(h, label)
      BY <2>8 DEF CheckHistory, StoreActive, StoreThresholdHistory, Persist, Clear,
         ClearOverLimit, Replace
    <3>2. label \in PCs
      BY DEF PCs, Critical, Unlocked, Threshold
    <3>3. handler'[h].pc \notin Delaying
      BY <2>4, <3>1, <3>2
    <3> QED BY <2>1, <3>0, <3>3, <1>1
  <2>9. CASE AcceptRaise(h) \/ AcceptClear(h) \/ ClearDelayOver(h)
    <3>1. CASE AcceptRaise(h)
      <4>1. handler[h].pc = "waiting" /\ handler'[h].pc \in {"raising", "matched"}
        BY <1>0, <3>1, AcceptRaiseMoves
      <4> QED BY <2>1, <4>1, <1>1
    <3>2. CASE AcceptClear(h) \/ ClearDelayOver(h)
      <4>1. /\ handler[h].pc \in {"waiting", "clearDelay"}
            /\ handler'[h].pc \in {"clearDelay", "clearing"}
        BY <3>2 DEF AcceptClear, ClearDelayOver
      <4> QED BY <2>1, <4>1, <1>1
    <3> QED BY <2>9, <3>1, <3>2
  <2>10. CASE LoadId(h) \/ StoreId(h) \/ LoadActive(h) \/ LoadHistory(h) \/ StoreHistory(h)
    <3>1. handler'[h].pc \notin Delaying
      <4>1. CASE LoadId(h) \/ StoreId(h) \/ LoadActive(h)
        BY <4>1 DEF LoadId, StoreId, LoadActive
      <4>2. CASE LoadHistory(h)
        BY <4>2 DEF LoadHistory
      <4>3. CASE StoreHistory(h)
        BY <4>3 DEF StoreHistory, Idle
      <4> QED BY <2>10, <4>1, <4>2, <4>3
    <3>2. handler[h].pc \notin Delaying
      BY <2>10 DEF LoadId, StoreId, LoadActive, LoadHistory, StoreHistory
    <3> QED BY <2>1, <3>1, <3>2, <1>1
  <2>11. CASE RaiseDelayOver(h)
    <3>1. /\ handler[h].pc = "raiseDelay" /\ handler'[h].pc = "revealing"
          /\ handler'[h].m = handler[h].m
      BY <1>0, <2>11, RaiseDelayOverMoves
    <3> QED BY <2>1, <3>1 DEF SameDelays
  <2> QED BY <1>4, <2>6, <2>7, <2>8, <2>9, <2>10, <2>11 DEF Acquire, Proceed, DelayStep
<1> QED BY <1>2, <1>3, <1>4 DEF Next

\* What is left of the table, beside alarms that are new and not delayed, is as pending
\* as it was.
LEMMA SameDelaysKeep ==
    ASSUME PendingInv, SameDelays,
           \A e \in Entries(activeAlarms') :
              \/ e \in Entries(activeAlarms)
              \/ /\ e.raiseDelay = 0
                 /\ \A h \in Handlers :
                       handler[h].pc \in Delaying => handler[h].m.id # e.id
    PROVE  PendingInv'
<1>1. PendingHasRaiser'
  <2> SUFFICES ASSUME NEW e \in Entries(activeAlarms'), e.raiseDelay > 0
               PROVE  \E h \in Handlers : handler'[h].pc \in Delaying
                                            /\ handler'[h].m.id = e.id
    BY DEF PendingHasRaiser, Delaying
  <2>1. e \in Entries(activeAlarms)
    OBVIOUS
  <2> QED BY <2>1 DEF PendingInv, PendingHasRaiser, SameDelays, Delaying
<1>2. ASSUME NEW h \in Handlers, handler'[h].pc \in Delaying
      PROVE  /\ handler'[h].m.object # ManagerObject
             /\ \A e \in Entries(activeAlarms') :
                   e.id = handler'[h].m.id => SameAlarm(e, handler'[h].m)
  <2>1. handler[h].pc \in Delaying /\ handler'[h].m = handler[h].m
    BY <1>2 DEF SameDelays
  <2> QED BY <2>1 DEF PendingInv
<1> QED BY <1>1, <1>2 DEF PendingInv

\* A raise stores its alarm, the limit's alarm beside it, and waits for its delay.
LEMMA RaiseKeepsPending ==
    ASSUME TypeOK, PendingInv, UniqueIds, GivenOut, RaiseUnmatched, OwnUndelayed,
           NEW h \in Handlers, Raise(h) \/ RaiseOverLimit(h)
    PROVE  PendingInv'
<1> DEFINE id == uniqueAlarmId + 1
           m == handler[h].m
           e == [m EXCEPT !.id = id]
<1>0. /\ uniqueAlarmId \in Nat /\ id \in Nat /\ id + 1 \in Nat
      /\ activeAlarms \in Seq(Notification)
      /\ m \in Notification /\ e \in Notification /\ m.raiseDelay \in Nat
      /\ e.id = id /\ e.raiseDelay = m.raiseDelay /\ SameAlarm(e, e)
      /\ Entries(activeAlarms) \subseteq Notification
  <2>1. m \in Notification /\ uniqueAlarmId \in Nat /\ id \in Nat /\ id + 1 \in Nat
    BY DEF TypeOK, Local
  <2>2. e \in Notification
    BY <2>1, NotificationUpdate
  <2>3. m.raiseDelay \in Nat /\ e.id = id /\ e.raiseDelay = m.raiseDelay
    BY <2>1 DEF Notification
  <2> QED BY <2>1, <2>2, <2>3, EntriesTyped DEF TypeOK, SameAlarm
<1>1. \A k \in Handlers \ {h} : handler'[k] = handler[k]
  BY OthersUntouched DEF Proceed
<1>2. /\ handler[h].pc = "raising" /\ AfterRaising(h, id) /\ uniqueAlarmId' \in {id, id + 1}
      /\ m.object # ManagerObject
  BY DEF Raise, RaiseOverLimit, At, RaiseUnmatched
<1>3. /\ handler'[h].m = e
      /\ m.raiseDelay > 0 => handler'[h].pc \in Delaying
  BY <1>2 DEF AfterRaising, TypeOK, Local, Delaying
<1>4. e.object = m.object
  BY <1>0 DEF Notification
<1>5. \A x \in Entries(activeAlarms') :
         \/ x \in Entries(activeAlarms) \/ x = e
         \/ x.raiseDelay = 0 /\ x.id = id + 1
  <2>1. CASE Raise(h)
    <3>1. activeAlarms' = Append(activeAlarms, e)
      BY <2>1 DEF Raise
    <3> HIDE DEF e
    <3> QED BY <1>0, <3>1, AppendEntries
  <2>2. CASE RaiseOverLimit(h)
    <3> DEFINE t == ThresholdAlarm(ActiveProblem, id + 1)
    <3>1. t \in Notification /\ t.raiseDelay = 0 /\ t.id = id + 1
      BY <1>0, <2>2, OwnAlarm DEF RaiseOverLimit
    <3>2. activeAlarms' = Append(Append(activeAlarms, t), e)
      BY <2>2 DEF RaiseOverLimit
    <3> HIDE DEF t, e
    <3>3. /\ Append(activeAlarms, t) \in Seq(Notification)
          /\ Entries(Append(activeAlarms, t)) = Entries(activeAlarms) \cup {t}
      BY <1>0, <3>1, AppendEntries
    <3>4. Entries(activeAlarms') = Entries(activeAlarms) \cup {t} \cup {e}
      BY <1>0, <3>2, <3>3, AppendEntries
    <3> QED BY <3>1, <3>4
  <2> QED BY <2>1, <2>2
<1> HIDE DEF e
<1>6. PendingHasRaiser'
  <2> SUFFICES ASSUME NEW x \in Entries(activeAlarms'), x.raiseDelay > 0
               PROVE  \E k \in Handlers : handler'[k].pc \in Delaying
                                            /\ handler'[k].m.id = x.id
    BY DEF PendingHasRaiser, Delaying
  <2>1. CASE x \in Entries(activeAlarms)
    <3>1. PICK k \in Handlers : handler[k].pc \in Delaying /\ handler[k].m.id = x.id
      BY <2>1 DEF PendingInv, PendingHasRaiser, Delaying
    <3>2. k # h
      BY <1>2, <3>1 DEF Delaying
    <3> QED BY <1>1, <3>1, <3>2
  <2>2. CASE x = e
    BY <1>0, <1>3, <2>2
  <2> QED BY <1>5, <2>1, <2>2
<1>7. ASSUME NEW k \in Handlers, handler'[k].pc \in Delaying
      PROVE  /\ handler'[k].m.object # ManagerObject
             /\ \A x \in Entries(activeAlarms') :
                   x.id = handler'[k].m.id => SameAlarm(x, handler'[k].m)
  <2>0. \A x \in Entries(activeAlarms) : x.id \in Nat /\ x.id <= uniqueAlarmId
    BY <1>0 DEF UniqueIds, Notification
  <2>1. CASE k = h
    <3>1. \A x \in Entries(activeAlarms') : x.id = id => x = e
      BY <1>0, <1>5, <2>0
    <3> QED BY <1>0, <1>2, <1>3, <1>4, <2>1, <3>1
  <2>2. CASE k # h
    <3>1. handler'[k] = handler[k] /\ handler[k].m.id \in Nat
      BY <1>1, <2>2 DEF TypeOK, Local, Notification
    <3>2. /\ handler[k].m.object # ManagerObject /\ handler[k].m.id <= uniqueAlarmId
          /\ \A x \in Entries(activeAlarms) :
                x.id = handler[k].m.id => SameAlarm(x, handler[k].m)
      BY <1>7, <3>1 DEF PendingInv, GivenOut, Recorders, Delaying
    <3>3. \A x \in Entries(activeAlarms') :
             x.id = handler[k].m.id => x \in Entries(activeAlarms)
      BY <1>0, <1>5, <3>1, <3>2
    <3> QED BY <1>0, <1>2, <3>1, <3>2, <3>3
  <2> QED BY <2>1, <2>2
<1> QED BY <1>6, <1>7 DEF PendingInv

\* The goroutine whose delay is over reveals the one alarm of its identity, or leaves
\* when there is none: nobody else's alarm waited for it.
LEMMA DelayOverKeepsPending ==
    ASSUME TypeOK, PendingInv, UniqueIdentity, IndexTargetsOwnAlarm,
           NEW h \in Handlers, Reveal(h) \/ RaiseAbandoned(h)
    PROVE  PendingInv'
<1> DEFINE m == handler[h].m
           i == handler[h].idx
<1>1. \A k \in Handlers \ {h} : handler'[k] = handler[k]
  BY OthersUntouched DEF Acquire, Proceed
<1>2. handler[h].pc \in Delaying /\ handler'[h].pc \notin Delaying
  <2>1. CASE Reveal(h)
    BY <2>1, MatchedMoves, TypeSplit DEF Delaying
  <2>2. CASE RaiseAbandoned(h)
    BY <2>2 DEF RaiseAbandoned, At, Return, Idle, TypeOK, Delaying
  <2> QED BY <2>1, <2>2
<1>3. \A x \in Entries(activeAlarms') :
         \E k \in DOMAIN activeAlarms :
            /\ x.id = activeAlarms[k].id /\ SameAlarm(x, activeAlarms[k])
            /\ x.raiseDelay > 0 => /\ x.raiseDelay = activeAlarms[k].raiseDelay
                                   /\ ~SameAlarm(activeAlarms[k], m)
  <2>1. CASE RaiseAbandoned(h)
    <3>1. UNCHANGED activeAlarms /\ ~IsMatchFound(activeAlarms, m)
      BY <2>1 DEF RaiseAbandoned, table
    <3> QED BY <3>1 DEF IsMatchFound, Entries, SameAlarm
  <2>2. CASE Reveal(h)
    <3>1. SameAlarm(activeAlarms[i], m) /\ m.object # ManagerObject
      BY <1>2, <2>2 DEF Reveal, At, IndexTargetsOwnAlarm, PendingInv
    <3>2. i \in DOMAIN activeAlarms
      BY <2>2, RevealedTable
    <3>3. \A k \in DOMAIN activeAlarms : SameAlarm(activeAlarms[k], m) => k = i
      BY <3>1, <3>2 DEF UniqueIdentity, OneAlarmPerIdentity, SameAlarm
    <3> HIDE DEF i
    <3> SUFFICES ASSUME NEW k \in DOMAIN activeAlarms
                 PROVE  LET x == activeAlarms'[k] IN
                        /\ x.id = activeAlarms[k].id /\ SameAlarm(x, activeAlarms[k])
                        /\ x.raiseDelay > 0 => /\ x.raiseDelay = activeAlarms[k].raiseDelay
                                               /\ ~SameAlarm(activeAlarms[k], m)
      BY <2>2, RevealedTable DEF Entries
    <3> QED BY <2>2, <3>3, RevealedTable DEF i
  <2> QED BY <2>1, <2>2
<1>4. PendingHasRaiser'
  <2> SUFFICES ASSUME NEW x \in Entries(activeAlarms'), x.raiseDelay > 0
               PROVE  \E k \in Handlers : handler'[k].pc \in Delaying
                                            /\ handler'[k].m.id = x.id
    BY DEF PendingHasRaiser, Delaying
  <2>1. PICK j \in DOMAIN activeAlarms :
           /\ x.id = activeAlarms[j].id /\ activeAlarms[j].raiseDelay > 0
           /\ ~SameAlarm(activeAlarms[j], m)
    BY <1>3
  <2>2. activeAlarms[j] \in Entries(activeAlarms)
    BY DEF Entries
  <2>3. PICK k \in Handlers : handler[k].pc \in Delaying /\ handler[k].m.id = x.id
    BY <2>1, <2>2 DEF PendingInv, PendingHasRaiser, Delaying
  <2>4. k # h
    BY <2>1, <2>2, <2>3 DEF PendingInv
  <2> QED BY <1>1, <2>3, <2>4
<1>5. ASSUME NEW k \in Handlers, handler'[k].pc \in Delaying
      PROVE  /\ handler'[k].m.object # ManagerObject
             /\ \A x \in Entries(activeAlarms') :
                   x.id = handler'[k].m.id => SameAlarm(x, handler'[k].m)
  <2>1. handler'[k] = handler[k]
    BY <1>1, <1>2, <1>5
  <2>2. /\ handler[k].m.object # ManagerObject
        /\ \A x \in Entries(activeAlarms) :
              x.id = handler[k].m.id => SameAlarm(x, handler[k].m)
    BY <1>5, <2>1 DEF PendingInv
  <2>3. ASSUME NEW x \in Entries(activeAlarms'), x.id = handler[k].m.id
        PROVE  SameAlarm(x, handler[k].m)
    <3>1. PICK j \in DOMAIN activeAlarms :
             x.id = activeAlarms[j].id /\ SameAlarm(x, activeAlarms[j])
      BY <1>3
    <3>2. activeAlarms[j] \in Entries(activeAlarms)
      BY DEF Entries
    <3> QED BY <2>2, <2>3, <3>1, <3>2 DEF SameAlarm
  <2> QED BY <2>1, <2>2, <2>3
<1> QED BY <1>4, <1>5 DEF PendingInv

\* The steps that take an alarm out of the table, or put the history's alarm into it.
LEMMA RemovalKeepsPending ==
    ASSUME TypeOK, PendingInv, GivenOut, Fresh, GeneratesUndelayed, OwnUndelayed,
           TableUnraced, SameDelays, NEW h \in Handlers,
           \/ Replace(h) \/ Clear(h) \/ ClearOverLimit(h) \/ PanicClearing(h)
           \/ StoreActive(h)
    PROVE  PendingInv'
<1>0. uniqueAlarmId \in Nat /\ activeAlarms \in Seq(Notification)
  BY DEF TypeOK
<1>1. CASE Replace(h) \/ Clear(h) \/ PanicClearing(h)
  <2>1. \/ UNCHANGED activeAlarms
        \/ \E i \in DOMAIN activeAlarms : activeAlarms' = RemoveAlarm(activeAlarms, i)
    BY <1>1 DEF Replace, HasMatched, Clear, PanicClearing, CanClear
  <2>2. Entries(activeAlarms') \subseteq Entries(activeAlarms)
    BY <1>0, <2>1, RemoveEntries
  <2> QED BY <2>2, SameDelaysKeep
<1>2. CASE ClearOverLimit(h)
  <2> DEFINE t == ThresholdAlarm(HistoryProblem, uniqueAlarmId + 1)
             s == RemoveAlarm(activeAlarms, handler[h].idx)
  <2>1. t \in Notification /\ t.raiseDelay = 0 /\ t.id = uniqueAlarmId + 1
    BY <1>0, <1>2, OwnAlarm DEF ClearOverLimit
  <2>2. /\ activeAlarms' = Append(s, t)
        /\ s \in Seq(Notification) /\ Entries(s) \subseteq Entries(activeAlarms)
    BY <1>0, <1>2, RemoveEntries DEF ClearOverLimit, CanClear
  <2> HIDE DEF s, t
  <2>3. \A e \in Entries(activeAlarms') : e \in Entries(activeAlarms) \/ e = t
    BY <2>1, <2>2, AppendEntries
  <2>4. ASSUME NEW k \in Handlers, handler[k].pc \in Delaying
        PROVE  handler[k].m.id # t.id
    <3>1. handler[k].m.id \in Nat /\ handler[k].m.id <= uniqueAlarmId
      BY <2>4 DEF GivenOut, Recorders, Delaying, TypeOK, Local, Notification
    <3> QED BY <1>0, <2>1, <3>1
  <2> QED BY <2>1, <2>3, <2>4, SameDelaysKeep
<1>3. CASE StoreActive(h)
  <2> DEFINE t == handler[h].threshold
  <2>1. /\ t \in Notification /\ handler[h].pc \in Unstored
        /\ activeAlarms' \in {activeAlarms, Append(activeAlarms, t)}
    BY <1>3, StoreActiveAppends DEF Unstored
  <2>2. /\ t.raiseDelay = 0
        /\ \A k \in Handlers : handler[k].pc \in Delaying => handler[k].m.id # t.id
    BY <2>1 DEF GeneratesUndelayed, Fresh, Recorders, Delaying
  <2> HIDE DEF t
  <2>3. \A e \in Entries(activeAlarms') : e \in Entries(activeAlarms) \/ e = t
    BY <1>0, <2>1, AppendEntries
  <2> QED BY <2>2, <2>3, SameDelaysKeep
<1> QED BY <1>1, <1>2, <1>3

\* The strengthened invariant.
LEMMA PendingInvariant == Spec /\ [](Unraced /\ OwnUndelayed) => []PendingInv
<1>1. Init => PendingInv
  BY DEF Init, PendingInv, PendingHasRaiser, Entries, Idle, Delaying
<1>2. TypeOK /\ IdentityInv /\ IdInv /\ GeneratesUndelayed /\ Unraced /\ OwnUndelayed
         /\ PendingInv /\ [Next]_vars => PendingInv'
  <2> SUFFICES ASSUME TypeOK, IdentityInv, IdInv, GeneratesUndelayed, Unraced,
                      OwnUndelayed, PendingInv, [Next]_vars
               PROVE  PendingInv'
    OBVIOUS
  <2>1. CASE \E h \in Handlers : Raise(h) \/ RaiseOverLimit(h)
    BY <2>1, RaiseKeepsPending DEF IdentityInv, IdInv
  <2>2. CASE \E h \in Handlers : Reveal(h) \/ RaiseAbandoned(h)
    BY <2>2, DelayOverKeepsPending DEF IdentityInv
  <2>3. CASE ~\E h \in Handlers : DelayStep(h)
    <3>1. SameDelays
      BY <2>3, OthersSameDelays DEF IdentityInv
    <3>2. CASE \E h \in Handlers :
                  \/ Replace(h) \/ Clear(h) \/ ClearOverLimit(h) \/ PanicClearing(h)
                  \/ StoreActive(h)
      BY <3>1, <3>2, RemovalKeepsPending DEF IdInv, Unraced
    <3>3. CASE ~\E h \in Handlers : TableStep(h)
      BY <3>1, <3>3, OtherSteps, SameDelaysKeep
    <3> QED BY <2>3, <3>2, <3>3 DEF DelayStep, TableStep
  <2> QED BY <2>1, <2>2, <2>3 DEF DelayStep
<1>3. Spec /\ []Unraced => []IdentityInv
  <2>1. Unraced => TableUnraced
    BY DEF Unraced
  <2> QED BY <2>1, IdentityInvariant, PTL
<1> QED BY <1>1, <1>2, <1>3, TypeCorrect, IdInvariant, DelaysInvariant, PTL DEF Spec

\* An alarm that is marked as delayed has the goroutine that will reveal it, although
\* the alarm may be replaced by one of another severity, cleared and raised again while
\* the goroutine sleeps, and the history alarm may be generated beside.
THEOREM PendingWhileUnraced ==
    Spec /\ [](Unraced /\ OwnUndelayed) => []PendingHasRaiser
<1>1. PendingInv => PendingHasRaiser
  BY DEF PendingInv
<1> QED BY <1>1, PendingInvariant, PTL

-------------------------------------------------------------------------------
(* How alarms leave the table. *)

\* What LeavesOnlyClearedOrReplaced asks of an alarm that leaves the table.
LeavesWell(e) ==
    \/ \E c \in Entries(alarmHistory)' : c.action = "CLEAR" /\ c.id = e.id
    \/ \E h \in Handlers : /\ handler'[h].pc = "raising"
                           /\ SameAlarm(handler'[h].m, e)
                           /\ handler'[h].m.severity # e.severity

\* The alarm that a clear takes out of the table, and the record of it.
LEMMA ClearedRecord ==
    ASSUME TypeOK, NEW h \in Handlers, CanClear(h)
    PROVE  LET c == [handler[h].m EXCEPT !.id = activeAlarms[handler[h].idx].id] IN
           /\ c \in Notification /\ c.id = activeAlarms[handler[h].idx].id
           /\ c.action = handler[h].m.action
           /\ ClearedHistory(h) = Append(alarmHistory, c)
           /\ ClearedHistory(h) \in Seq(Notification)
           /\ Len(ClearedHistory(h)) = Len(alarmHistory) + 1
           /\ Entries(ClearedHistory(h)) = Entries(alarmHistory) \cup {c}
<1> DEFINE c == [handler[h].m EXCEPT !.id = activeAlarms[handler[h].idx].id]
<1>1. handler[h].m \in Notification /\ activeAlarms[handler[h].idx] \in Notification
  BY LenProperties, ElementOfSeq DEF CanClear, TypeOK, Local
<1>2. /\ c \in Notification /\ c.id = activeAlarms[handler[h].idx].id
      /\ c.action = handler[h].m.action
  BY <1>1 DEF Notification
<1>3. ClearedHistory(h) = Append(alarmHistory, c) /\ alarmHistory \in Seq(Notification)
  BY DEF ClearedHistory, TypeOK
<1> HIDE DEF c
<1>4. /\ Append(alarmHistory, c) \in Seq(Notification)
      /\ Len(Append(alarmHistory, c)) = Len(alarmHistory) + 1
      /\ Entries(Append(alarmHistory, c)) = Entries(alarmHistory) \cup {c}
  BY <1>2, <1>3, AppendProperties, AppendEntries
<1> QED BY <1>2, <1>3, <1>4 DEF c

\* The alarm that leaves is the one that the step removes.
LEMMA LeaverIsRemoved ==
    ASSUME TypeOK, NEW e \in Entries(activeAlarms), Leaves(e), NEW i \in DOMAIN activeAlarms,
           Entries(RemoveAlarm(activeAlarms, i)) \subseteq Entries(activeAlarms')
    PROVE  e = activeAlarms[i]
<1>1. PICK k \in DOMAIN activeAlarms : e = activeAlarms[k]
  BY DEF Entries
<1>2. k # i => e \in Entries(activeAlarms')
  BY <1>1, RemoveEntries DEF TypeOK
<1> QED BY <1>1, <1>2 DEF Leaves

\* The steps that change the table let an alarm go in these two ways only.
LEMMA TableStepLeaves ==
    ASSUME TypeOK, KindInv, TableUnraced, IndexTargetsOwnAlarm, NEW h \in Handlers,
           TableStep(h), NEW e \in Entries(activeAlarms), Leaves(e)
    PROVE  LeavesWell(e)
<1>0. /\ activeAlarms \in Seq(Notification) /\ handler[h].m \in Notification
      /\ uniqueAlarmId + 1 \in Nat /\ uniqueAlarmId + 1 + 1 \in Nat
      /\ [handler[h].m EXCEPT !.id = uniqueAlarmId + 1] \in Notification
  <2>1. handler[h].m \in Notification /\ activeAlarms \in Seq(Notification)
    BY DEF TypeOK, Local
  <2>2. uniqueAlarmId + 1 \in Nat /\ uniqueAlarmId + 1 + 1 \in Nat
    BY DEF TypeOK
  <2>3. [handler[h].m EXCEPT !.id = uniqueAlarmId + 1] \in Notification
    BY <2>1, <2>2, NotificationUpdate
  <2> QED BY <2>1, <2>2, <2>3
<1>1. ~(Entries(activeAlarms) \subseteq Entries(activeAlarms'))
  BY DEF Leaves
<1>2. CASE Replace(h)
  <2> DEFINE i == handler[h].idx
  <2>1. /\ i \in DOMAIN activeAlarms /\ activeAlarms' = RemoveAlarm(activeAlarms, i)
        /\ activeAlarms[i].severity # handler[h].m.severity
        /\ SameAlarm(activeAlarms[i], handler[h].m)
    BY <1>2 DEF Replace, HasMatched, Matched, At, IndexTargetsOwnAlarm
  <2>2. e = activeAlarms[i]
    BY <2>1, LeaverIsRemoved
  <2>3. handler'[h].pc = "raising" /\ handler'[h].m = handler[h].m
    BY <1>2, MatchedMoves, TypeSplit
  <2> QED BY <2>1, <2>2, <2>3 DEF LeavesWell, SameAlarm
<1>3. CASE Reveal(h)
  <2>1. PICK k \in DOMAIN activeAlarms : e = activeAlarms[k]
    BY DEF Entries
  <2>2. k \in DOMAIN activeAlarms' /\ activeAlarms'[k].id = e.id
    BY <1>3, <2>1, RevealedTable
  <2> QED BY <2>2 DEF Leaves, Entries
<1>4. CASE Raise(h)
  BY <1>0, <1>1, <1>4, AppendEntries DEF Raise
<1>5. CASE RaiseOverLimit(h)
  <2> DEFINE t == ThresholdAlarm(ActiveProblem, uniqueAlarmId + 1 + 1)
             x == [handler[h].m EXCEPT !.id = uniqueAlarmId + 1]
  <2>1. t \in Notification /\ x \in Notification
    BY <1>0, <1>5, OwnAlarm DEF RaiseOverLimit
  <2>2. activeAlarms' = Append(Append(activeAlarms, t), x)
    BY <1>5 DEF RaiseOverLimit
  <2> HIDE DEF t, x
  <2> QED BY <1>0, <1>1, <2>1, <2>2, AppendEntries
<1>6. ASSUME At(h, "clearing"), CanClear(h),
             Entries(RemoveAlarm(activeAlarms, handler[h].idx)) \subseteq Entries(activeAlarms'),
             Entries(ClearedHistory(h)) \subseteq Entries(alarmHistory')
      PROVE  LeavesWell(e)
  <2>1. e = activeAlarms[handler[h].idx]
    BY <1>6, LeaverIsRemoved DEF CanClear
  <2>2. handler[h].m.action = "CLEAR"
    BY <1>6 DEF At, KindInv
  <2>3. \E c \in Entries(ClearedHistory(h)) : c.action = "CLEAR" /\ c.id = e.id
    BY <1>6, <2>1, <2>2, ClearedRecord
  <2> QED BY <1>6, <2>3 DEF LeavesWell
<1>7. CASE Clear(h)
  BY <1>6, <1>7 DEF Clear
<1>8. CASE ClearOverLimit(h)
  <2> DEFINE t == ThresholdAlarm(HistoryProblem, uniqueAlarmId + 1)
             s == RemoveAlarm(activeAlarms, handler[h].idx)
  <2>1. t \in Notification
    BY <1>0, <1>8, OwnAlarm DEF ClearOverLimit
  <2>2. /\ activeAlarms' = Append(s, t) /\ alarmHistory' = Append(ClearedHistory(h), t)
        /\ At(h, "clearing") /\ CanClear(h)
    BY <1>8 DEF ClearOverLimit
  <2>3. s \in Seq(Notification) /\ ClearedHistory(h) \in Seq(Notification)
    BY <1>0, <2>2, RemoveEntries, ClearedRecord DEF CanClear
  <2> HIDE DEF t, s
  <2>4. /\ Entries(s) \subseteq Entries(activeAlarms')
        /\ Entries(ClearedHistory(h)) \subseteq Entries(alarmHistory')
    BY <2>1, <2>2, <2>3, AppendEntries
  <2> QED BY <1>6, <2>2, <2>4 DEF s
<1>9. CASE PanicClearing(h)
  BY <1>1, <1>6, <1>9 DEF PanicClearing
<1>10. CASE StoreActive(h)
  <2>1. /\ handler[h].threshold \in Notification
        /\ activeAlarms' \in {activeAlarms, Append(activeAlarms, handler[h].threshold)}
    BY <1>10, StoreActiveAppends
  <2> QED BY <1>0, <1>1, <2>1, AppendEntries
<1> QED BY <1>2, <1>3, <1>4, <1>5, <1>7, <1>8, <1>9, <1>10 DEF TableStep

\* No alarm gets lost: it leaves the table with a CLEAR of its id in the history, or for
\* a raise of its identity with another severity, in clears that panic too and while the
\* history alarm is generated, as long as nobody changes the table between the two halves
\* of that alarm's append, which would write back a table read before.
THEOREM NoAlarmLostWhileUnraced == Spec /\ []TableUnraced => LeavesOnlyClearedOrReplaced
<1>1. TypeOK /\ TableUnraced /\ KindInv /\ IdentityInv /\ [Next]_vars =>
         [\A e \in Entries(activeAlarms) : Leaves(e) => LeavesWell(e)]_vars
  <2> SUFFICES ASSUME TypeOK, TableUnraced, KindInv, IdentityInv, [Next]_vars,
                      NEW e \in Entries(activeAlarms), Leaves(e)
               PROVE  LeavesWell(e)
    OBVIOUS
  <2>1. CASE \E h \in Handlers : TableStep(h)
    BY <2>1, TableStepLeaves DEF IdentityInv
  <2>2. CASE ~\E h \in Handlers : TableStep(h)
    BY <2>2, OtherSteps DEF Leaves
  <2> QED BY <2>1, <2>2
<1> QED BY <1>1, KindInvariant, IdentityInvariant, TypeCorrect, PTL
        DEF Spec, LeavesOnlyClearedOrReplaced, LeavesWell

-------------------------------------------------------------------------------
(* Records: what is in the history, and in the slices of it that goroutines have read. *)

\* The elements of a slice with their places. An append may write back a slice that was
\* read before, so all of them count.
Placed(list) == {<<i, list[i]>> : i \in DOMAIN list}

Records ==
    Placed(alarmHistory)
        \cup UNION {Placed(handler[h].loaded) : h \in {g \in Handlers : handler[g].pc \in Readers}}

\* A record has an id that was given out. The CLEAR of an id is in one place only, and no
\* active alarm has the id, nor has the history alarm on its way to the table.
RecordInv ==
    /\ \A p \in Records : p[2].id <= uniqueAlarmId
    /\ \A p \in Records : p[2].action = "CLEAR" =>
          /\ \A e \in Entries(activeAlarms) : e.id # p[2].id
          /\ \A h \in Handlers : handler[h].pc \in Unstored => handler[h].threshold.id # p[2].id
          /\ \A q \in Records :
                q[2].action = "CLEAR" /\ q[2].id = p[2].id => q[1] = p[1]

\* An alarm whose raise delay runs is not in the history, in no slice of it that will be
\* written back, and not what a goroutine is about to append.
ShownInv ==
    \A e \in Entries(activeAlarms) : e.raiseDelay > 0 =>
        /\ \A p \in Records : p[2].id # e.id
        /\ \A h \in Handlers :
              /\ handler[h].pc \in Recorders \ Delaying => handler[h].m.id # e.id
              /\ handler[h].pc \in Generating => handler[h].threshold.id # e.id

\* The records of a slice, and what appends add to them.
LEMMA PlacedTyped ==
    ASSUME NEW s \in Seq(Notification)
    PROVE  \A p \in Placed(s) : p[1] \in Nat /\ p[2] \in Notification
<1>1. DOMAIN s = 1..Len(s) /\ Len(s) \in Nat
  BY LenProperties
<1>2. \A i \in DOMAIN s : s[i] \in Notification
  BY <1>1, ElementOfSeq
<1> QED BY <1>1, <1>2 DEF Placed

LEMMA AppendPlaced ==
    ASSUME NEW s \in Seq(Notification), NEW e \in Notification
    PROVE  Placed(Append(s, e)) = Placed(s) \cup {<<Len(s) + 1, e>>}
<1>1. /\ Append(s, e) \in Seq(Notification) /\ Len(Append(s, e)) = Len(s) + 1
      /\ Append(s, e)[Len(s) + 1] = e
      /\ \A k \in 1..Len(s) : Append(s, e)[k] = s[k]
  BY AppendProperties
<1>2. Len(s) \in Nat /\ DOMAIN s = 1..Len(s) /\ DOMAIN Append(s, e) = 1..(Len(s) + 1)
  BY <1>1, LenProperties
<1> QED BY <1>1, <1>2 DEF Placed

\* An append without the mutex moves no record to another place.
LEMMA RacyPlaced ==
    ASSUME NEW list \in Seq(Notification), NEW loaded \in Seq(Notification),
           NEW e \in Notification, NEW v \in RacyAppend(list, loaded, e)
    PROVE  \A p \in Placed(v) : p \in Placed(list) \/ p \in Placed(loaded) \/ p[2] = e
<1>1. CASE v = Append(loaded, e)
  BY <1>1, AppendPlaced
<1>2. CASE v = Append(Overlay(loaded, list), e)
  <2>1. Overlay(loaded, list) \in Seq(Notification)
    <3>1. /\ DOMAIN loaded = 1..Len(loaded) /\ Len(loaded) \in Nat
          /\ DOMAIN list = 1..Len(list)
      BY LenProperties
    <3>2. \A i \in DOMAIN loaded :
             (IF i \in DOMAIN list THEN list[i] ELSE loaded[i]) \in Notification
      BY <3>1, ElementOfSeq
    <3> QED BY <3>1, <3>2, SeqDef DEF Overlay
  <2>2. \A p \in Placed(Overlay(loaded, list)) : p \in Placed(list) \/ p \in Placed(loaded)
    BY DEF Placed, Overlay
  <2> QED BY <1>2, <2>1, <2>2, AppendPlaced
<1>3. CASE v = list
  BY <1>3
<1> QED BY <1>1, <1>2, <1>3 DEF RacyAppend

\* What an alarm's removal leaves has other ids than that alarm.
LEMMA RemovedIdGone ==
    ASSUME NEW s \in Seq(Notification), NEW i \in DOMAIN s, NEW n \in Nat, IdsBelow(s, n)
    PROVE  \A e \in Entries(RemoveAlarm(s, i)) : e.id # s[i].id
<1> DEFINE r == RemoveAlarm(s, i)
           old(k) == IF k < i THEN k ELSE k + 1
<1>0. Len(s) \in Nat /\ DOMAIN s = 1..Len(s) /\ i \in 1..Len(s)
  BY LenProperties
<1>1. /\ r \in Seq(Notification) /\ Len(r) = Len(s) - 1
      /\ \A k \in 1..(Len(s) - 1) : r[k] = IF k < i THEN s[k] ELSE s[k + 1]
  BY <1>0, RemoveAlarmProperties
<1> HIDE DEF r
<1>2. DOMAIN r = 1..(Len(s) - 1)
  BY <1>1, LenProperties
<1>3. \A k \in DOMAIN r : old(k) \in DOMAIN s \ {i} /\ r[k] = s[old(k)]
  BY <1>0, <1>1, <1>2
<1> HIDE DEF old
<1>4. \A k \in DOMAIN r : r[k].id # s[i].id
  BY <1>3 DEF IdsBelow
<1> QED BY <1>4 DEF Entries, r

\* The records are notifications at places.
LEMMA RecordsTyped ==
    TypeOK => \A p \in Records : p[1] \in Nat /\ p[2] \in Notification
<1> SUFFICES ASSUME TypeOK, NEW p \in Records PROVE p[1] \in Nat /\ p[2] \in Notification
  OBVIOUS
<1>1. CASE p \in Placed(alarmHistory)
  BY <1>1, PlacedTyped DEF TypeOK
<1>2. ASSUME NEW h \in Handlers, p \in Placed(handler[h].loaded)
      PROVE  p[1] \in Nat /\ p[2] \in Notification
  <2>1. handler[h].loaded \in Seq(Notification)
    BY DEF TypeOK, Local
  <2> QED BY <1>2, <2>1, PlacedTyped
<1> QED BY <1>1, <1>2 DEF Records

\* The records after a step are those of before and those of the history.
LEMMA RecordsMove ==
    ASSUME TypeOK, [Next]_vars
    PROVE  Records' \subseteq Records \cup Placed(alarmHistory')
<1>1. ASSUME NEW k \in Handlers, handler'[k].pc \in Readers
      PROVE  Placed(handler'[k].loaded) \subseteq Records
  <2>1. CASE handler'[k] = handler[k]
    BY <1>1, <2>1 DEF Records
  <2>2. CASE handler'[k].loaded = alarmHistory
    BY <2>2 DEF Records
  <2>3. ASSUME NEW h \in Handlers, Acquire(h) \/ Proceed(h)
        PROVE  handler'[k] = handler[k] \/ handler'[k].loaded = alarmHistory
    BY <1>1, <2>3, EveryoneMoves DEF Moves
  <2>4. CASE \/ \E h \in Handlers, m \in Requests : Submit(h, m)
             \/ Environment \/ Done \/ UNCHANGED vars
    BY <1>1, <2>1, <2>4, OutsideMoves DEF Readers
  <2> QED BY <2>1, <2>2, <2>3, <2>4 DEF Next
<1> QED BY <1>1 DEF Records

\* A step records what was raised before, or the threshold alarm that it raises,
OfRaise(p) ==
    /\ p[2].action = "RAISE"
    /\ \/ \E h \in Handlers : handler[h].pc = "historyStore" /\ handler[h].m.id = p[2].id
       \/ \E h \in Handlers : /\ handler[h].pc = "thresholdHistoryStore"
                              /\ handler[h].threshold.id = p[2].id
       \/ /\ p[2].id > uniqueAlarmId /\ p[2].id <= uniqueAlarmId'
          /\ OwnUndelayed =>
                \A e \in Entries(activeAlarms') : e.id = p[2].id => ~(e.raiseDelay > 0)

\* or at the end the clear of an alarm that it removes.
OfClear(p) ==
    /\ p[1] = Len(alarmHistory) + 1
    /\ \E e \in Entries(activeAlarms) : e.id = p[2].id
    /\ \A e \in Entries(activeAlarms') : e.id # p[2].id

Grows == \A p \in Placed(alarmHistory') : p \in Records \/ OfRaise(p) \/ OfClear(p)

\* The step that raises and records the alarm of the active-alarm limit.
LEMMA RaisingGrows ==
    ASSUME TypeOK, UniqueIds, NEW h \in Handlers, RaiseOverLimit(h)
    PROVE  Grows
<1> DEFINE id == uniqueAlarmId + 1
           x  == [handler[h].m EXCEPT !.id = id]
           t  == ThresholdAlarm(ActiveProblem, id + 1)
<1>1. /\ activeAlarms \in Seq(Notification) /\ alarmHistory \in Seq(Notification)
      /\ uniqueAlarmId \in Nat /\ id \in Nat /\ id + 1 \in Nat
      /\ id > uniqueAlarmId /\ id + 1 > uniqueAlarmId /\ id + 1 # id
  BY DEF TypeOK
<1>2. x \in Notification /\ x.id = id
  <2>1. handler[h].m \in Notification
    BY DEF TypeOK, Local
  <2> QED BY <1>1, <2>1, NotificationUpdate DEF Notification
<1>3. /\ t \in Notification /\ t.id = id + 1 /\ t.action = "RAISE"
      /\ OwnUndelayed => t.raiseDelay = 0
  BY <1>1, OwnAlarm DEF RaiseOverLimit
<1>4. /\ activeAlarms' = Append(Append(activeAlarms, t), x)
      /\ alarmHistory' = Append(alarmHistory, t) /\ uniqueAlarmId' = id + 1
  BY DEF RaiseOverLimit
<1> HIDE DEF id, x, t
<1>5. Entries(activeAlarms') = Entries(activeAlarms) \cup {t, x}
  <2>1. /\ Append(activeAlarms, t) \in Seq(Notification)
        /\ Entries(Append(activeAlarms, t)) = Entries(activeAlarms) \cup {t}
    BY <1>1, <1>3, AppendEntries
  <2>2. Entries(activeAlarms') = Entries(Append(activeAlarms, t)) \cup {x}
    BY <1>2, <1>4, <2>1, AppendEntries
  <2> QED BY <2>1, <2>2
<1>6. \A e \in Entries(activeAlarms) : e.id \in Nat /\ e.id <= uniqueAlarmId
  BY EntriesTyped DEF UniqueIds, Notification
<1>7. ASSUME OwnUndelayed, NEW e \in Entries(activeAlarms'), e.id = t.id
      PROVE  ~(e.raiseDelay > 0)
  <2>1. e # x
    BY <1>1, <1>2, <1>3, <1>7
  <2>2. e \notin Entries(activeAlarms)
    BY <1>1, <1>3, <1>6, <1>7
  <2>3. e = t
    BY <1>5, <2>1, <2>2
  <2> QED BY <1>3, <1>7, <2>3
<1>8. t.id > uniqueAlarmId /\ t.id <= uniqueAlarmId'
  BY <1>1, <1>3, <1>4
<1>9. ASSUME NEW q \in Placed(alarmHistory') PROVE q \in Records \/ OfRaise(q)
  <2>1. q \in Placed(alarmHistory) \/ q[2] = t
    BY <1>1, <1>3, <1>4, AppendPlaced
  <2>2. CASE q[2] = t
    BY <1>3, <1>7, <1>8, <2>2 DEF OfRaise
  <2> QED BY <2>1, <2>2 DEF Records
<1> QED BY <1>9 DEF Grows

\* The steps that clear.
LEMMA ClearingGrows ==
    ASSUME TypeOK, UniqueIds, NEW h \in Handlers,
           Clear(h) \/ ClearOverLimit(h) \/ PanicClearing(h)
    PROVE  Grows
<1> DEFINE id == uniqueAlarmId + 1
           s  == RemoveAlarm(activeAlarms, handler[h].idx)
           gone == activeAlarms[handler[h].idx]
           c  == [handler[h].m EXCEPT !.id = gone.id]
<1>0. /\ activeAlarms \in Seq(Notification) /\ alarmHistory \in Seq(Notification)
      /\ uniqueAlarmId \in Nat /\ id \in Nat /\ id > uniqueAlarmId /\ id <= id
      /\ IdsBelow(activeAlarms, uniqueAlarmId)
  <2>1. /\ activeAlarms \in Seq(Notification) /\ alarmHistory \in Seq(Notification)
        /\ uniqueAlarmId \in Nat
    BY DEF TypeOK
  <2> QED BY <2>1 DEF UniqueIds, IdsBelow
<1>1. ASSUME CanClear(h)
      PROVE  /\ s \in Seq(Notification) /\ Entries(s) \subseteq Entries(activeAlarms)
             /\ \A e \in Entries(s) : e.id # gone.id
             /\ gone \in Entries(activeAlarms) /\ c.id = gone.id
             /\ ClearedHistory(h) \in Seq(Notification)
             /\ Placed(ClearedHistory(h)) =
                   Placed(alarmHistory) \cup {<<Len(alarmHistory) + 1, c>>}
  <2>1. handler[h].idx \in DOMAIN activeAlarms
    BY <1>1 DEF CanClear
  <2>2. gone \in Entries(activeAlarms)
    BY <2>1 DEF Entries
  <2>3. /\ c.id = gone.id /\ c \in Notification
        /\ ClearedHistory(h) = Append(alarmHistory, c)
        /\ ClearedHistory(h) \in Seq(Notification)
    BY <1>1, ClearedRecord
  <2> HIDE DEF c
  <2>4. Placed(ClearedHistory(h)) =
           Placed(alarmHistory) \cup {<<Len(alarmHistory) + 1, c>>}
    BY <1>0, <2>3, AppendPlaced
  <2>5. s \in Seq(Notification) /\ Entries(s) \subseteq Entries(activeAlarms)
    BY <1>0, <2>1, RemoveEntries
  <2>6. \A e \in Entries(s) : e.id # gone.id
    BY <1>0, <2>1, RemovedIdGone
  <2> QED BY <2>2, <2>3, <2>4, <2>5, <2>6
<1> HIDE DEF id, s, gone, c
<1>2. CASE UNCHANGED alarmHistory
  BY <1>2 DEF Grows, Records
<1>3. CASE CanClear(h) /\ activeAlarms' = s /\ alarmHistory' = ClearedHistory(h)
  <2>1. ASSUME NEW q \in Placed(alarmHistory') PROVE q \in Records \/ OfClear(q)
    <3>1. CASE q \in Placed(alarmHistory)
      BY <3>1 DEF Records
    <3>2. CASE q = <<Len(alarmHistory) + 1, c>>
      BY <1>1, <1>3, <3>2 DEF OfClear
    <3> QED BY <1>1, <1>3, <2>1, <3>1, <3>2
  <2> QED BY <2>1 DEF Grows
<1>4. CASE Clear(h) \/ PanicClearing(h)
  <2>1. \/ UNCHANGED alarmHistory
        \/ CanClear(h) /\ activeAlarms' = s /\ alarmHistory' = ClearedHistory(h)
    BY <1>4 DEF Clear, PanicClearing, s
  <2> QED BY <1>2, <1>3, <2>1
<1>5. CASE ClearOverLimit(h)
  <2> DEFINE t == ThresholdAlarm(HistoryProblem, id)
  <2>1. /\ t \in Notification /\ t.id = id /\ t.action = "RAISE"
        /\ OwnUndelayed => t.raiseDelay = 0
    BY <1>0, <1>5, OwnAlarm DEF ClearOverLimit
  <2>2. /\ CanClear(h) /\ activeAlarms' = Append(s, t)
        /\ alarmHistory' = Append(ClearedHistory(h), t) /\ uniqueAlarmId' = id
    BY <1>5 DEF ClearOverLimit, s, id
  <2> HIDE DEF t
  <2>3. /\ Entries(activeAlarms') = Entries(s) \cup {t}
        /\ \A q \in Placed(alarmHistory') : q \in Placed(ClearedHistory(h)) \/ q[2] = t
    BY <1>1, <2>1, <2>2, AppendEntries, AppendPlaced
  <2>4. \A e \in Entries(activeAlarms) : e.id \in Nat /\ e.id <= uniqueAlarmId
    BY EntriesTyped DEF UniqueIds, Notification
  <2>5. gone.id # id
    BY <1>0, <1>1, <2>2, <2>4
  <2>6. ASSUME OwnUndelayed, NEW e \in Entries(activeAlarms'), e.id = t.id
        PROVE  ~(e.raiseDelay > 0)
    <3>1. e \notin Entries(activeAlarms)
      BY <1>0, <2>1, <2>4, <2>6
    <3>2. e = t
      BY <1>1, <2>2, <2>3, <2>6, <3>1
    <3> QED BY <2>1, <2>6, <3>2
  <2>7. t.id > uniqueAlarmId /\ t.id <= uniqueAlarmId'
    BY <1>0, <2>1, <2>2
  <2>8. ASSUME NEW q \in Placed(alarmHistory')
        PROVE  q \in Records \/ OfRaise(q) \/ OfClear(q)
    <3>1. CASE q \in Placed(alarmHistory)
      BY <3>1 DEF Records
    <3>2. CASE q = <<Len(alarmHistory) + 1, c>>
      BY <1>1, <2>1, <2>2, <2>3, <2>5, <3>2 DEF OfClear
    <3>3. CASE q[2] = t
      BY <2>1, <2>6, <2>7, <3>3 DEF OfRaise
    <3> QED BY <1>1, <2>2, <2>3, <2>8, <3>1, <3>2, <3>3
  <2> QED BY <2>8 DEF Grows
<1> QED BY <1>4, <1>5

\* The steps that record what was raised, without the mutex.
LEMMA RecordingGrows ==
    ASSUME TypeOK, KindInv, GeneratesOwn, NEW h \in Handlers,
           StoreHistory(h) \/ StoreThresholdHistory(h)
    PROVE  Grows
<1>0. /\ alarmHistory \in Seq(Notification) /\ handler[h].loaded \in Seq(Notification)
      /\ handler[h].m \in Notification /\ handler[h].threshold \in Notification
  BY DEF TypeOK, Local
<1>1. PICK r \in {handler[h].m, handler[h].threshold} :
         /\ r.action = "RAISE" /\ handler[h].pc \in Readers
         /\ alarmHistory' \in RacyAppend(alarmHistory, handler[h].loaded, r)
         /\ \/ handler[h].pc = "historyStore" /\ r = handler[h].m
            \/ handler[h].pc = "thresholdHistoryStore" /\ r = handler[h].threshold
  <2>1. CASE StoreHistory(h)
    BY <2>1 DEF StoreHistory, At, KindInv, Recorders, Readers
  <2>2. CASE StoreThresholdHistory(h)
    BY <2>2 DEF StoreThresholdHistory, At, GeneratesOwn, Generating, Readers
  <2> QED BY <2>1, <2>2
<1>2. ASSUME NEW q \in Placed(alarmHistory') PROVE q \in Records \/ OfRaise(q)
  <2>1. \/ q \in Placed(alarmHistory) \/ q \in Placed(handler[h].loaded) \/ q[2] = r
    BY <1>0, <1>1, RacyPlaced
  <2>2. CASE q[2] = r
    BY <1>1, <2>2 DEF OfRaise
  <2> QED BY <1>1, <2>1, <2>2 DEF Records
<1> QED BY <1>2 DEF Grows

\* The others leave the history alone.
LEMMA StepGrows ==
    ASSUME TypeOK, UniqueIds, KindInv, GeneratesOwn, [Next]_vars
    PROVE  Grows
<1> USE DEF table
<1>1. CASE UNCHANGED alarmHistory
  BY <1>1 DEF Grows, Records
<1>2. ASSUME NEW h \in Handlers, Acquire(h) PROVE UNCHANGED alarmHistory
  BY <1>2 DEF Acquire, Suppress, AcceptRaise, AcceptClear, RaiseDelayOver, RaiseAbandoned,
     ClearDelayOver, ClearAbandoned
<1>3. ASSUME NEW h \in Handlers, Proceed(h),
             ~RaiseOverLimit(h), ~Clear(h), ~ClearOverLimit(h), ~PanicClearing(h),
             ~StoreHistory(h), ~StoreThresholdHistory(h)
      PROVE  UNCHANGED alarmHistory
  <2>1. CASE Raise(h) \/ PanicRaising(h) \/ PanicThreshold(h) \/ PanicPosting(h)
    BY <2>1 DEF Raise, PanicRaising, PanicThreshold, PanicPosting
  <2>4. CASE SuppressDuplicate(h) \/ Replace(h) \/ Reveal(h) \/ PanicIndex(h)
    BY <2>4 DEF SuppressDuplicate, Replace, Reveal, PanicIndex
  <2>2. CASE CheckHistory(h) \/ LoadId(h) \/ StoreId(h) \/ LoadActive(h) \/ StoreActive(h)
    BY <2>2 DEF CheckHistory, LoadId, StoreId, LoadActive, StoreActive
  <2>3. CASE LoadHistory(h) \/ Persist(h) \/ Post(h) \/ ClearDone(h)
    BY <2>3 DEF LoadHistory, Persist, Post, ClearDone
  <2> QED BY <1>3, <2>1, <2>2, <2>3, <2>4 DEF Proceed
<1>4. CASE \/ \E h \in Handlers, m \in Requests : Submit(h, m)
           \/ Environment \/ Done \/ UNCHANGED vars
  <2>1. UNCHANGED alarmHistory
    BY <1>4, OutsideMoves
  <2> QED BY <1>1, <2>1
<1> QED BY <1>1, <1>2, <1>3, <1>4, RaisingGrows, ClearingGrows, RecordingGrows DEF Next

\* The places and ids of the records stay in order.
LEMMA StepKeepsRecords ==
    ASSUME TypeOK, IdInv, Unraced, KindInv, GeneratesOwn, RecordInv, [Next]_vars
    PROVE  RecordInv'
<1> USE DEF IdInv
<1>1. \A p \in Records' : p \in Records \/ OfRaise(p) \/ OfClear(p)
  BY StepGrows, RecordsMove DEF Grows
<1>2. uniqueAlarmId \in Nat /\ uniqueAlarmId' \in Nat /\ uniqueAlarmId <= uniqueAlarmId'
  BY CounterGrows DEF Unraced, TypeOK
<1>3. \A e \in Entries(activeAlarms) : e.id \in Nat /\ e.id <= uniqueAlarmId
  BY EntriesTyped DEF UniqueIds, Notification
<1>4. \A p \in Records : p[2].id \in Nat /\ p[2].id <= uniqueAlarmId
  BY RecordsTyped DEF RecordInv, Notification
<1>5. \A h \in Handlers : handler[h].m.id \in Nat /\ handler[h].threshold.id \in Nat
  BY DEF TypeOK, Local, Notification
<1>6. ASSUME NEW p \in Records' PROVE p[2].id <= uniqueAlarmId'
  <2>1. CASE p \in Records
    BY <1>2, <1>4, <2>1
  <2>2. CASE OfRaise(p)
    <3>1. CASE \E h \in Handlers : handler[h].pc = "historyStore" /\ handler[h].m.id = p[2].id
      BY <1>2, <1>5, <3>1 DEF GivenOut, Recorders
    <3>2. CASE \E h \in Handlers : /\ handler[h].pc = "thresholdHistoryStore"
                                   /\ handler[h].threshold.id = p[2].id
      BY <1>2, <1>5, <3>2 DEF GivenOut, Generating
    <3> QED BY <2>2, <3>1, <3>2 DEF OfRaise
  <2>3. CASE OfClear(p)
    BY <1>2, <1>3, <2>3 DEF OfClear
  <2> QED BY <1>1, <2>1, <2>2, <2>3
<1>7. ASSUME NEW p \in Records', p[2].action = "CLEAR"
      PROVE  \A e \in Entries(activeAlarms') : e.id # p[2].id
  <2>1. CASE p \in Records
    <3> SUFFICES ASSUME NEW e \in Entries(activeAlarms') PROVE e.id # p[2].id
      OBVIOUS
    <3>1. CASE \E f \in Entries(activeAlarms) : f.id = e.id
      BY <1>7, <2>1, <3>1 DEF RecordInv
    <3>2. CASE e.id > uniqueAlarmId
      BY <1>2, <1>4, <2>1, <3>2
    <3>3. ASSUME NEW h \in Handlers, StoreActive(h), e = handler[h].threshold
          PROVE  e.id # p[2].id
      BY <1>7, <2>1, <3>3 DEF RecordInv, StoreActive, At, Unstored
    <3>4. NewTable
      BY StepNewTable DEF Unraced
    <3> QED BY <3>1, <3>2, <3>3, <3>4 DEF NewTable
  <2>2. CASE OfClear(p)
    BY <2>2 DEF OfClear
  <2> QED BY <1>1, <1>7, <2>1, <2>2 DEF OfRaise
<1>8. ASSUME NEW p \in Records', p[2].action = "CLEAR",
             NEW h \in Handlers, handler'[h].pc \in Unstored
      PROVE  handler'[h].threshold.id # p[2].id
  <2>1. \/ p \in Records
        \/ \E e \in Entries(activeAlarms) : e.id = p[2].id
    BY <1>1, <1>8 DEF OfRaise, OfClear
  <2>2. p[2].id \in Nat /\ p[2].id <= uniqueAlarmId
    BY <1>3, <1>4, <2>1
  <2>3. CASE StoreId(h)
    <3>1. handler'[h].threshold.id = uniqueAlarmId + 1
      BY <2>3, StoreIdIsNew DEF Unraced
    <3> QED BY <1>2, <2>2, <3>1
  <2>4. CASE handler[h].pc \in Unstored /\ handler'[h].threshold = handler[h].threshold
    BY <1>8, <2>1, <2>4 DEF RecordInv, Fresh
  <2>5. handler'[h].pc \in Generating
    BY <1>8 DEF Unstored, Generating
  <2> QED BY <1>8, <2>3, <2>4, <2>5, GeneratorsMove
<1>9. ASSUME NEW p \in Records', p[2].action = "CLEAR",
             NEW q \in Records', q[2].action = "CLEAR", q[2].id = p[2].id
      PROVE  q[1] = p[1]
  <2>1. /\ p \in Records \/ OfClear(p)
        /\ q \in Records \/ OfClear(q)
    BY <1>1, <1>9 DEF OfRaise
  <2>2. CASE p \in Records /\ q \in Records
    BY <1>9, <2>2 DEF RecordInv
  <2>3. ~(p \in Records /\ OfClear(q)) /\ ~(q \in Records /\ OfClear(p))
    BY <1>9 DEF RecordInv, OfClear
  <2>4. CASE OfClear(p) /\ OfClear(q)
    BY <2>4 DEF OfClear
  <2> QED BY <2>1, <2>2, <2>3, <2>4
<1> QED BY <1>6, <1>7, <1>8, <1>9 DEF RecordInv

\* The strengthened invariant.
LEMMA RecordInvariant == Spec /\ []Unraced => []RecordInv
<1>1. Init => RecordInv
  <2> SUFFICES ASSUME Init PROVE RecordInv
    OBVIOUS
  <2>1. Placed(<<>>) = {}
    BY EmptySeq DEF Placed
  <2>2. Records = {}
    BY <2>1 DEF Init, Records, Idle
  <2> QED BY <2>2 DEF RecordInv
<1>2. TypeOK /\ IdInv /\ Unraced /\ KindInv /\ GeneratesOwn /\ RecordInv /\ [Next]_vars
         => RecordInv'
  BY StepKeepsRecords
<1> QED BY <1>1, <1>2, TypeCorrect, IdInvariant, KindInvariant, GeneratorsInvariant, PTL
        DEF Spec

\* Once the history holds the CLEAR of an id, no active alarm has that id and no other
\* CLEAR of it is recorded, for any number of clears of one alarm and of appends to the
\* history that overwrite each other, as long as no step comes between the reads and the
\* writes of the counter and of the table when the history alarm is generated.
THEOREM ClearedWhileUnraced == Spec /\ []Unraced => []ClearedIsGone
<1>1. RecordInv => ClearedIsGone
  <2> SUFFICES ASSUME RecordInv, NEW i \in DOMAIN alarmHistory,
                      alarmHistory[i].action = "CLEAR"
               PROVE  /\ \A e \in Entries(activeAlarms) : e.id # alarmHistory[i].id
                      /\ \A j \in DOMAIN alarmHistory :
                            /\ alarmHistory[j].action = "CLEAR"
                            /\ alarmHistory[j].id = alarmHistory[i].id
                            => i = j
    BY DEF ClearedIsGone
  <2>1. \A j \in DOMAIN alarmHistory : <<j, alarmHistory[j]>> \in Records
    BY DEF Records, Placed
  <2>2. ASSUME NEW p \in Records, p[2].action = "CLEAR"
        PROVE  /\ \A e \in Entries(activeAlarms) : e.id # p[2].id
               /\ \A q \in Records :
                     q[2].action = "CLEAR" /\ q[2].id = p[2].id => q[1] = p[1]
    BY <2>2 DEF RecordInv
  <2> QED BY <2>1, <2>2
<1> QED BY <1>1, RecordInvariant, PTL

\* Whoever begins to record an alarm has revealed it, or had nothing to reveal.
LEMMA RevealedFirst ==
    ASSUME TypeOK, UniqueIdentity, IndexTargetsOwnAlarm, UniqueIds, PendingInv, [Next]_vars,
           NEW k \in Handlers, handler'[k].pc \in Recorders \ Delaying
    PROVE  \/ /\ handler[k].pc \in Recorders \ Delaying
              /\ handler'[k].m.id = handler[k].m.id
           \/ \A e \in Entries(activeAlarms') : e.raiseDelay > 0 => e.id # handler'[k].m.id
<1>0. \/ handler[k].pc \in Recorders /\ handler'[k].m.id = handler[k].m.id
      \/ /\ Raise(k) \/ RaiseOverLimit(k)
         /\ handler'[k].m.id = uniqueAlarmId + 1 /\ uniqueAlarmId < uniqueAlarmId'
  BY RecordersMove
<1>1. /\ activeAlarms \in Seq(Notification) /\ uniqueAlarmId \in Nat
      /\ uniqueAlarmId + 1 \in Nat /\ uniqueAlarmId + 1 + 1 \in Nat
      /\ \A e \in Entries(activeAlarms) : e.id \in Nat /\ e.id <= uniqueAlarmId
  BY EntriesTyped DEF UniqueIds, Notification, TypeOK
<1>2. CASE Raise(k) \/ RaiseOverLimit(k)
  <2> DEFINE id == uniqueAlarmId + 1
             x  == [handler[k].m EXCEPT !.id = id]
             t  == ThresholdAlarm(ActiveProblem, id + 1)
  <2>1. handler[k].m \in Notification /\ x \in Notification /\ x.id = id
        /\ x.raiseDelay = handler[k].m.raiseDelay
    <3>1. handler[k].m \in Notification
      BY DEF TypeOK, Local
    <3> QED BY <1>1, <3>1, NotificationUpdate DEF Notification
  <2>2. ~(handler[k].m.raiseDelay > 0) /\ handler'[k].m.id = id
    <3>1. AfterRaising(k, id)
      BY <1>2 DEF Raise, RaiseOverLimit
    <3>2. handler'[k].pc # "raiseDelay"
      BY DEF Delaying
    <3> QED BY <2>1, <3>1, <3>2 DEF AfterRaising, TypeOK, Local, Notification
  <2>3. \A e \in Entries(activeAlarms') : e.id = id => e = x
    <3>1. CASE Raise(k)
      <4>1. activeAlarms' = Append(activeAlarms, x)
        BY <3>1 DEF Raise
      <4> HIDE DEF x
      <4>2. Entries(activeAlarms') = Entries(activeAlarms) \cup {x}
        BY <1>1, <2>1, <4>1, AppendEntries
      <4> QED BY <1>1, <4>2
    <3>2. CASE RaiseOverLimit(k)
      <4>1. t \in Notification /\ t.id = id + 1
        BY <1>1, <3>2, OwnAlarm DEF RaiseOverLimit
      <4>2. activeAlarms' = Append(Append(activeAlarms, t), x)
        BY <3>2 DEF RaiseOverLimit
      <4> HIDE DEF x, t
      <4>3. /\ Append(activeAlarms, t) \in Seq(Notification)
            /\ Entries(Append(activeAlarms, t)) = Entries(activeAlarms) \cup {t}
        BY <1>1, <4>1, AppendEntries
      <4>4. Entries(activeAlarms') = Entries(Append(activeAlarms, t)) \cup {x}
        BY <2>1, <4>2, <4>3, AppendEntries
      <4> QED BY <1>1, <4>1, <4>3, <4>4
    <3> QED BY <1>2, <3>1, <3>2
  <2> QED BY <2>1, <2>2, <2>3
<1>3. CASE Reveal(k)
  <2> DEFINE m == handler[k].m
             i == handler[k].idx
  <2>1. i \in DOMAIN activeAlarms /\ SameAlarm(activeAlarms[i], m)
    BY <1>3 DEF Reveal, At, IndexTargetsOwnAlarm
  <2>2. /\ m.object # ManagerObject
        /\ \A e \in Entries(activeAlarms) : e.id = m.id => SameAlarm(e, m)
    BY <1>3 DEF Reveal, At, PendingInv, Delaying
  <2>3. handler'[k].m.id = m.id
    <3>1. m \in Notification /\ handler'[k].m = [m EXCEPT !.raiseDelay = 0]
      BY <1>3, MatchedMoves, TypeSplit DEF TypeOK, Local
    <3> QED BY <3>1 DEF Notification
  <2>4. ASSUME NEW j \in DOMAIN activeAlarms', activeAlarms'[j].id = m.id
        PROVE  ~(activeAlarms'[j].raiseDelay > 0)
    <3>1. j \in DOMAIN activeAlarms /\ activeAlarms'[j].id = activeAlarms[j].id
      BY <1>3, RevealedTable
    <3>2. SameAlarm(activeAlarms[j], m)
      BY <2>2, <2>4, <3>1 DEF Entries
    <3>3. j = i
      BY <2>1, <2>2, <3>1, <3>2 DEF UniqueIdentity, OneAlarmPerIdentity, SameAlarm
    <3> QED BY <1>3, <3>1, <3>3, RevealedTable
  <2> QED BY <2>3, <2>4 DEF Entries
<1>4. CASE ~Raise(k) /\ ~RaiseOverLimit(k) /\ ~Reveal(k)
  <2>1. handler[k].pc \notin Delaying
    <3> SUFFICES ASSUME handler[k].pc \in Delaying PROVE FALSE
      OBVIOUS
    <3>1. CASE \E h \in Handlers : DelayStep(h)
      <4>1. PICK h \in Handlers : DelayStep(h)
        BY <3>1
      <4>2. Acquire(h) \/ Proceed(h)
        BY <4>1 DEF DelayStep, Acquire, Proceed
      <4>3. h = k
        BY <4>2, EveryoneMoves
      <4>4. RaiseAbandoned(k)
        BY <1>4, <4>1, <4>3 DEF DelayStep
      <4> QED BY <4>4 DEF RaiseAbandoned, Return, Idle, Recorders, Threshold, TypeOK
    <3>2. CASE \A h \in Handlers : ~DelayStep(h)
      BY <3>2, OthersSameDelays DEF SameDelays
    <3> QED BY <3>1, <3>2
  <2> QED BY <1>0, <1>4, <2>1
<1> QED BY <1>2, <1>3, <1>4

\* No step records an alarm that is pending.
LEMMA StepKeepsShown ==
    ASSUME TypeOK, UniqueIdentity, IndexTargetsOwnAlarm, IdInv, Unraced, PendingInv,
           GeneratesUndelayed, KindInv, OwnUndelayed, GeneratesOwn, RecordInv, ShownInv,
           [Next]_vars
    PROVE  ShownInv'
<1> USE DEF IdInv
<1>1. \A p \in Records' : p \in Records \/ OfRaise(p) \/ OfClear(p)
  BY StepGrows, RecordsMove DEF Grows
<1>2. uniqueAlarmId \in Nat
  BY DEF TypeOK
<1>3. \A p \in Records : p[2].id \in Nat /\ p[2].id <= uniqueAlarmId
  BY RecordsTyped DEF RecordInv, Notification
<1>4. \A h \in Handlers :
         /\ handler[h].pc \in Recorders =>
               handler[h].m.id \in Nat /\ handler[h].m.id <= uniqueAlarmId
         /\ handler[h].pc \in Generating =>
               handler[h].threshold.id \in Nat /\ handler[h].threshold.id <= uniqueAlarmId
  BY DEF GivenOut, TypeOK, Local, Notification
<1> SUFFICES ASSUME NEW e \in Entries(activeAlarms'), e.raiseDelay > 0
             PROVE  /\ \A p \in Records' : p[2].id # e.id
                    /\ \A h \in Handlers :
                          /\ handler'[h].pc \in Recorders \ Delaying =>
                                handler'[h].m.id # e.id
                          /\ handler'[h].pc \in Generating => handler'[h].threshold.id # e.id
  BY DEF ShownInv
<1>5. \/ \E f \in Entries(activeAlarms) : f.id = e.id /\ f.raiseDelay > 0
      \/ e.id > uniqueAlarmId
  <2>1. NewTable
    BY StepNewTable DEF Unraced
  <2>2. ASSUME NEW h \in Handlers, StoreActive(h), e = handler[h].threshold PROVE FALSE
    BY <2>2 DEF StoreActive, At, Unstored, GeneratesUndelayed
  <2> QED BY <2>1, <2>2 DEF NewTable
<1>6. \A p \in Records : p[2].id # e.id
  BY <1>2, <1>3, <1>5 DEF ShownInv
<1>7. \A h \in Handlers :
         /\ handler[h].pc \in Recorders \ Delaying => handler[h].m.id # e.id
         /\ handler[h].pc \in Generating => handler[h].threshold.id # e.id
  BY <1>2, <1>4, <1>5 DEF ShownInv
<1>8. ASSUME NEW p \in Records' PROVE p[2].id # e.id
  <2>1. CASE OfRaise(p)
    BY <1>7, <2>1 DEF OfRaise, Recorders, Generating, Delaying
  <2>2. CASE OfClear(p)
    BY <2>2 DEF OfClear
  <2> QED BY <1>1, <1>6, <2>1, <2>2
<1>9. ASSUME NEW k \in Handlers, handler'[k].pc \in Recorders \ Delaying
      PROVE  handler'[k].m.id # e.id
  BY <1>7, <1>9, RevealedFirst
<1>10. ASSUME NEW k \in Handlers, handler'[k].pc \in Generating
       PROVE  handler'[k].threshold.id # e.id
  <2>1. CASE StoreId(k)
    <3>1. handler'[k].threshold.id = uniqueAlarmId + 1 /\ UNCHANGED activeAlarms
      BY <2>1, StoreIdIsNew DEF Unraced
    <3>2. e.id \in Nat /\ e.id <= uniqueAlarmId
      BY <3>1, EntriesTyped DEF UniqueIds, Notification
    <3> QED BY <1>2, <3>1, <3>2
  <2>2. CASE handler[k].pc \in Generating /\ handler'[k].threshold = handler[k].threshold
    BY <1>7, <2>2
  <2> QED BY <1>10, <2>1, <2>2, GeneratorsMove
<1> QED BY <1>8, <1>9, <1>10

\* An alarm whose raise delay has not elapsed is not in the history, although other
\* goroutines append to it without the mutex and write back what they read before: as
\* long as no step comes between the reads and the writes of the counter and of the table
\* when the history alarm is generated, and the manager's own alarms have no raise delay.
THEOREM PendingUnrecordedWhileUnraced ==
    Spec /\ [](Unraced /\ OwnUndelayed) => []PendingNotRecorded
<1>1. Init => ShownInv
  BY DEF Init, ShownInv, Entries
<1>2. TypeOK /\ IdentityInv /\ IdInv /\ Unraced /\ PendingInv /\ GeneratesUndelayed
         /\ KindInv /\ OwnUndelayed /\ GeneratesOwn /\ RecordInv /\ ShownInv /\ [Next]_vars
         => ShownInv'
  BY StepKeepsShown DEF IdentityInv
<1>3. ShownInv => PendingNotRecorded
  <2> SUFFICES ASSUME ShownInv, NEW e \in Entries(activeAlarms), e.raiseDelay > 0,
                      NEW i \in DOMAIN alarmHistory
               PROVE  alarmHistory[i].id # e.id
    BY DEF PendingNotRecorded, Entries
  <2>1. <<i, alarmHistory[i]>> \in Records
    BY DEF Records, Placed
  <2> QED BY <2>1 DEF ShownInv
<1>4. Spec /\ []Unraced => []IdentityInv
  <2>1. Unraced => TableUnraced
    BY DEF Unraced
  <2> QED BY <2>1, IdentityInvariant, PTL
<1> QED BY <1>1, <1>2, <1>3, <1>4, TypeCorrect, IdInvariant, KindInvariant,
        GeneratorsInvariant, RecordInvariant, PendingInvariant, DelaysInvariant, PTL DEF Spec

===============================================================================
