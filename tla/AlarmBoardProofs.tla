--------------------------- MODULE AlarmBoardProofs ---------------------------
(***************************************************************************)
(* The alarm manager's core implements the board of AlarmBoard, for every  *)
(* value of the constants, as long as no step changes the table between    *)
(* the read and the write of an append without the mutex, and no goroutine *)
(* panics while it holds the mutex.                                        *)
(***************************************************************************)
EXTENDS AlarmRefinement, AlarmManagerProofs

-------------------------------------------------------------------------------
(* Cards. *)

\* A set of cards without those of one identity.
Without(board, e) == {d \in board : ~(d.object = e.object /\ d.problem = e.problem)}

\* The cards of a union are those of its parts.
LEMMA CardsOfUnion ==
    ASSUME NEW A, NEW B
    PROVE  Cards(A \cup B) = Cards(A) \cup Cards(B)
BY DEF Cards

\* An alarm of an application gives one card, one of the manager none.
LEMMA CardsOfOne ==
    ASSUME NEW e
    PROVE  Cards({e}) = IF e.object # ManagerObject THEN {OwnCard(e)} ELSE {}
BY DEF Cards

\* Appending an alarm adds its card.
LEMMA CardsOfAppend ==
    ASSUME NEW s \in Seq(Notification), NEW e \in Notification
    PROVE  Cards(Entries(Append(s, e))) = Cards(Entries(s)) \cup Cards({e})
<1>1. /\ Append(s, e) \in Seq(Notification) /\ Len(Append(s, e)) = Len(s) + 1
      /\ Append(s, e)[Len(s) + 1] = e
      /\ \A k \in 1..Len(s) : Append(s, e)[k] = s[k]
  BY AppendProperties
<1>2. Len(s) \in Nat /\ DOMAIN s = 1..Len(s) /\ DOMAIN Append(s, e) = 1..(Len(s) + 1)
  BY <1>1, LenProperties
<1>3. Entries(Append(s, e)) = Entries(s) \cup {e}
  BY <1>1, <1>2 DEF Entries
<1> QED BY <1>3, CardsOfUnion

\* Removing the alarm of an identity takes its card, and no other, off.
LEMMA CardsOfRemove ==
    ASSUME NEW s \in Seq(Notification), NEW i \in 1..Len(s), OneAlarmPerIdentity(s)
    PROVE  Cards(Entries(RemoveAlarm(s, i))) = Without(Cards(Entries(s)), s[i])
<1> DEFINE r == RemoveAlarm(s, i)
           old(k) == IF k < i THEN k ELSE k + 1
           new(k) == IF k < i THEN k ELSE k - 1
<1>0. Len(s) \in Nat /\ DOMAIN s = 1..Len(s) /\ i \in Nat
  BY LenProperties
<1>1. /\ r \in Seq(Notification) /\ Len(r) = Len(s) - 1
      /\ \A k \in 1..(Len(s) - 1) : r[k] = IF k < i THEN s[k] ELSE s[k + 1]
  BY RemoveAlarmProperties
<1> HIDE DEF r
<1>2. DOMAIN r = 1..(Len(s) - 1)
  BY <1>1, LenProperties
<1>3. \A k \in DOMAIN r : old(k) \in DOMAIN s /\ old(k) # i /\ r[k] = s[old(k)]
  BY <1>0, <1>1, <1>2
<1>4. \A k \in DOMAIN s \ {i} : new(k) \in DOMAIN r /\ s[k] = r[new(k)]
  BY <1>0, <1>1, <1>2
<1> HIDE DEF old, new
<1>5. Entries(r) = {s[k] : k \in DOMAIN s \ {i}}
  BY <1>3, <1>4 DEF Entries
<1>6. \A k \in DOMAIN s : s[k].object # ManagerObject =>
         (k # i <=> ~SameAlarm(s[k], s[i]))
  BY <1>0 DEF OneAlarmPerIdentity, SameAlarm
<1>7. ASSUME NEW d \in Cards(Entries(r)) PROVE d \in Without(Cards(Entries(s)), s[i])
  <2>1. PICK k \in DOMAIN s \ {i} : s[k].object # ManagerObject /\ d = OwnCard(s[k])
    BY <1>5 DEF Cards
  <2> QED BY <1>6, <2>1 DEF Without, Cards, Entries, OwnCard, SameAlarm
<1>8. ASSUME NEW d \in Without(Cards(Entries(s)), s[i]) PROVE d \in Cards(Entries(r))
  <2>1. PICK k \in DOMAIN s : s[k].object # ManagerObject /\ d = OwnCard(s[k])
    BY DEF Without, Cards, Entries
  <2>2. k # i
    BY <2>1 DEF Without, OwnCard
  <2> QED BY <1>5, <2>1, <2>2 DEF Cards
<1>9. Cards(Entries(r)) = Without(Cards(Entries(s)), s[i])
  BY <1>7, <1>8
<1> QED BY <1>9 DEF r

\* The cards of an identity on a board.
Of(board, e) == {d \in board : d.object = e.object /\ d.problem = e.problem}

\* An application's alarm in the table has exactly one card.
LEMMA CardsOfMatch ==
    ASSUME NEW s \in Seq(Notification), NEW i \in DOMAIN s, OneAlarmPerIdentity(s),
           NEW m, SameAlarm(s[i], m), m.object # ManagerObject
    PROVE  Of(Cards(Entries(s)), m) = {OwnCard(s[i])}
<1>1. OwnCard(s[i]) \in Of(Cards(Entries(s)), m)
  BY DEF Of, Cards, Entries, OwnCard, SameAlarm
<1>2. ASSUME NEW d \in Of(Cards(Entries(s)), m) PROVE d = OwnCard(s[i])
  <2>1. PICK j \in DOMAIN s : s[j].object # ManagerObject /\ d = OwnCard(s[j])
    BY DEF Of, Cards, Entries
  <2>2. SameAlarm(s[j], s[i])
    BY <2>1 DEF Of, OwnCard, SameAlarm
  <2> QED BY <2>1, <2>2 DEF OneAlarmPerIdentity
<1> QED BY <1>1, <1>2

\* An alarm that is not in the table has none, nor has one of the manager's.
LEMMA CardsOfUnmatched ==
    ASSUME NEW s, NEW m, ~IsMatchFound(s, m) \/ m.object = ManagerObject
    PROVE  Of(Cards(Entries(s)), m) = {}
BY DEF Of, Cards, Entries, OwnCard, IsMatchFound, SameAlarm

\* Ending the raise delay of an alarm shows its card.
LEMMA CardsOfReveal ==
    ASSUME NEW s \in Seq(Notification), NEW i \in DOMAIN s, OneAlarmPerIdentity(s),
           s[i].object # ManagerObject
    PROVE  Cards(Entries([s EXCEPT ![i].raiseDelay = 0]))
             = Without(Cards(Entries(s)), s[i])
                  \cup {[OwnCard(s[i]) EXCEPT !.face = "up"]}
<1> DEFINE r == [s EXCEPT ![i].raiseDelay = 0]
<1>0. s \in [1..Len(s) -> Notification] /\ DOMAIN s = 1..Len(s)
  BY LenProperties
<1>1. /\ DOMAIN r = DOMAIN s
      /\ \A k \in DOMAIN s \ {i} : r[k] = s[k]
      /\ r[i] = [s[i] EXCEPT !.raiseDelay = 0]
  BY <1>0
<1> HIDE DEF r
<1>2. OwnCard(r[i]) = [OwnCard(s[i]) EXCEPT !.face = "up"] /\ r[i].object # ManagerObject
  <2>1. s[i] \in Notification
    BY <1>0
  <2>2. /\ r[i].object = s[i].object /\ r[i].problem = s[i].problem
        /\ r[i].severity = s[i].severity /\ r[i].raiseDelay = 0
    BY <1>1, <2>1 DEF Notification
  <2> QED BY <2>2 DEF OwnCard
<1>6. \A k \in DOMAIN s : s[k].object # ManagerObject =>
         (k # i <=> ~SameAlarm(s[k], s[i]))
  BY DEF OneAlarmPerIdentity, SameAlarm
<1>7. ASSUME NEW d \in Cards(Entries(r))
      PROVE  d \in Without(Cards(Entries(s)), s[i]) \cup {OwnCard(r[i])}
  <2>1. PICK k \in DOMAIN s : r[k].object # ManagerObject /\ d = OwnCard(r[k])
    BY <1>1 DEF Cards, Entries
  <2>2. CASE k = i
    BY <2>1, <2>2
  <2>3. CASE k # i
    <3>1. s[k].object # ManagerObject /\ d = OwnCard(s[k]) /\ ~SameAlarm(s[k], s[i])
      BY <1>1, <1>6, <2>1, <2>3
    <3> QED BY <3>1 DEF Without, Cards, Entries, OwnCard, SameAlarm
  <2> QED BY <2>2, <2>3
<1>8. ASSUME NEW d \in Without(Cards(Entries(s)), s[i]) PROVE d \in Cards(Entries(r))
  <2>1. PICK k \in DOMAIN s : s[k].object # ManagerObject /\ d = OwnCard(s[k])
    BY DEF Without, Cards, Entries
  <2>2. k # i
    BY <2>1 DEF Without, OwnCard
  <2> QED BY <1>1, <2>1, <2>2 DEF Cards, Entries
<1>9. OwnCard(r[i]) \in Cards(Entries(r))
  BY <1>1, <1>2 DEF Cards, Entries
<1>10. Cards(Entries(r)) = Without(Cards(Entries(s)), s[i]) \cup {OwnCard(r[i])}
  BY <1>7, <1>8, <1>9
<1> QED BY <1>2, <1>10 DEF r

-------------------------------------------------------------------------------
(* Goroutines. *)

\* Where the steps without an Acquire lead, that of the raise apart.
LEMMA ProceedEnds ==
    ASSUME TypeOK, NEW h \in Handlers, Proceed(h), ~Raise(h), ~RaiseOverLimit(h)
    PROVE  handler'[h].pc \notin {"waiting", "matched", "raiseDelay", "revealing",
                                  "clearDelay", "clearing"}
<1> USE DEF TypeOK, Local
<1>0. CASE SuppressDuplicate(h) \/ Replace(h) \/ Reveal(h)
  <2> HIDE DEF TypeOK
  <2>1. handler'[h].pc \in {"idle", "raising", "history"}
    BY <1>0, MatchedMoves, TypeSplit
  <2> QED BY <2>1
<1>1. CASE Panicking(h)
  <2>1. handler'[h].pc \in {"idle", "stuck"}
    BY <1>1, PanickingPanics
  <2> QED BY <2>1
<1>2. CASE Clear(h) \/ ClearOverLimit(h)
  BY <1>2 DEF Clear, ClearOverLimit, Goto
<1>3. CASE ClearDone(h) \/ Post(h)
  BY <1>3 DEF ClearDone, Post, Return, Idle
<1>4. CASE CheckHistory(h)
  <2>1. PICK label \in {"thresholdId", "historyLoad"} : Goto(h, label)
    BY <1>4 DEF CheckHistory
  <2> QED BY <2>1 DEF Goto
<1>5. CASE LoadId(h) \/ StoreId(h) \/ LoadActive(h) \/ StoreActive(h)
  BY <1>5 DEF LoadId, StoreId, LoadActive, StoreActive, Goto
<1>6. CASE LoadHistory(h)
  BY <1>6 DEF LoadHistory
<1>7. CASE StoreThresholdHistory(h) \/ StoreHistory(h) \/ Persist(h)
  <2>1. CASE StoreThresholdHistory(h) \/ Persist(h)
    BY <2>1 DEF StoreThresholdHistory, Persist, Goto
  <2>2. CASE StoreHistory(h)
    BY <2>2 DEF StoreHistory, Idle
  <2> QED BY <1>7, <2>1, <2>2
<1> QED BY <1>0, <1>1, <1>2, <1>3, <1>4, <1>5, <1>6, <1>7 DEF Proceed, Panicking

\* What a goroutine remembers of its message is true of it.
LEMMA MessagesStep ==
    ASSUME TypeOK, IdentityInv, MessagesKept, [Next]_vars
    PROVE  MessagesKept'
<1> USE DEF TypeOK, Local
<1>1. ASSUME NEW h \in Handlers, NEW m \in Requests, Submit(h, m) PROVE MessagesKept'
  BY <1>1 DEF Submit, Idle, MessagesKept
<1>2. CASE Environment \/ Done \/ UNCHANGED vars
  <2>1. UNCHANGED handler
    BY <1>2 DEF Environment, SetAlarmDefinition, DeleteAlarmDefinition, SetAlarmConfig,
       ConfigChangeCB, SetLimits, Done, vars
  <2> QED BY <2>1 DEF MessagesKept
<1>3. ASSUME NEW h \in Handlers, Acquire(h) \/ Proceed(h),
             /\ handler'[h].pc \in {"clearDelay", "clearing"} => handler'[h].m.action = "CLEAR"
             /\ handler'[h].pc = "matched" => handler'[h].m.action = "RAISE"
             /\ handler'[h].pc \in {"raiseDelay", "revealing"} =>
                   handler'[h].m.object # ManagerObject
      PROVE  MessagesKept'
  <2>1. \A k \in Handlers \ {h} : handler'[k] = handler[k]
    BY <1>3, OthersUntouched
  <2> HIDE DEF TypeOK
  <2> QED BY <1>3, <2>1 DEF MessagesKept
<1>4. ASSUME NEW h \in Handlers, Acquire(h) PROVE MessagesKept'
  <2>1. CASE Suppress(h) \/ RaiseAbandoned(h) \/ ClearAbandoned(h)
    <3>1. handler'[h].pc = "idle"
      BY <2>1 DEF Suppress, RaiseAbandoned, ClearAbandoned, Return, Idle
    <3> QED BY <1>3, <1>4, <3>1
  <2>2. CASE AcceptRaise(h)
    <3>1. /\ handler'[h].pc \in {"raising", "matched"} /\ handler[h].m.action = "RAISE"
          /\ handler'[h].m = [handler[h].m EXCEPT
                !.raiseDelay = definitions[handler[h].m.problem].raiseDelay]
      <4> HIDE DEF TypeOK
      <4> QED BY <2>2, AcceptRaiseMoves, TypeSplit
    <3>2. handler'[h].m.action = "RAISE"
      BY <3>1 DEF Notification
    <3> QED BY <1>3, <1>4, <3>1, <3>2
  <2>4. CASE RaiseDelayOver(h)
    <3>1. /\ handler[h].pc = "raiseDelay" /\ handler'[h].pc = "revealing"
          /\ handler'[h].m = handler[h].m
      <4> HIDE DEF TypeOK
      <4> QED BY <2>4, RaiseDelayOverMoves, TypeSplit
    <3> QED BY <1>3, <1>4, <3>1 DEF MessagesKept
  <2>3. CASE AcceptClear(h) \/ ClearDelayOver(h)
    <3> PICK i \in DOMAIN activeAlarms : \E label \in {"clearDelay", "clearing"} :
             handler' = [handler EXCEPT ![h].pc = label, ![h].idx = i]
      BY <2>3 DEF AcceptClear, ClearDelayOver
    <3> PICK label \in {"clearDelay", "clearing"} :
             handler' = [handler EXCEPT ![h].pc = label, ![h].idx = i]
      OBVIOUS
    <3>1. handler[h].m.action = "CLEAR"
      BY <2>3 DEF AcceptClear, ClearDelayOver, At, MessagesKept
    <3>2. handler'[h].m.action = "CLEAR" /\ handler'[h].pc = label
      BY <3>1
    <3> QED BY <1>3, <1>4, <3>2
  <2> QED BY <1>4, <2>1, <2>2, <2>3, <2>4 DEF Acquire
<1>5. ASSUME NEW h \in Handlers, Proceed(h) PROVE MessagesKept'
  <2>1. CASE Raise(h) \/ RaiseOverLimit(h)
    <3>1. handler[h].m.object # ManagerObject /\ AfterRaising(h, uniqueAlarmId + 1)
      BY <2>1 DEF Raise, RaiseOverLimit, At, IdentityInv, RaiseUnmatched
    <3>2. handler'[h].m = [handler[h].m EXCEPT !.id = uniqueAlarmId + 1]
          /\ handler'[h].pc \in {"raiseDelay", "history"}
      BY <3>1 DEF AfterRaising
    <3>3. handler'[h].m.object # ManagerObject
      BY <3>1, <3>2 DEF Notification
    <3> QED BY <1>3, <1>5, <3>2, <3>3
  <2>2. CASE ~(Raise(h) \/ RaiseOverLimit(h))
    <3>1. handler'[h].pc
             \notin {"matched", "raiseDelay", "revealing", "clearDelay", "clearing"}
      BY <1>5, <2>2, ProceedEnds
    <3> QED BY <1>3, <1>5, <3>1
  <2> QED BY <2>1, <2>2
<1> QED BY <1>1, <1>2, <1>4, <1>5 DEF Next

-------------------------------------------------------------------------------
(* The board and the calls in a step of one goroutine. *)

\* A step leaves the other goroutines alone.
OnlyStep(h) ==
    /\ handler' \in [Handlers -> Local]
    /\ \A k \in Handlers \ {h} : handler'[k] = handler[k]

\* A goroutine at work is seen as a call.
LEMMA CallAtWork ==
    ASSUME TypeOK, NEW h \in Handlers, handler[h].pc # "idle"
    PROVE  /\ Call[h] = [what |-> What(handler[h].m), status |-> Status(handler[h])]
           /\ Call[h] # NoCall
           /\ Call[h].what = What(handler[h].m)
           /\ Call[h].status = Status(handler[h])
<1>1. What(handler[h].m) \in Message
  BY DEF TypeOK, Local, Notification, What, Message
<1>2. Status(handler[h]) \in {"open", "accepted", "hidden", "done"}
  BY DEF Status
<1>3. Call[h] = [what |-> What(handler[h].m), status |-> Status(handler[h])]
  BY DEF Call, CallOf
<1>4. [what |-> What(handler[h].m), status |-> Status(handler[h])]
         \in [what : Message, status : {"open", "accepted", "hidden", "done"}]
  BY <1>1, <1>2
<1> QED BY <1>3, <1>4, RefinementAssumption

\* A step of one goroutine changes at most its call.
LEMMA CallStep ==
    ASSUME NEW h \in Handlers, OnlyStep(h)
    PROVE  Call' = [Call EXCEPT ![h] = CallOf(handler'[h])]
BY DEF Call, OnlyStep

\* The goroutine that returns ends its call.
LEMMA CallEnds ==
    ASSUME NEW h \in Handlers, OnlyStep(h), handler'[h].pc = "idle"
    PROVE  Abstract!End(h)
BY CallStep DEF Abstract!End, CallOf

\* One that goes on is still seen as the same call, with the status it has then.
LEMMA CallBecomes ==
    ASSUME TypeOK, NEW h \in Handlers, OnlyStep(h),
           handler[h].pc # "idle", handler'[h].pc # "idle",
           What(handler'[h].m) = What(handler[h].m)
    PROVE  /\ Abstract!Become(h, Status(handler'[h]))
           /\ Status(handler'[h]) = Status(handler[h]) => UNCHANGED Call
<1>1. Call' = [Call EXCEPT ![h] = [what |-> What(handler[h].m),
                                  status |-> Status(handler'[h])]]
  BY CallStep DEF CallOf
<1>2. Call[h] = [what |-> What(handler[h].m), status |-> Status(handler[h])]
  BY CallAtWork
<1>3. [Call[h] EXCEPT !.status = Status(handler'[h])]
         = [what |-> What(handler[h].m), status |-> Status(handler'[h])]
  BY <1>2
<1>4. Abstract!Become(h, Status(handler'[h]))
  BY <1>1, <1>3 DEF Abstract!Become
<1>5. Status(handler'[h]) = Status(handler[h]) => UNCHANGED Call
  BY <1>1, <1>2 DEF Call
<1> QED BY <1>4, <1>5

\* The board is what the table shows when no goroutine is inside a raise.
LEMMA BoardIsTable ==
    ASSUME \A h \in Handlers : handler[h].pc # "raising"
    PROVE  Board = Cards(Entries(activeAlarms))
<1>1. BeingRaised = {}
  BY DEF BeingRaised
<1> QED BY <1>1 DEF Board

\* Inside a raise, the alarm to be appended counts as well.
LEMMA BoardInRaise ==
    ASSUME NEW h \in Handlers, handler[h].pc = "raising",
           \A k \in Handlers \ {h} : handler[k].pc # "raising"
    PROVE  Board = Cards(Entries(activeAlarms)) \cup Cards({handler[h].m})
<1>1. BeingRaised = {handler[h].m}
  BY DEF BeingRaised
<1> QED BY <1>1, CardsOfUnion DEF Board

\* Nothing moves on the board when the table is left alone outside a raise.
LEMMA BoardUntouched ==
    ASSUME NEW h \in Handlers, OnlyStep(h), UNCHANGED activeAlarms,
           handler[h].pc # "raising", handler'[h].pc # "raising"
    PROVE  UNCHANGED Board
<1>1. BeingRaised' = BeingRaised
  BY DEF BeingRaised, OnlyStep
<1> QED BY <1>1 DEF Board, Cards, Entries

\* Nobody else is inside the mutex that h takes or holds.
LEMMA AloneInside ==
    ASSUME LockDiscipline, NEW h \in Handlers, mutex \in {Free, h}
    PROVE  \A k \in Handlers \ {h} : handler[k].pc # "raising"
BY ManagerAssumption DEF LockDiscipline, Critical

\* The problems that have a definition do not change when a definition takes an id.
LEMMA KnownUntouched ==
    ASSUME TypeOK, NEW p \in Problems, NEW id \in Nat, Defined(p),
           definitions' = [definitions EXCEPT ![p].alarmId = id]
    PROVE  UNCHANGED Known
<1>1. definitions[p] \in Definition
  BY DEF TypeOK, Defined
<1>2. [definitions[p] EXCEPT !.alarmId = id] \in Definition
  BY <1>1 DEF Definition
<1>3. definitions'[p] # NoDefinition
  BY <1>2, ManagerAssumption DEF TypeOK
<1>4. \A q \in Problems : definitions'[q] # NoDefinition <=> definitions[q] # NoDefinition
  BY <1>3 DEF TypeOK, Defined
<1> QED BY <1>4 DEF Known, Defined

-------------------------------------------------------------------------------
(* Every step is one of the board, or none. *)

BoardInv == TypeOK /\ LockDiscipline /\ GeneratesOwn /\ IdentityInv /\ MessagesKept

\* The cards an abstract call is about are those of its message.
LEMMA CardsOfCall ==
    ASSUME TypeOK, NEW h \in Handlers, handler[h].pc # "idle"
    PROVE  Abstract!Cards(Call[h].what) = Of(Board, handler[h].m)
<1>1. Call[h].what = What(handler[h].m)
  BY CallAtWork
<1>2. /\ Call[h].what.object = handler[h].m.object
      /\ Call[h].what.problem = handler[h].m.problem
  BY <1>1 DEF What
<1> QED BY <1>2 DEF Abstract!Cards, Of

\* A message that arrives begins a call.
LEMMA SubmitBegins ==
    ASSUME TypeOK, TypeOK', NEW h \in Handlers, NEW m \in Requests, Submit(h, m)
    PROVE  Abstract!Begin(h, m)
<1>1. handler' = [handler EXCEPT ![h] = [Idle EXCEPT !.pc = "waiting", !.m = Notify(m)]]
  BY DEF Submit
<1>2. OnlyStep(h) /\ handler'[h].pc = "waiting" /\ handler'[h].m = Notify(m)
  BY <1>1 DEF TypeOK, OnlyStep, Idle
<1>3. What(handler'[h].m) = m
  BY <1>2, ManagerAssumption DEF What, Notify, Message
<1>4. Call' = [Call EXCEPT ![h] = [what |-> m, status |-> "open"]]
  BY <1>2, <1>3, CallStep DEF CallOf, Status
<1>5. Call[h] = NoCall
  BY DEF Submit, At, Call, CallOf
<1>6. UNCHANGED Board
  BY <1>2, BoardUntouched DEF Submit, At, table
<1>7. UNCHANGED Known
  BY DEF Submit, Known, Defined
<1> QED BY <1>4, <1>5, <1>6, <1>7 DEF Abstract!Begin

\* Steps that change neither the table nor the definitions, outside a raise.
LEMMA QuietBoard ==
    ASSUME NEW h \in Handlers, OnlyStep(h), UNCHANGED <<activeAlarms, definitions>>,
           handler[h].pc # "raising", handler'[h].pc # "raising"
    PROVE  UNCHANGED <<Board, Known>>
BY BoardUntouched DEF Known, Defined

\* A message that is suppressed had nothing to do, a raise or clear whose alarm is
\* gone after its delay likewise.
LEMMA NothingSteps ==
    ASSUME BoardInv, TypeOK', NEW h \in Handlers,
           Suppress(h) \/ RaiseAbandoned(h) \/ ClearAbandoned(h)
    PROVE  Abstract!Nothing(h) \/ Abstract!GiveUp(h)
<1> USE DEF BoardInv
<1> DEFINE m == handler[h].m
<1>1. /\ handler[h].pc \in {"waiting", "raiseDelay", "clearDelay"} /\ mutex = Free
      /\ handler' = [handler EXCEPT ![h] = Idle]
      /\ UNCHANGED <<activeAlarms, definitions>>
  BY DEF Suppress, RaiseAbandoned, ClearAbandoned, At, Return, table, setting
<1>2. OnlyStep(h) /\ handler'[h].pc = "idle"
  BY <1>1 DEF TypeOK, OnlyStep, Idle
<1>3. Abstract!End(h) /\ UNCHANGED <<Board, Known>>
  BY <1>1, <1>2, CallEnds, QuietBoard
<1>4. Board = Cards(Entries(activeAlarms))
  BY <1>1, BoardIsTable, ManagerAssumption DEF LockDiscipline, Critical
<1>5. Abstract!Cards(Call[h].what) = Of(Cards(Entries(activeAlarms)), m)
  BY <1>1, <1>4, CardsOfCall
<1>6. /\ Call[h] # NoCall /\ Call[h].status = Status(handler[h])
      /\ Call[h].what = What(m)
  BY <1>1, CallAtWork
<1>7. CASE Suppress(h)
  <2>1. Abstract!Has(h, "open")
    BY <1>6, <1>7 DEF Abstract!Has, Suppress, At, Status
  <2>2. CASE ~Defined(m.problem)
    <3>1. Call[h].what.problem \notin Known
      BY <1>6, <2>2 DEF What, Known
    <3> QED BY <1>3, <2>1, <3>1 DEF Abstract!Nothing
  <2>4. CASE m.action = "CLEAR" /\ ~IsMatchFound(activeAlarms, m)
    <3>1. Abstract!Cards(Call[h].what) = {} /\ Call[h].what.action = "CLEAR"
      BY <1>5, <1>6, <2>4, CardsOfUnmatched DEF What
    <3> QED BY <1>3, <2>1, <3>1 DEF Abstract!Nothing
  <2>5. CASE m.action \notin {"RAISE", "CLEAR"}
    <3>1. Call[h].what.action \notin {"RAISE", "CLEAR"}
      BY <1>6, <2>5 DEF What
    <3> QED BY <1>3, <2>1, <3>1 DEF Abstract!Nothing
  <2> QED BY <1>7, <2>2, <2>4, <2>5 DEF Suppress
<1>8. CASE RaiseAbandoned(h)
  <2>1. Abstract!Has(h, "hidden")
    BY <1>6, <1>8 DEF Abstract!Has, RaiseAbandoned, At, Status
  <2>2. Abstract!Cards(Call[h].what) = {}
    BY <1>5, <1>8, CardsOfUnmatched DEF RaiseAbandoned
  <2> QED BY <1>3, <2>1, <2>2 DEF Abstract!GiveUp
<1>9. CASE ClearAbandoned(h)
  <2>1. Abstract!Has(h, "open")
    BY <1>6, <1>9 DEF Abstract!Has, ClearAbandoned, At, Status
  <2>2. Abstract!Cards(Call[h].what) = {}
    BY <1>5, <1>9, CardsOfUnmatched DEF ClearAbandoned
  <2>3. Call[h].what.action = "CLEAR"
    BY <1>6, <1>9 DEF What, MessagesKept, ClearAbandoned, At
  <2> QED BY <1>3, <2>1, <2>2, <2>3 DEF Abstract!Nothing
<1> QED BY <1>7, <1>8, <1>9

\* A goroutine that comes to append its alarm, those of its identity being out of the
\* table, puts up the card in their place, although the alarm is appended in the next step.
LEMMA RaisesCard ==
    ASSUME BoardInv, TypeOK', NEW h \in Handlers, OnlyStep(h),
           handler[h].pc \notin {"idle", "raising"}, handler'[h].pc = "raising",
           \A k \in Handlers \ {h} : handler[k].pc # "raising",
           handler[h].m.object # ManagerObject, What(handler'[h].m) = What(handler[h].m),
           Cards(Entries(activeAlarms')) = Board \ Of(Board, handler[h].m),
           \A d \in Of(Board, handler[h].m) : d.severity # handler[h].m.severity,
           UNCHANGED Known, Abstract!Acceptable(h) \/ Abstract!Has(h, "accepted")
    PROVE  \E face \in {"up", "down"} : Abstract!Raise(h, face)
<1> USE DEF BoardInv
<1> DEFINE m == handler[h].m
           n == handler'[h].m
           face == IF n.raiseDelay > 0 THEN "down" ELSE "up"
           card == [object |-> m.object, problem |-> m.problem,
                    severity |-> m.severity, face |-> face]
<1>1. /\ n.object = m.object /\ n.problem = m.problem /\ n.severity = m.severity
  BY DEF What
<1>2. Board' = Cards(Entries(activeAlarms')) \cup {card}
  <2>1. BeingRaised' = {n}
    <3>1. \A k \in Handlers \ {h} : handler'[k].pc # "raising"
      BY DEF OnlyStep
    <3> QED BY <3>1 DEF BeingRaised
  <2>2. Cards({n}) = {card}
    BY <1>1, CardsOfOne DEF OwnCard
  <2> QED BY <2>1, <2>2, CardsOfUnion DEF Board, Entries, Cards
<1>3. /\ Call[h].what = What(m) /\ Abstract!Cards(Call[h].what) = Of(Board, m)
  BY CallAtWork, CardsOfCall
<1>4. Abstract!Become(h, IF face = "down" THEN "hidden" ELSE "done")
  <2>1. Status(handler'[h]) = IF face = "down" THEN "hidden" ELSE "done"
    BY DEF Status
  <2>2. Abstract!Become(h, Status(handler'[h]))
    BY CallBecomes
  <2> QED BY <2>1, <2>2
<1>5. Board' = (Board \ Abstract!Cards(Call[h].what)) \cup
         {[object |-> Call[h].what.object, problem |-> Call[h].what.problem,
           severity |-> Call[h].what.severity, face |-> face]}
  BY <1>2, <1>3 DEF What
<1>6. \A d \in Abstract!Cards(Call[h].what) : d.severity # Call[h].what.severity
  BY <1>3 DEF What
<1>7. Abstract!Raise(h, face)
  BY <1>4, <1>5, <1>6 DEF Abstract!Raise
<1> QED BY <1>7

\* A raise without a match puts up its card, one with a match is accepted.
LEMMA AcceptRaiseRaises ==
    ASSUME BoardInv, TypeOK', NEW h \in Handlers, AcceptRaise(h)
    PROVE  Abstract!Accept(h) \/ \E face \in {"up", "down"} : Abstract!Raise(h, face)
<1> USE DEF BoardInv
<1> DEFINE m == handler[h].m
<1>1. /\ handler[h].pc = "waiting" /\ mutex = Free
      /\ m.action = "RAISE" /\ Defined(m.problem) /\ m \in Notification
      /\ handler'[h].pc \in {"raising", "matched"}
      /\ handler'[h].m = [m EXCEPT !.raiseDelay = definitions[m.problem].raiseDelay]
      /\ handler'[h].pc = "raising" => ~IsMatchFound(activeAlarms, m)
  BY AcceptRaiseMoves, TypeSplit DEF DataOK, Local
<1>2. OnlyStep(h) /\ UNCHANGED <<activeAlarms, definitions>>
  BY AcceptRaiseMoves, TypeSplit DEF OnlyStep, AcceptRaise, table, setting
<1>3. m.object # ManagerObject
  BY <1>1 DEF IdentityInv, ClientsRaiseOwn
<1>4. What(handler'[h].m) = What(m)
  <2>1. LET n == handler'[h].m
        IN  /\ n.object = m.object /\ n.problem = m.problem
            /\ n.severity = m.severity /\ n.action = m.action
    BY <1>1 DEF Notification
  <2> QED BY <2>1 DEF What
<1>5. /\ Abstract!Acceptable(h) /\ UNCHANGED Known
  <2>1. Abstract!Has(h, "open") /\ Call[h].what = What(m)
    BY <1>1, CallAtWork DEF Abstract!Has, Status
  <2>2. Call[h].what.action = "RAISE" /\ Call[h].what.problem \in Known
    BY <1>1, <2>1 DEF What, Known, Notification
  <2>3. UNCHANGED Known
    BY <1>2 DEF Known, Defined
  <2> QED BY <2>1, <2>2, <2>3 DEF Abstract!Acceptable
<1>6. CASE handler'[h].pc = "matched"
  <2>1. UNCHANGED Board
    BY <1>1, <1>2, <1>6, BoardUntouched
  <2>2. Status(handler'[h]) = "accepted"
    BY <1>6 DEF Status
  <2>3. Abstract!Become(h, "accepted")
    BY <1>1, <1>2, <1>4, <1>6, <2>2, CallBecomes
  <2> QED BY <1>5, <2>1, <2>3 DEF Abstract!Accept
<1>7. CASE handler'[h].pc = "raising"
  <2>1. \A k \in Handlers \ {h} : handler[k].pc # "raising"
    BY <1>1, AloneInside
  <2>2. Board = Cards(Entries(activeAlarms))
    BY <1>1, BoardIsTable, ManagerAssumption DEF LockDiscipline, Critical
  <2>3. Of(Board, m) = {} /\ Cards(Entries(activeAlarms')) = Board \ Of(Board, m)
    BY <1>1, <1>2, <1>7, <2>2, CardsOfUnmatched DEF Entries, Cards
  <2> QED BY <1>1, <1>2, <1>3, <1>4, <1>5, <1>7, <2>1, <2>3, RaisesCard
<1> QED BY <1>1, <1>6, <1>7

\* A raise whose match has its severity has nothing to do.
LEMMA DuplicateIsNothing ==
    ASSUME BoardInv, TypeOK', NEW h \in Handlers, SuppressDuplicate(h)
    PROVE  Abstract!Nothing(h)
<1> USE DEF BoardInv
<1> DEFINE m == handler[h].m
           i == handler[h].idx
<1>1. /\ handler[h].pc = "matched" /\ handler'[h].pc = "idle" /\ mutex = h
      /\ UNCHANGED <<activeAlarms, definitions>> /\ OnlyStep(h) /\ i \in DOMAIN activeAlarms
  BY MatchedMoves, TypeSplit DEF OnlyStep, setting
<1>2. Abstract!End(h) /\ UNCHANGED <<Board, Known>>
  BY <1>1, CallEnds, QuietBoard
<1>3. Board = Cards(Entries(activeAlarms))
  BY <1>1, BoardIsTable, AloneInside
<1>4. /\ SameAlarm(activeAlarms[i], m) /\ m.object # ManagerObject
      /\ activeAlarms[i].severity = m.severity
  BY <1>1 DEF IdentityInv, IndexTargetsOwnAlarm, ClientsRaiseOwn, SuppressDuplicate, Matched
<1>5. Of(Board, m) = {OwnCard(activeAlarms[i])}
  BY <1>1, <1>3, <1>4, CardsOfMatch DEF TypeOK, IdentityInv, UniqueIdentity
<1>6. OwnCard(activeAlarms[i]).severity = m.severity
  BY <1>4 DEF OwnCard
<1>7. /\ Abstract!Has(h, "accepted") /\ Call[h].what = What(m)
      /\ Abstract!Cards(Call[h].what) = Of(Board, m)
  BY <1>1, CallAtWork, CardsOfCall DEF Abstract!Has, Status
<1>8. \E d \in Abstract!Cards(Call[h].what) : d.severity = Call[h].what.severity
  BY <1>5, <1>6, <1>7 DEF What
<1> QED BY <1>2, <1>7, <1>8 DEF Abstract!Nothing

\* One whose match has another severity takes its place.
LEMMA ReplaceRaises ==
    ASSUME BoardInv, TypeOK', NEW h \in Handlers, Replace(h)
    PROVE  \E face \in {"up", "down"} : Abstract!Raise(h, face)
<1> USE DEF BoardInv
<1> DEFINE m == handler[h].m
           i == handler[h].idx
<1>1. /\ handler[h].pc = "matched" /\ handler'[h].pc = "raising" /\ handler'[h].m = m
      /\ UNCHANGED definitions /\ OnlyStep(h) /\ i \in DOMAIN activeAlarms
      /\ activeAlarms' = RemoveAlarm(activeAlarms, i)
  BY MatchedMoves, TypeSplit DEF OnlyStep, setting
<1>2. mutex = h
  BY <1>1 DEF LockDiscipline, Critical
<1>3. \A k \in Handlers \ {h} : handler[k].pc # "raising"
  BY <1>2, AloneInside
<1>4. Board = Cards(Entries(activeAlarms))
  BY <1>1, <1>3, BoardIsTable
<1>5. /\ SameAlarm(activeAlarms[i], m) /\ m.object # ManagerObject
      /\ activeAlarms[i].severity # m.severity
  BY <1>1 DEF IdentityInv, IndexTargetsOwnAlarm, ClientsRaiseOwn, Replace, Matched
<1>6. Cards(Entries(activeAlarms')) = Board \ Of(Board, m)
  <2>1. i \in 1..Len(activeAlarms)
    BY <1>1, LenProperties DEF TypeOK
  <2>2. Cards(Entries(activeAlarms')) = Without(Board, activeAlarms[i])
    BY <1>1, <1>4, <2>1, CardsOfRemove DEF TypeOK, IdentityInv, UniqueIdentity
  <2>3. Without(Board, activeAlarms[i]) = Board \ Of(Board, m)
    BY <1>5 DEF Without, Of, SameAlarm
  <2> QED BY <2>2, <2>3
<1>7. \A d \in Of(Board, m) : d.severity # m.severity
  <2>1. Of(Board, m) = {OwnCard(activeAlarms[i])}
    BY <1>1, <1>4, <1>5, CardsOfMatch DEF TypeOK, IdentityInv, UniqueIdentity
  <2>2. OwnCard(activeAlarms[i]).severity # m.severity
    BY <1>5 DEF OwnCard
  <2> QED BY <2>1, <2>2
<1>8. Abstract!Has(h, "accepted") /\ UNCHANGED Known
  <2>1. Abstract!Has(h, "accepted")
    BY <1>1, CallAtWork DEF Abstract!Has, Status
  <2> QED BY <1>1, <2>1 DEF Known, Defined
<1> QED BY <1>1, <1>3, <1>5, <1>6, <1>7, <1>8, RaisesCard

\* A clear that waits for its delay, or that begins to clear, has done nothing yet.
LEMMA ClearWaits ==
    ASSUME BoardInv, TypeOK', NEW h \in Handlers, AcceptClear(h) \/ ClearDelayOver(h)
    PROVE  UNCHANGED <<Board, Call, Known>>
<1> USE DEF BoardInv
<1>1. /\ handler[h].pc \in {"waiting", "clearDelay"}
      /\ UNCHANGED <<activeAlarms, definitions>>
      /\ \E i \in DOMAIN activeAlarms : \E label \in {"clearDelay", "clearing"} :
            handler' = [handler EXCEPT ![h].pc = label, ![h].idx = i]
  BY DEF AcceptClear, ClearDelayOver, At, table, setting
<1> PICK i \in DOMAIN activeAlarms : \E label \in {"clearDelay", "clearing"} :
            handler' = [handler EXCEPT ![h].pc = label, ![h].idx = i]
  BY <1>1
<1> PICK label \in {"clearDelay", "clearing"} :
            handler' = [handler EXCEPT ![h].pc = label, ![h].idx = i]
  OBVIOUS
<1>2. OnlyStep(h) /\ handler'[h].pc = label /\ handler'[h].m = handler[h].m
  BY DEF TypeOK, OnlyStep, Local
<1>3. UNCHANGED <<Board, Known>>
  BY <1>1, <1>2, QuietBoard
<1>4. Status(handler'[h]) = Status(handler[h])
  BY <1>1, <1>2 DEF Status
<1>5. UNCHANGED Call
  BY <1>1, <1>2, <1>4, CallBecomes
<1> QED BY <1>3, <1>5

\* What is appended inside a raise is on the board already; the threshold alarm that a
\* full table causes is not for the board.
LEMMA RaiseAppends ==
    ASSUME BoardInv, TypeOK', NEW h \in Handlers, Raise(h) \/ RaiseOverLimit(h)
    PROVE  UNCHANGED <<Board, Call, Known>>
<1> USE DEF BoardInv
<1> DEFINE m == handler[h].m
           id == uniqueAlarmId + 1
           n == [m EXCEPT !.id = id]
           t == ThresholdAlarm(ActiveProblem, id + 1)
<1>1. /\ handler[h].pc = "raising" /\ mutex = h /\ m \in Notification /\ id \in Nat
      /\ m.object # ManagerObject
      /\ activeAlarms \in Seq(Notification)
  <2>0. handler[h].pc = "raising" /\ mutex = h
    <3>1. CASE Raise(h)
      BY <3>1 DEF Raise, At, Unlock
    <3>2. CASE RaiseOverLimit(h)
      BY <3>2 DEF RaiseOverLimit, At, Unlock
    <3> QED BY <3>1, <3>2
  <2>1. handler[h].pc = "raising" /\ mutex = h /\ activeAlarms \in Seq(Notification) /\ id \in Nat
    BY <2>0 DEF TypeOK
  <2>2. m \in Notification
    BY DEF TypeOK, Local
  <2>3. m.object # ManagerObject
    BY <2>1 DEF IdentityInv, RaiseUnmatched
  <2> QED BY <2>1, <2>2, <2>3
<1>2. /\ n \in Notification /\ n.object = m.object /\ n.problem = m.problem
      /\ n.severity = m.severity /\ n.raiseDelay = m.raiseDelay /\ n.action = m.action
  BY <1>1 DEF Notification
<1>3. handler' = [handler EXCEPT ![h].m.id = id, ![h].pc =
                     IF m.raiseDelay > 0 THEN "raiseDelay" ELSE "history"]
  BY DEF Raise, RaiseOverLimit, AfterRaising
<1>4. /\ OnlyStep(h) /\ handler'[h].m = n
      /\ handler'[h].pc = IF m.raiseDelay > 0 THEN "raiseDelay" ELSE "history"
  BY <1>3 DEF TypeOK, OnlyStep, Local
<1>5. Board = Cards(Entries(activeAlarms)) \cup {OwnCard(m)}
  BY <1>1, AloneInside, BoardInRaise, CardsOfOne
<1>6. OwnCard(n) = OwnCard(m)
  BY <1>2 DEF OwnCard
<1>7. Board' = Cards(Entries(activeAlarms'))
  <2>1. \A k \in Handlers : handler'[k].pc # "raising"
    BY <1>1, <1>4, AloneInside DEF OnlyStep
  <2>2. BeingRaised' = {}
    BY <2>1 DEF BeingRaised
  <2> QED BY <2>2 DEF Board, Entries
<1>8. UNCHANGED Call
  <2>1. Status(handler'[h]) = Status(handler[h])
    BY <1>1, <1>4 DEF Status
  <2>2. What(handler'[h].m) = What(handler[h].m)
    BY <1>2, <1>4 DEF What
  <2>3. handler[h].pc # "idle" /\ handler'[h].pc # "idle"
    BY <1>1, <1>4
  <2> QED BY <1>4, <2>1, <2>2, <2>3, CallBecomes
<1>9. CASE Raise(h)
  <2>1. activeAlarms' = Append(activeAlarms, n) /\ UNCHANGED definitions
    BY <1>9 DEF Raise, setting
  <2>3. UNCHANGED Known
    BY <2>1 DEF Known, Defined
  <2> HIDE DEF n
  <2>2. Cards(Entries(activeAlarms')) = Cards(Entries(activeAlarms)) \cup {OwnCard(n)}
    <3>1. Cards({n}) = {OwnCard(n)}
      BY <1>1, <1>2, CardsOfOne
    <3> QED BY <1>1, <1>2, <2>1, <3>1, CardsOfAppend
  <2> QED BY <1>5, <1>6, <1>7, <1>8, <2>2, <2>3
<1>10. CASE RaiseOverLimit(h)
  <2>1. /\ activeAlarms' = Append(Append(activeAlarms, t), n)
        /\ definitions' = [definitions EXCEPT ![ActiveProblem].alarmId = id + 1]
        /\ Defined(ActiveProblem)
    BY <1>10 DEF RaiseOverLimit
  <2>2. t \in Notification /\ t.object = ManagerObject /\ ActiveProblem \in Problems
    <3>1. id + 1 \in Nat /\ ActiveProblem \in Problems
      BY <1>1, ManagerAssumption
    <3>2. t \in Notification
      BY <2>1, <3>1, ThresholdTyped DEF TypeOK
    <3> QED BY <3>1, <3>2 DEF ThresholdAlarm
  <2> HIDE DEF t, n
  <2>3. Append(activeAlarms, t) \in Seq(Notification)
    BY <1>1, <2>2, AppendProperties
  <2>4. Cards(Entries(Append(activeAlarms, t))) = Cards(Entries(activeAlarms))
    <3>1. Cards({t}) = {}
      BY <2>2, CardsOfOne
    <3> QED BY <1>1, <2>2, <3>1, CardsOfAppend
  <2>5. Cards(Entries(activeAlarms')) = Cards(Entries(activeAlarms)) \cup {OwnCard(n)}
    <3>1. Cards({n}) = {OwnCard(n)}
      BY <1>1, <1>2, CardsOfOne
    <3> QED BY <1>2, <2>1, <2>3, <2>4, <3>1, CardsOfAppend
  <2>6. UNCHANGED Known
    <3>1. id + 1 \in Nat
      BY <1>1
    <3> QED BY <2>1, <2>2, <3>1, KnownUntouched
  <2> QED BY <1>5, <1>6, <1>7, <1>8, <2>5, <2>6
<1> QED BY <1>9, <1>10

\* The end of the raise delay alone changes nothing,
LEMMA RaiseDelayWaits ==
    ASSUME BoardInv, TypeOK', NEW h \in Handlers, RaiseDelayOver(h)
    PROVE  UNCHANGED <<Board, Call, Known>>
<1> USE DEF BoardInv
<1>1. /\ handler[h].pc = "raiseDelay" /\ handler'[h].pc = "revealing"
      /\ handler'[h].m = handler[h].m /\ OnlyStep(h)
      /\ UNCHANGED <<activeAlarms, definitions>>
  BY RaiseDelayOverMoves, TypeSplit DEF OnlyStep, RaiseDelayOver, table, setting
<1>2. UNCHANGED <<Board, Known>>
  BY <1>1, QuietBoard
<1>3. Status(handler'[h]) = Status(handler[h])
  BY <1>1 DEF Status
<1>4. UNCHANGED Call
  BY <1>1, <1>3, CallBecomes
<1> QED BY <1>2, <1>4

\* then the card of the message's alarm is turned.
LEMMA RevealReveals ==
    ASSUME BoardInv, TypeOK', NEW h \in Handlers, Reveal(h)
    PROVE  Abstract!Reveal(h)
<1> USE DEF BoardInv
<1> DEFINE m == handler[h].m
           i == handler[h].idx
<1>1. /\ handler[h].pc = "revealing" /\ mutex = h /\ m \in Notification
      /\ m.object # ManagerObject /\ UNCHANGED definitions
      /\ activeAlarms \in Seq(Notification) /\ OneAlarmPerIdentity(activeAlarms)
      /\ i \in DOMAIN activeAlarms /\ SameAlarm(activeAlarms[i], m)
      /\ activeAlarms' = [activeAlarms EXCEPT ![i].raiseDelay = 0]
  <2>1. /\ handler[h].pc = "revealing" /\ mutex = h /\ UNCHANGED definitions
        /\ i \in DOMAIN activeAlarms
        /\ activeAlarms' = [activeAlarms EXCEPT ![i].raiseDelay = 0]
    BY MatchedMoves, TypeSplit DEF setting
  <2>2. m.object # ManagerObject /\ SameAlarm(activeAlarms[i], m)
    BY <2>1 DEF MessagesKept, IdentityInv, IndexTargetsOwnAlarm
  <2>3. /\ activeAlarms \in Seq(Notification) /\ OneAlarmPerIdentity(activeAlarms)
        /\ m \in Notification
    BY DEF TypeOK, Local, IdentityInv, UniqueIdentity
  <2> QED BY <2>1, <2>2, <2>3
<1>2. /\ OnlyStep(h) /\ handler'[h].pc = "history"
      /\ handler'[h].m = [m EXCEPT !.raiseDelay = 0]
  BY MatchedMoves, TypeSplit DEF OnlyStep
<1>3. \A k \in Handlers : handler[k].pc # "raising" /\ handler'[k].pc # "raising"
  BY <1>1, <1>2, AloneInside DEF OnlyStep
<1>4. Board = Cards(Entries(activeAlarms))
  BY <1>3, BoardIsTable
<1>5. Board' = Cards(Entries(activeAlarms'))
  <2>1. BeingRaised' = {}
    BY <1>3 DEF BeingRaised
  <2> QED BY <2>1 DEF Board, Entries
<1>6. activeAlarms[i].object # ManagerObject
  BY <1>1 DEF SameAlarm
<1>7. Of(Board, m) = {OwnCard(activeAlarms[i])}
  BY <1>1, <1>4, CardsOfMatch
<1>8. Board' = Without(Board, activeAlarms[i])
                  \cup {[OwnCard(activeAlarms[i]) EXCEPT !.face = "up"]}
  BY <1>1, <1>4, <1>5, <1>6, CardsOfReveal
<1>9. Without(Board, activeAlarms[i]) = Board \ Of(Board, m)
  BY <1>1 DEF Without, Of, SameAlarm
<1>10. Abstract!Cards(Call[h].what) = Of(Board, m) /\ Abstract!Has(h, "hidden")
  BY <1>1, CardsOfCall, CallAtWork DEF Abstract!Has, Status
<1>11. Abstract!Become(h, "done")
  <2>1. Status(handler'[h]) = "done"
    BY <1>2 DEF Status
  <2>2. What(handler'[h].m) = What(m)
    <3>1. LET n == handler'[h].m
          IN  /\ n.object = m.object /\ n.problem = m.problem
              /\ n.severity = m.severity /\ n.action = m.action
      BY <1>1, <1>2 DEF Notification
    <3> QED BY <3>1 DEF What
  <2>3. handler[h].pc # "idle" /\ handler'[h].pc # "idle"
    BY <1>1, <1>2
  <2> QED BY <1>2, <2>1, <2>2, <2>3, CallBecomes
<1>12. UNCHANGED Known
  BY <1>1 DEF Known, Defined
<1>13. {[d EXCEPT !.face = "up"] : d \in Of(Board, m)}
          = {[OwnCard(activeAlarms[i]) EXCEPT !.face = "up"]}
  BY <1>7
<1> QED BY <1>7, <1>8, <1>9, <1>10, <1>11, <1>12, <1>13 DEF Abstract!Reveal

\* A clear takes the card of its own alarm off, the manager's alarms apart, which have
\* none; the threshold alarm of a full history is not for the board.
LEMMA ClearClears ==
    ASSUME BoardInv, TypeOK', NEW h \in Handlers, Clear(h) \/ ClearOverLimit(h)
    PROVE  Abstract!Clear(h)
<1> USE DEF BoardInv
<1> DEFINE m == handler[h].m
           i == handler[h].idx
           r == RemoveAlarm(activeAlarms, i)
           t == ThresholdAlarm(HistoryProblem, uniqueAlarmId + 1)
<1>1. /\ handler[h].pc = "clearing" /\ CanClear(h)
      /\ handler' = [handler EXCEPT ![h].pc = "clearPersist"]
      /\ activeAlarms \in Seq(Notification) /\ OneAlarmPerIdentity(activeAlarms)
  BY DEF Clear, ClearOverLimit, At, Goto, TypeOK, IdentityInv, UniqueIdentity
<1>2. mutex = h
  BY <1>1 DEF LockDiscipline, Critical
<1>3. OnlyStep(h) /\ handler'[h].pc = "clearPersist" /\ handler'[h].m = m
  BY <1>1 DEF TypeOK, OnlyStep, Local
<1>4. i \in 1..Len(activeAlarms) /\ SameAlarm(activeAlarms[i], m)
  BY <1>1, LenProperties DEF CanClear, IdentityInv, IndexTargetsOwnAlarm
<1>5. \A k \in Handlers : handler[k].pc # "raising" /\ handler'[k].pc # "raising"
  BY <1>1, <1>2, <1>3, AloneInside DEF OnlyStep
<1>6. Board = Cards(Entries(activeAlarms))
  BY <1>5, BoardIsTable
<1>7. Board' = Cards(Entries(activeAlarms'))
  <2>1. BeingRaised' = {}
    BY <1>5 DEF BeingRaised
  <2> QED BY <2>1 DEF Board, Entries
<1>8. r \in Seq(Notification) /\ Cards(Entries(r)) = Board \ Of(Board, m)
  <2>1. Cards(Entries(r)) = Without(Board, activeAlarms[i])
    BY <1>1, <1>4, <1>6, CardsOfRemove
  <2>2. Without(Board, activeAlarms[i]) = Board \ Of(Board, m)
    BY <1>4 DEF Without, Of, SameAlarm
  <2> QED BY <1>1, <1>4, <2>1, <2>2, RemoveAlarmProperties
<1> HIDE DEF r
<1>9. Cards(Entries(activeAlarms')) = Cards(Entries(r)) /\ UNCHANGED Known
  <2>1. CASE Clear(h)
    <3>1. activeAlarms' = r /\ UNCHANGED definitions
      BY <2>1 DEF Clear, setting, r
    <3> QED BY <3>1 DEF Known, Defined
  <2>2. CASE ClearOverLimit(h)
    <3>1. /\ activeAlarms' = Append(r, t) /\ Defined(HistoryProblem)
          /\ definitions' = [definitions EXCEPT ![HistoryProblem].alarmId = uniqueAlarmId + 1]
      BY <2>2 DEF ClearOverLimit, r
    <3>2. uniqueAlarmId + 1 \in Nat /\ HistoryProblem \in Problems
      BY ManagerAssumption DEF TypeOK
    <3>3. t \in Notification
      BY <3>1, <3>2, ThresholdTyped DEF TypeOK
    <3>4. t.object = ManagerObject
      BY DEF ThresholdAlarm
    <3> HIDE DEF t
    <3>5. Cards({t}) = {}
      BY <3>4, CardsOfOne
    <3>6. Cards(Entries(activeAlarms')) = Cards(Entries(r))
      BY <1>8, <3>1, <3>3, <3>5, CardsOfAppend
    <3>7. UNCHANGED Known
      BY <3>1, <3>2, KnownUntouched
    <3> QED BY <3>6, <3>7
  <2> QED BY <2>1, <2>2
<1>10. Abstract!Has(h, "open") /\ Call[h].what.action = "CLEAR"
  <2>1. m.action = "CLEAR"
    BY <1>1 DEF MessagesKept
  <2>2. Call[h].what = What(m) /\ Abstract!Has(h, "open")
    BY <1>1, CallAtWork DEF Abstract!Has, Status
  <2> QED BY <2>1, <2>2 DEF What
<1>11. Abstract!Become(h, "done")
  <2>1. Status(handler'[h]) = "done"
    BY <1>3 DEF Status
  <2> QED BY <1>1, <1>3, <2>1, CallBecomes
<1>12. Abstract!Cards(Call[h].what) = Of(Board, m)
  BY <1>1, CardsOfCall
<1> QED BY <1>7, <1>8, <1>9, <1>10, <1>11, <1>12 DEF Abstract!Clear

\* The history alarm gets no card when it is appended without the mutex, also while
\* another goroutine is inside a raise.
LEMMA StoreActiveUnseen ==
    ASSUME TypeOK, GeneratesOwn, TableUnraced, NEW h \in Handlers, StoreActive(h)
    PROVE  Cards(Entries(activeAlarms')) = Cards(Entries(activeAlarms))
<1> DEFINE t == handler[h].threshold
<1>1. /\ t \in Notification /\ t.object = ManagerObject
      /\ activeAlarms' \in {activeAlarms, Append(activeAlarms, t)}
      /\ activeAlarms \in Seq(Notification)
  BY StoreActiveAppends DEF GeneratesOwn, Generating, TypeOK
<1> HIDE DEF t
<1>2. CASE UNCHANGED activeAlarms
  BY <1>2 DEF Entries, Cards
<1>3. CASE activeAlarms' = Append(activeAlarms, t)
  <2>1. Cards({t}) = {}
    BY <1>1, CardsOfOne
  <2>2. Cards(Entries(Append(activeAlarms, t))) = Cards(Entries(activeAlarms)) \cup Cards({t})
    BY <1>1, CardsOfAppend
  <2> QED BY <1>3, <2>1, <2>2
<1> QED BY <1>1, <1>2, <1>3

\* The history and the post concern nobody who looks at the board, nor does the history
\* alarm.
LEMMA RecordingStutters ==
    ASSUME BoardInv, TypeOK', TableUnraced, NEW h \in Handlers,
           \/ CheckHistory(h) \/ LoadId(h) \/ StoreId(h) \/ LoadActive(h) \/ StoreActive(h)
           \/ LoadHistory(h) \/ StoreThresholdHistory(h) \/ StoreHistory(h) \/ Persist(h)
    PROVE  UNCHANGED <<Board, Call, Known>>
<1> USE DEF BoardInv
<1>0. OnlyStep(h)
  BY OthersUntouched DEF Proceed, OnlyStep, TypeOK
<1>1. /\ handler[h].pc \in Recording /\ handler'[h].pc \in Recording
      /\ OnlyStep(h) /\ handler'[h].m = handler[h].m
  BY <1>0, RecordingMoves
<1>2. UNCHANGED Call
  <2>1. Status(handler[h]) = "done" /\ Status(handler'[h]) = "done"
    BY <1>1 DEF Status, Recording, Threshold
  <2>2. handler[h].pc # "idle" /\ handler'[h].pc # "idle"
    BY <1>1 DEF Recording, Threshold
  <2> QED BY <1>1, <2>1, <2>2, CallBecomes
<1>3. UNCHANGED BeingRaised
  BY <1>1 DEF BeingRaised, OnlyStep, Recording, Threshold
<1>4. UNCHANGED Board
  <2>1. Cards(Entries(activeAlarms')) = Cards(Entries(activeAlarms))
    <3>1. CASE StoreActive(h)
      BY <3>1, StoreActiveUnseen
    <3>2. CASE ~StoreActive(h)
      <4>1. UNCHANGED activeAlarms
        BY <3>2 DEF CheckHistory, LoadId, StoreId, LoadActive, LoadHistory,
           StoreThresholdHistory, StoreHistory, Persist, table
      <4> QED BY <4>1 DEF Entries, Cards
    <3> QED BY <3>1, <3>2
  <2>2. Board = Cards(Entries(activeAlarms)) \cup Cards(BeingRaised)
    BY CardsOfUnion DEF Board
  <2>3. Board' = Cards(Entries(activeAlarms')) \cup Cards(BeingRaised')
    BY CardsOfUnion DEF Board, Cards, Entries, BeingRaised
  <2> QED BY <1>3, <2>1, <2>2, <2>3
<1>5. UNCHANGED Known
  <2>1. CASE StoreId(h)
    <3> DEFINE id == handler[h].threshold.id + 1
    <3>1. handler[h].threshold \in Notification
      BY DEF TypeOK, Local
    <3>2. id \in Nat /\ HistoryProblem \in Problems
      BY <3>1, ManagerAssumption DEF Notification
    <3>3. /\ Defined(HistoryProblem)
          /\ definitions' = [definitions EXCEPT ![HistoryProblem].alarmId = id]
      BY <2>1 DEF StoreId
    <3> QED BY <3>2, <3>3, KnownUntouched
  <2>2. CASE ~StoreId(h)
    <3>1. UNCHANGED definitions
      BY <2>2 DEF CheckHistory, LoadId, LoadActive, StoreActive, LoadHistory,
         StoreThresholdHistory, StoreHistory, Persist, setting
    <3> QED BY <3>1 DEF Known, Defined
  <2> QED BY <2>1, <2>2
<1> QED BY <1>2, <1>4, <1>5

\* The goroutine that is done ends its call, even when it panics over the alert's labels or
\* over the definition of the history alarm.
LEMMA DoneReturns ==
    ASSUME BoardInv, TypeOK', NEW h \in Handlers,
           ClearDone(h) \/ Post(h) \/ PanicPosting(h) \/ PanicThreshold(h)
    PROVE  Abstract!Return(h)
<1> USE DEF BoardInv
<1>1. /\ handler[h].pc \in {"clearPersist", "post", "thresholdIdStore"}
      /\ UNCHANGED <<activeAlarms, definitions>>
  BY DEF ClearDone, Post, PanicPosting, PanicThreshold, At, table, setting
<1>2. handler' = [handler EXCEPT ![h] = Idle]
  <2>1. CASE ClearDone(h) \/ Post(h)
    BY <2>1 DEF ClearDone, Post, Return
  <2>2. CASE PanicPosting(h) \/ PanicThreshold(h)
    <3>1. Panic(h) /\ handler[h].pc \in {"post", "thresholdIdStore"}
      BY <2>2 DEF PanicPosting, PanicThreshold, At
    <3>2. mutex # h
      BY <3>1 DEF LockDiscipline, Critical
    <3> QED BY <3>1, <3>2 DEF Panic
  <2> QED BY <2>1, <2>2
<1>3. OnlyStep(h) /\ handler'[h].pc = "idle"
  BY <1>2 DEF TypeOK, OnlyStep, Idle
<1>4. Abstract!End(h) /\ UNCHANGED <<Board, Known>>
  BY <1>1, <1>3, CallEnds, QuietBoard
<1>5. Abstract!Has(h, "done")
  BY <1>1, CallAtWork DEF Abstract!Has, Status
<1> QED BY <1>4, <1>5 DEF Abstract!Return

\* Definitions come and go, everything else from outside is no concern of the board.
LEMMA OutsideRedefines ==
    ASSUME BoardInv, Environment \/ Done \/ UNCHANGED vars
    PROVE  Abstract!Redefine \/ UNCHANGED <<Board, Call, Known>>
<1>1. UNCHANGED <<activeAlarms, handler>>
  BY DEF Environment, SetAlarmDefinition, DeleteAlarmDefinition, SetAlarmConfig,
     ConfigChangeCB, SetLimits, Done, vars, table
<1>2. UNCHANGED <<Board, Call>>
  BY <1>1 DEF Board, BeingRaised, Entries, Cards, Call
<1>3. Known' \in SUBSET Problems
  BY DEF Known
<1> QED BY <1>2, <1>3 DEF Abstract!Redefine

-------------------------------------------------------------------------------
(* The theorem. *)

\* A step of the manager is one of the board, or none.
LEMMA StepRefines ==
    ASSUME BoardInv, BoardInv', TableUnraced, NoneStuck', [Next]_vars
    PROVE  [Abstract!Next]_Abstract!vars
<1>0. TypeOK'
  BY DEF BoardInv
<1>1. ASSUME NEW h \in Handlers, NEW m \in Requests, Submit(h, m)
      PROVE  Abstract!Next
  BY <1>0, <1>1, SubmitBegins DEF Abstract!Next, BoardInv
<1>2. ASSUME NEW h \in Handlers, Acquire(h)
      PROVE  Abstract!Next \/ UNCHANGED <<Board, Call, Known>>
  BY <1>0, <1>2, NothingSteps, AcceptRaiseRaises, ClearWaits, RaiseDelayWaits
     DEF Acquire, Abstract!Next
<1>3. ASSUME NEW h \in Handlers, Proceed(h)
      PROVE  Abstract!Next \/ UNCHANGED <<Board, Call, Known>>
  <2>1. ASSUME PanicIndex(h) \/ PanicRaising(h) \/ PanicClearing(h) PROVE FALSE
    <3>1. mutex = h /\ handler' = [handler EXCEPT ![h] =
             IF mutex = h THEN [Idle EXCEPT !.pc = "stuck"] ELSE Idle]
      BY <2>1 DEF PanicIndex, PanicRaising, PanicClearing, Panic, At, BoardInv,
         LockDiscipline, Critical
    <3>2. handler'[h].pc = "stuck"
      BY <3>1 DEF BoardInv, TypeOK, Idle
    <3> QED BY <3>2 DEF NoneStuck
  <2> QED BY <1>0, <1>3, <2>1, DuplicateIsNothing, ReplaceRaises, RevealReveals,
     RaiseAppends, ClearClears, RecordingStutters, DoneReturns
     DEF Proceed, Abstract!Next
<1>4. CASE Environment \/ Done \/ UNCHANGED vars
  BY <1>4, OutsideRedefines DEF Abstract!Next, Abstract!vars
<1> QED BY <1>1, <1>2, <1>3, <1>4 DEF Next, Abstract!vars

\* The manager begins with an empty board.
LEMMA InitRefines == Init => Abstract!Init
<1> SUFFICES ASSUME Init PROVE Abstract!Init
  OBVIOUS
<1>1. /\ activeAlarms = <<>>
      /\ \A h \in Handlers : handler[h].pc = "idle"
  BY DEF Init, Idle
<1>2. Entries(activeAlarms) = {}
  BY <1>1 DEF Entries
<1>3. Board = {}
  BY <1>1, <1>2 DEF Board, BeingRaised, Cards
<1>4. Call = [h \in Handlers |-> NoCall]
  BY <1>1 DEF Call, CallOf
<1>5. Known \in SUBSET Problems
  BY DEF Known
<1> QED BY <1>3, <1>4, <1>5 DEF Abstract!Init

\* Every message takes effect at one moment, as an atomic raise, reveal or clear of one
\* alarm, however the goroutines interleave, for every table, limit, definition and
\* delay, also while the "history exceeded" alarm is generated without the mutex: as long
\* as no step changes the table between the read and the write of that alarm's append and
\* none panics while it holds the mutex.
THEOREM ImplementsBoardWhileUnraced ==
    Spec /\ [](TableUnraced /\ NoneStuck) => ImplementsBoard
<1>1. Init => MessagesKept
  BY DEF Init, Idle, MessagesKept
<1>2. TypeOK /\ IdentityInv /\ MessagesKept /\ [Next]_vars => MessagesKept'
  BY MessagesStep
<1>3. Spec /\ []TableUnraced => []BoardInv
  BY <1>1, <1>2, TypeCorrect, MutualExclusion, GeneratorsInvariant, IdentityInvariant, PTL
     DEF Spec, BoardInv
<1>4. BoardInv /\ BoardInv' /\ TableUnraced /\ NoneStuck' /\ [Next]_vars
         => [Abstract!Next]_Abstract!vars
  BY StepRefines
<1> QED BY <1>3, <1>4, InitRefines, PTL DEF Spec, ImplementsBoard, Abstract!Spec

===============================================================================
