---------------------------- MODULE TtlTimerProofs ----------------------------
(***************************************************************************)
(* Theorems about the TTL timer beside any number of goroutines.           *)
(***************************************************************************)
EXTENDS TtlTimer, AlarmManagerProofs

TimerTypeOK ==
    /\ TypeOK
    /\ loop \in {"asleep", "scanning", "calling"}
    /\ position \in Nat \ {0}
    /\ captured \in Seq(Notification)

\* The timer is in ProcessClearAlarm only while its loop waits for it.
CallsOnly == loop # "calling" => handler[Timer].pc = "idle"

TimerInv == TimerTypeOK /\ TimerLockDiscipline /\ CallsOnly

-------------------------------------------------------------------------------
\* The array that the loop reads holds notifications, whatever is moved in it.
LEMMA ShadowTyped ==
    ASSUME captured \in Seq(Notification), activeAlarms' \in Seq(Notification), Shadow
    PROVE  captured' \in Seq(Notification)
<1> DEFINE now == activeAlarms'
<1>1. DOMAIN captured = 1..Len(captured) /\ Len(captured) \in Nat
  BY LenProperties
<1>2. \A i \in 1..Len(captured) :
         (IF i \in DOMAIN now THEN now[i] ELSE captured[i]) \in Notification
  BY LenProperties, ElementOfSeq
<1>3. Overlay(captured, now) \in [1..Len(captured) -> Notification]
  BY <1>1, <1>2 DEF Overlay
<1>4. Overlay(captured, now) \in Seq(Notification)
  BY <1>1, <1>3, SeqDef
<1> QED BY <1>4 DEF Shadow

\* Steps of the goroutines, the timer inside ProcessClearAlarm among them. While the loop
\* does not scan, the mutex is as it would be without it; while it scans, it is the
\* timer that holds the mutex, and only what needs no mutex can go on.
LEMMA HandlersKeep ==
    ASSUME TimerInv, NEW h \in Handlers, AcquireBeside(h) \/ ProceedBeside(h)
    PROVE  TimerInv'
<1> USE TimerAssumption, ManagerAssumption DEF TimerInv, TimerTypeOK
<1>1. Acquire(h) \/ Proceed(h)
  BY DEF AcquireBeside, ProceedBeside
<1>2. Beside /\ UNCHANGED <<loop, position>>
  BY DEF AcquireBeside, ProceedBeside, Beside, cursor
<1>3. TypeOK'
  BY <1>1, StepTyped DEF Next
<1>4. captured' \in Seq(Notification)
  BY <1>2, <1>3, ShadowTyped DEF Beside, TypeOK
<1>5. \A k \in Handlers \ {h} : handler'[k] = handler[k]
  BY <1>1, OthersUntouched
<1>6. h = Timer => loop = "calling"
  BY <1>1, IdleTakesNoStep DEF CallsOnly
<1>7. CallsOnly'
  BY <1>2, <1>5, <1>6 DEF CallsOnly
<1>8. CASE loop # "scanning"
  <2>1. LockDiscipline
    BY <1>8 DEF TimerLockDiscipline, LockDiscipline
  <2>2. LockDiscipline'
    BY <1>1, <2>1, AcquireLocks, ProceedLocks
  <2>3. TimerLockDiscipline'
    BY <1>2, <1>8, <2>2 DEF TimerLockDiscipline, LockDiscipline
  <2> QED BY <1>2, <1>3, <1>4, <1>7, <2>3
<1>9. CASE loop = "scanning"
  <2>1. mutex = Timer /\ h # Timer
    BY <1>6, <1>9 DEF TimerLockDiscipline
  <2>2. Proceed(h) /\ handler[h].pc \notin Critical
    BY <1>1, <2>1, AcquireNeedsFree DEF TimerLockDiscipline
  <2>3. UNCHANGED mutex /\ handler'[h].pc \notin Critical
    BY <2>1, <2>2, UnlockedStays, TypeSplit
  <2>4. TimerLockDiscipline'
    BY <1>2, <1>5, <2>1, <2>3 DEF TimerLockDiscipline
  <2> QED BY <1>2, <1>3, <1>4, <1>7, <2>4
<1> QED BY <1>8, <1>9

\* Messages that arrive for the others.
LEMMA SubmitKeeps ==
    ASSUME TimerInv, SubmitBeside
    PROVE  TimerInv'
<1> USE DEF TimerInv, TimerTypeOK
<1>1. PICK h \in Handlers \ {Timer}, m \in Requests : Submit(h, m) /\ Beside
  BY DEF SubmitBeside
<1>2. TypeOK'
  BY <1>1, StepTyped DEF Next
<1>3. captured' \in Seq(Notification) /\ UNCHANGED <<loop, position>>
  BY <1>1, <1>2, ShadowTyped DEF Beside, cursor, TypeOK
<1>4. /\ UNCHANGED mutex /\ \A k \in Handlers \ {h} : handler'[k] = handler[k]
      /\ handler[h].pc = "idle" /\ handler'[h].pc = "waiting"
  BY <1>1 DEF Submit, At, Idle, TypeOK
<1>5. TimerLockDiscipline' /\ CallsOnly'
  BY <1>1, <1>3, <1>4, TimerAssumption DEF TimerLockDiscipline, CallsOnly, Critical
<1> QED BY <1>2, <1>3, <1>5

\* The loop itself.
LEMMA LoopKeeps ==
    ASSUME TimerInv, Tick \/ Scan \/ Relock \/ Expire \/ UNCHANGED ttlVars
    PROVE  TimerInv'
<1> USE TimerAssumption, ManagerAssumption
    DEF TimerInv, TimerTypeOK, TimerLockDiscipline, CallsOnly
<1>0. handler[Timer].pc \in Critical => handler[Timer].pc # "idle"
  BY DEF Critical
<1>1. CASE Tick
  <2>1. TypeOK'
    BY <1>1 DEF Tick, Lock, TypeOK, table, flags, setting, config, inputs
  <2>2. /\ mutex = Free /\ mutex' = Timer /\ UNCHANGED handler
        /\ loop = "asleep" /\ loop' = "scanning" /\ position' = 1 /\ captured' = activeAlarms
    BY <1>1 DEF Tick, Lock
  <2> QED BY <2>1, <2>2 DEF TypeOK
<1>2. CASE SkipLiving \/ Expire \/ UNCHANGED ttlVars
  <2>1. UNCHANGED <<vars, loop, captured>> /\ position' \in {position, position + 1}
    BY <1>2 DEF SkipLiving, Expire, ttlVars, cursor
  <2>2. TypeOK'
    BY <2>1, StepTyped
  <2> QED BY <2>1, <2>2 DEF vars
<1>3. CASE Sleep
  <2>1. TypeOK'
    BY <1>3 DEF Sleep, Unlock, TypeOK, table, flags, setting, config, inputs
  <2>2. /\ mutex = Timer /\ mutex' = Free /\ UNCHANGED handler
        /\ loop = "scanning" /\ loop' = "asleep" /\ position' = 1 /\ captured' = <<>>
    BY <1>3 DEF Sleep, Scanning, Unlock
  <2> QED BY <1>0, <2>1, <2>2, EmptySeq
<1>4. CASE Relock
  <2>1. TypeOK'
    BY <1>4 DEF Relock, Lock, TypeOK, table, flags, setting, config, inputs
  <2>2. /\ mutex = Free /\ mutex' = Timer /\ UNCHANGED <<handler, captured>>
        /\ loop' = "scanning" /\ handler[Timer].pc = "idle" /\ position' = position + 1
    BY <1>4 DEF Relock, Lock, At
  <2> QED BY <2>1, <2>2
<1>5. CASE ClearExpiredAlarms
  <2> DEFINE m == captured[position]
             delayed == definitions[m.problem].clearDelay > 0
             call == [Idle EXCEPT !.pc = IF delayed THEN "clearDelay" ELSE "clearing",
                                  !.m = [m EXCEPT !.action = "CLEAR"], !.idx = position]
  <2>1. /\ loop = "scanning" /\ loop' = "calling" /\ UNCHANGED <<position, captured>>
        /\ handler' = [handler EXCEPT ![Timer] = call]
        /\ mutex' = IF delayed THEN Free ELSE Timer
        /\ UNCHANGED <<table, setting>> /\ position <= Len(captured)
    BY <1>5 DEF ClearExpiredAlarms, Scanning, More
  <2>2. call \in Local /\ call.pc = IF delayed THEN "clearDelay" ELSE "clearing"
    <3>1. m \in Notification
      BY <2>1, LenProperties, ElementOfSeq
    <3>2. [m EXCEPT !.action = "CLEAR"] \in Notification
      BY <3>1 DEF Notification, Actions
    <3>3. (IF delayed THEN "clearDelay" ELSE "clearing") \in PCs
      BY DEF PCs, Critical, Unlocked
    <3> HIDE DEF m, delayed
    <3> QED BY <3>2, <3>3, IdleTyped DEF Local
  <2> HIDE DEF call, delayed
  <2>3. TypeOK'
    BY <2>1, <2>2 DEF TypeOK, table, flags, setting, config, inputs
  <2>4. /\ \A k \in Handlers \ {Timer} : handler'[k] = handler[k]
        /\ handler'[Timer].pc = IF delayed THEN "clearDelay" ELSE "clearing"
    BY <2>1, <2>2 DEF TypeOK
  <2> QED BY <2>1, <2>3, <2>4 DEF Critical
<1> QED BY <1>1, <1>2, <1>3, <1>4, <1>5 DEF Scan

LEMMA TimerInvariant == TtlSpec => []TimerInv
<1>1. TtlInit => TimerInv
  BY TypeInit, EmptySeq, TimerAssumption, ManagerAssumption
     DEF TtlInit, Init, Idle, Critical, TimerInv, TimerTypeOK, TimerLockDiscipline, CallsOnly
<1>2. TimerInv /\ [TtlNext]_ttlVars => TimerInv'
  BY HandlersKeep, SubmitKeeps, LoopKeeps DEF TtlNext
<1> QED BY <1>1, <1>2, PTL DEF TtlSpec

\* ProcessClearAlarm, called from the loop, releases a mutex that its caller took, and
\* the caller takes it again; still it is held exactly by the loop while it scans, or by
\* the one goroutine that is inside.
THEOREM TimerMutualExclusion == TtlSpec => []TimerLockDiscipline
<1>1. TimerInv => TimerLockDiscipline
  BY DEF TimerInv
<1> QED BY <1>1, TimerInvariant, PTL

-------------------------------------------------------------------------------
(* Clears with a delay: the loop only gives up the mutex, and its clear looks the alarm
   up again. (Without a delay the loop's index can be stale; see TtlPanics.) *)

\* Every problem with a time to live has a clear delay.
MortalsDelayed ==
    \A p \in Mortal : InitialDefinitions[p] # NoDefinition =>
                         InitialDefinitions[p].clearDelay > 0

\* It stays so: the manager writes nothing but ids into the definitions.
DelaysKept ==
    \A p \in Mortal : Defined(p) => definitions[p].clearDelay > 0

\* Whoever is inside ProcessAlarm's critical sections holds the mutex, also beside the loop.
LEMMA TimerHeldInside == TimerInv => HeldInside
BY DEF TimerInv, TimerLockDiscipline, HeldInside

\* What the goroutines do to the definitions.
LEMMA IdsOnly ==
    ASSUME TypeOK, NEW h \in Handlers, Acquire(h) \/ Proceed(h)
    PROVE  \/ UNCHANGED definitions
           \/ \E p \in Problems, id \in Nat :
                 Defined(p) /\ definitions' = [definitions EXCEPT ![p].alarmId = id]
<1> USE DEF setting
<1>1. CASE Acquire(h)
  BY <1>1 DEF Acquire, Suppress, AcceptRaise, AcceptClear, RaiseDelayOver, RaiseAbandoned,
     ClearDelayOver, ClearAbandoned
<1>2. CASE RaiseOverLimit(h)
  <2>1. ActiveProblem \in Problems /\ uniqueAlarmId + 1 + 1 \in Nat
    BY ManagerAssumption DEF TypeOK
  <2> QED BY <1>2, <2>1 DEF RaiseOverLimit
<1>3. CASE StoreId(h)
  <2>1. HistoryProblem \in Problems /\ handler[h].threshold.id + 1 \in Nat
    BY ManagerAssumption DEF TypeOK, Local, Notification
  <2> QED BY <1>3, <2>1 DEF StoreId
<1>4. CASE ClearOverLimit(h)
  <2>1. HistoryProblem \in Problems /\ uniqueAlarmId + 1 \in Nat
    BY ManagerAssumption DEF TypeOK
  <2> QED BY <1>4, <2>1 DEF ClearOverLimit
<1>5. CASE \/ Raise(h) \/ PanicRaising(h) \/ CheckHistory(h) \/ LoadId(h)
           \/ PanicThreshold(h) \/ LoadActive(h) \/ StoreActive(h)
  BY <1>5 DEF Raise, PanicRaising, CheckHistory, LoadId, PanicThreshold, LoadActive,
     StoreActive
<1>6. CASE \/ LoadHistory(h) \/ StoreThresholdHistory(h) \/ StoreHistory(h) \/ Persist(h)
           \/ Post(h) \/ PanicPosting(h) \/ Clear(h) \/ PanicClearing(h) \/ ClearDone(h)
  BY <1>6 DEF LoadHistory, StoreThresholdHistory, StoreHistory, Persist, Post,
     PanicPosting, Clear, PanicClearing, ClearDone
<1>7. CASE SuppressDuplicate(h) \/ Replace(h) \/ Reveal(h) \/ PanicIndex(h)
  BY <1>7 DEF SuppressDuplicate, Replace, Reveal, PanicIndex
<1> QED BY <1>1, <1>2, <1>3, <1>4, <1>5, <1>6, <1>7 DEF Proceed

LEMMA DelaysStay ==
    ASSUME TypeOK, DelaysKept, [TtlNext]_ttlVars
    PROVE  DelaysKept'
<1>1. CASE UNCHANGED definitions
  BY <1>1 DEF DelaysKept, Defined
<1>2. CASE \E h \in Handlers : Acquire(h) \/ Proceed(h)
  <2>1. ASSUME NEW p \in Problems, NEW id \in Nat, Defined(p),
               definitions' = [definitions EXCEPT ![p].alarmId = id]
        PROVE  DelaysKept'
    <3> SUFFICES ASSUME NEW q \in Mortal, Defined(q)' PROVE definitions'[q].clearDelay > 0
      BY DEF DelaysKept
    <3>1. definitions[p] \in Definition /\ q \in Problems
      BY <2>1, TimerAssumption DEF TypeOK, Defined
    <3>2. CASE q = p
      BY <2>1, <3>1, <3>2 DEF TypeOK, Definition, DelaysKept
    <3>3. CASE q # p
      BY <2>1, <3>1, <3>3 DEF TypeOK, Defined, DelaysKept
    <3> QED BY <3>2, <3>3
  <2> QED BY <1>1, <1>2, <2>1, IdsOnly
<1>3. CASE SubmitBeside \/ Expire \/ Tick \/ Scan \/ Relock \/ UNCHANGED ttlVars
  <2>1. UNCHANGED definitions
    BY <1>3 DEF SubmitBeside, Submit, Expire, Tick, Scan, SkipLiving, ClearExpiredAlarms,
       Sleep, Relock, ttlVars, vars, setting
  <2> QED BY <1>1, <2>1
<1> QED BY <1>2, <1>3 DEF TtlNext, AcquireBeside, ProceedBeside

\* The loop's own steps: its clear waits for the delay of a definition that is there,
\* and nothing else that the goroutines depend on changes.
LEMMA LoopIsQuiet ==
    ASSUME TimerInv, DelaysKept, Expire \/ Tick \/ Scan \/ Relock \/ UNCHANGED ttlVars
    PROVE  /\ UNCHANGED <<table, setting>>
           /\ \A k \in Handlers \ {Timer} : handler'[k] = handler[k]
           /\ \/ UNCHANGED handler
              \/ /\ handler[Timer].pc = "idle" /\ handler'[Timer].pc = "clearDelay"
                 /\ Defined(handler'[Timer].m.problem)
<1> USE TimerAssumption DEF TimerInv, TimerTypeOK
<1>1. CASE Expire \/ Tick \/ SkipLiving \/ Sleep \/ Relock \/ UNCHANGED ttlVars
  BY <1>1 DEF Expire, Tick, SkipLiving, Sleep, Relock, ttlVars, vars
<1>2. CASE ClearExpiredAlarms
  <2> DEFINE m == captured[position]
             n == [m EXCEPT !.action = "CLEAR"]
  <2>1. /\ loop = "scanning" /\ position \in 1..Len(captured) /\ Defined(m.problem)
        /\ m.problem \in Mortal /\ UNCHANGED <<table, setting>>
    BY <1>2, LenProperties DEF ClearExpiredAlarms, Scanning, More, Living
  <2>2. m \in Notification
    BY <2>1, ElementOfSeq
  <2>3. definitions[m.problem].clearDelay > 0
    BY <2>1 DEF DelaysKept
  <2>4. handler' = [handler EXCEPT ![Timer] =
                       [Idle EXCEPT !.pc = "clearDelay", !.m = n, !.idx = position]]
    BY <1>2, <2>3 DEF ClearExpiredAlarms
  <2>5. n.problem = m.problem
    BY <2>2 DEF Notification
  <2> HIDE DEF n
  <2>6. handler'[Timer].pc = "clearDelay" /\ handler'[Timer].m = n
    BY <2>4 DEF Idle, TypeOK
  <2>7. handler[Timer].pc = "idle"
    BY <2>1 DEF CallsOnly
  <2>8. Defined(handler'[Timer].m.problem)
    BY <2>1, <2>5, <2>6
  <2> QED BY <2>1, <2>4, <2>6, <2>7, <2>8 DEF TypeOK
<1> QED BY <1>1, <1>2 DEF Scan

\* The goroutines' invariants go on to hold beside the loop.
LEMMA BesideLoop ==
    ASSUME TimerInv, [TtlNext]_ttlVars
    PROVE  \/ \E h \in Handlers : Acquire(h) \/ Proceed(h)
           \/ \E h \in Handlers, m \in Requests : Submit(h, m)
           \/ Expire \/ Tick \/ Scan \/ Relock \/ UNCHANGED ttlVars
BY DEF TtlNext, AcquireBeside, ProceedBeside, SubmitBeside

LEMMA DelaysInvariant ==
    ASSUME MortalsDelayed
    PROVE  TtlSpec => []DelaysKept
<1>1. TtlInit => DelaysKept
  BY DEF TtlInit, Init, DelaysKept, Defined, MortalsDelayed
<1>2. TimerInv /\ DelaysKept /\ [TtlNext]_ttlVars => DelaysKept'
  BY DelaysStay DEF TimerInv, TimerTypeOK
<1> QED BY <1>1, <1>2, TimerInvariant, PTL DEF TtlSpec

\* What is generated without the mutex is the manager's own also beside the timer.
LEMMA BesideGeneratesOwn ==
    ASSUME MortalsDelayed
    PROVE  TtlSpec => []GeneratesOwn
<1>1. TtlInit => GeneratesOwn
  BY DEF TtlInit, Init, Idle, Generating, GeneratesOwn
<1>2. TimerInv /\ DelaysKept /\ GeneratesOwn /\ [TtlNext]_ttlVars => GeneratesOwn'
  <2> SUFFICES ASSUME TimerInv, DelaysKept, GeneratesOwn, [TtlNext]_ttlVars
               PROVE  GeneratesOwn'
    OBVIOUS
  <2>1. TypeOK
    BY DEF TimerInv, TimerTypeOK
  <2>2. CASE \E h \in Handlers : Acquire(h) \/ Proceed(h)
    BY <2>1, <2>2, StepGeneratesOwn
  <2>3. CASE \E h \in Handlers, m \in Requests : Submit(h, m)
    BY <2>1, <2>3, OutsideGenerates DEF GeneratesOwn, Generating
  <2>4. CASE Expire \/ Tick \/ Scan \/ Relock \/ UNCHANGED ttlVars
    BY <2>4, LoopIsQuiet DEF GeneratesOwn, Generating
  <2> QED BY <2>2, <2>3, <2>4, BesideLoop
<1> QED BY <1>1, <1>2, TimerInvariant, DelaysInvariant, PTL DEF TtlSpec

\* When every problem with a time to live has a clear delay, then also beside the timer,
\* whose index is of a table that it saw before it released the mutex, a clear that
\* reaches the removal has the index of an alarm of its message's identity, as long as no
\* step changes the table between the read and the write of an append without the mutex.
THEOREM ExpiryTargetsOwnAlarm ==
    ASSUME MortalsDelayed
    PROVE  TtlSpec /\ []TableUnraced => []IndexTargetsOwnAlarm
<1>1. TtlInit => IdentityInv
  BY EmptySeq DEF TtlInit, Init, IdentityInv, UniqueIdentity, OneAlarmPerIdentity,
     IndexTargetsOwnAlarm, RaiseUnmatched, ClientsRaiseOwn, Idle
<1>2. TimerInv /\ DelaysKept /\ GeneratesOwn /\ IdentityInv /\ TableUnraced
         /\ [TtlNext]_ttlVars => IdentityInv'
  <2> SUFFICES ASSUME TimerInv, DelaysKept, GeneratesOwn, IdentityInv, TableUnraced,
                      [TtlNext]_ttlVars
               PROVE  IdentityInv'
    OBVIOUS
  <2>1. TypeOK /\ HeldInside
    BY TimerHeldInside DEF TimerInv, TimerTypeOK
  <2>2. CASE Expire \/ Tick \/ Scan \/ Relock \/ UNCHANGED ttlVars
    <3>1. /\ UNCHANGED activeAlarms
          /\ \A k \in Handlers \ {Timer} : handler'[k] = handler[k]
          /\ UNCHANGED handler \/ handler'[Timer].pc = "clearDelay"
      BY <2>2, LoopIsQuiet DEF table
    <3>2. CASE handler'[Timer].pc = "clearDelay"
      BY <3>1, <3>2, QuietStep, TimerAssumption
    <3>3. CASE UNCHANGED handler
      BY <3>1, <3>3 DEF IdentityInv, UniqueIdentity, IndexTargetsOwnAlarm, RaiseUnmatched,
         ClientsRaiseOwn
    <3> QED BY <3>1, <3>2, <3>3
  <2>3. CASE \E h \in Handlers : Acquire(h) \/ Proceed(h)
    BY <2>1, <2>3, AcquireKeepsIdentity, ProceedKeepsIdentity
  <2>4. CASE \E h \in Handlers, m \in Requests : Submit(h, m)
    BY <2>1, <2>4, OutsideKeepsIdentity
  <2> QED BY <2>2, <2>3, <2>4, BesideLoop
<1>3. IdentityInv => IndexTargetsOwnAlarm
  BY DEF IdentityInv
<1> QED BY <1>1, <1>2, <1>3, TimerInvariant, DelaysInvariant, BesideGeneratesOwn,
        PTL DEF TtlSpec

\* The indices stay good beside the loop.
LEMMA BesideKeepsIndex ==
    ASSUME MortalsDelayed
    PROVE  TtlSpec => []IndexInv
<1>1. TtlInit => IndexInv
  BY DEF TtlInit, Init, IndexInv, Idle, Indexed
<1>2. TimerInv /\ DelaysKept /\ IndexInv /\ [TtlNext]_ttlVars => IndexInv'
  <2> SUFFICES ASSUME TimerInv, DelaysKept, IndexInv, [TtlNext]_ttlVars PROVE IndexInv'
    OBVIOUS
  <2>1. TypeOK /\ HeldInside
    BY TimerHeldInside DEF TimerInv, TimerTypeOK
  <2>2. CASE Expire \/ Tick \/ Scan \/ Relock \/ UNCHANGED ttlVars
    <3>1. /\ UNCHANGED <<activeAlarms, exceededAlarmHistoryOn>>
          /\ \A k \in Handlers \ {Timer} : handler'[k] = handler[k]
          /\ \/ UNCHANGED handler
             \/ handler[Timer].pc = "idle" /\ handler'[Timer].pc = "clearDelay"
      BY <2>2, LoopIsQuiet DEF table, flags
    <3>2. HistoryAlarmStored => HistoryAlarmStored'
      BY <3>1 DEF HistoryAlarmStored
    <3> QED BY <3>1, <3>2 DEF IndexInv, Indexed
  <2> QED BY <2>1, <2>2, BesideLoop, StepKeepsIndex, OutsideKeepsIndex
<1> QED BY <1>1, <1>2, TimerInvariant, DelaysInvariant, PTL DEF TtlSpec

\* When every problem with a time to live has a clear delay, the loop's slice is no new
\* cause of a panic: beside the timer, too, a definition is missing then, or the "history
\* exceeded" alarm has been stored without the mutex.
THEOREM ExpiryPanicsExplained ==
    ASSUME MortalsDelayed
    PROVE  TtlSpec => PanicHasCause
<1>1. TimerInv /\ DelaysKept /\ IndexInv /\ [TtlNext]_ttlVars =>
         [~Panicked /\ Panicked' =>
             \/ definitions' # definitions
             \/ \E h \in Handlers : handler'[h] # handler[h] /\ LacksDefinition(h)
             \/ HistoryAlarmStored]_vars
  <2> SUFFICES ASSUME TimerInv, DelaysKept, IndexInv, [TtlNext]_ttlVars, ~Panicked, Panicked'
               PROVE  \/ definitions' # definitions
                      \/ \E h \in Handlers : handler'[h] # handler[h] /\ LacksDefinition(h)
                      \/ HistoryAlarmStored
    OBVIOUS
  <2>1. TypeOK
    BY DEF TimerInv, TimerTypeOK
  <2>2. CASE Expire \/ Tick \/ Scan \/ Relock \/ UNCHANGED ttlVars
    <3>1. /\ UNCHANGED crashed
          /\ \A k \in Handlers \ {Timer} : handler'[k] = handler[k]
          /\ UNCHANGED handler \/ handler'[Timer].pc = "clearDelay"
      BY <2>2, LoopIsQuiet DEF setting
    <3> QED BY <3>1 DEF Panicked
  <2> QED BY <2>1, <2>2, BesideLoop, PanicHasReason, OutsideHasReason DEF IndexInv
<1> QED BY <1>1, TimerInvariant, DelaysInvariant, BesideKeepsIndex,
        PTL DEF TtlSpec, PanicHasCause

===============================================================================
