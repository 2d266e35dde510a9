------------------------ MODULE AlarmPersistenceProofs ------------------------
(***************************************************************************)
(* Theorems about the persistent volume: what a restart goes on with, and  *)
(* what the file holds when nothing is being dealt with, for any number of *)
(* goroutines, restarts at any moment and writes that fail.                *)
(***************************************************************************)
EXTENDS AlarmPersistence, AlarmManagerProofs

Stages == {"id", "sizes", "active", "history", "open", "write"}

WritePCs == {"persist", "clearPersist"}

PersistenceTypeOK ==
    /\ TypeOK
    /\ file \in Memory \cup {NoFile, Empty, Garbled}
    /\ stage \in [Handlers -> Stages]
    /\ copied \in [Handlers -> Memory]
    /\ disturbed \subseteq Handlers
    /\ doubtful \in BOOLEAN
    /\ saved \in Memory
    /\ restarts \in Nat

\* A goroutine that does not write begins its next write at its first step.
BeginsAtId ==
    ~crashed => \A h \in Handlers : handler[h].pc \notin WritePCs => stage[h] = "id"

\* What a goroutine has copied so far is the table as it is, unless it was disturbed,
\* and the file it opened is still empty.
Faithful(h) ==
    /\ stage[h] # "id" => copied[h].uniqueAlarmId = uniqueAlarmId
    /\ stage[h] \in {"active", "history"} =>
          DOMAIN copied[h].alarmHistory = DOMAIN alarmHistory
    /\ stage[h] = "active" => DOMAIN copied[h].activeAlarms = DOMAIN activeAlarms
    /\ stage[h] = "history" => copied[h].activeAlarms = activeAlarms
    /\ stage[h] \in {"open", "write"} => copied[h] = CurrentMemory
    /\ stage[h] = "write" => file = Empty

FaithfulCopies == \A h \in Handlers : InWrite(h) /\ h \notin disturbed => Faithful(h)

\* While the last write to end is not in doubt, the file holds what it wrote, or some
\* goroutine has opened it since.
FileIsSaved == ~doubtful /\ file # Empty => ReadAlarmInfo = saved

VolumeInv == PersistenceTypeOK /\ LockDiscipline /\ BeginsAtId /\ FaithfulCopies /\ FileIsSaved

\* A change of the table that is not in the file has a goroutine that will write it:
\* one between the change and the end of its write, or one that waits for the raise
\* delay of an alarm that is still active. (Whoever took that alarm away, a clear or a
\* raise of another severity, writes instead.)
Committed == {"raising", "revealing", "history", "historyLoad", "historyStore", "persist",
              "clearPersist", "stuck"} \cup Threshold

WillWrite(h) ==
    \/ handler[h].pc \in Committed
    \/ handler[h].pc = "raiseDelay" /\ IsMatchFound(activeAlarms, handler[h].m)

DirtyHasWriter ==
    ~crashed /\ ~doubtful => ReadAlarmInfo = CurrentMemory \/ \E h \in Handlers : WillWrite(h)

-------------------------------------------------------------------------------
\* The table in memory and what a restart begins with are well typed.
LEMMA MemoryTyped ==
    /\ TypeOK => CurrentMemory \in Memory
    /\ NewMemory \in Memory
    /\ file \in Memory \cup {NoFile, Empty, Garbled} => ReadAlarmInfo \in Memory
BY EmptySeq, PersistenceAssumption
   DEF TypeOK, CurrentMemory, NewMemory, Memory, ReadAlarmInfo, Parses

\* What was copied is a table.
LEMMA CopiesTyped ==
    ASSUME NEW list \in Seq(Notification), NEW to \in Seq(Notification)
    PROVE  /\ Make(list) \in Seq(Notification) /\ DOMAIN Make(list) = DOMAIN list
           /\ Copy(to, list) \in Seq(Notification)
           /\ DOMAIN Copy(to, list) = DOMAIN to
           /\ DOMAIN to = DOMAIN list => Copy(to, list) = list
<1>0. /\ DOMAIN list = 1..Len(list) /\ Len(list) \in Nat
      /\ DOMAIN to = 1..Len(to) /\ Len(to) \in Nat
      /\ list \in [1..Len(list) -> Notification]
  BY LenProperties
<1>1. /\ Make(list) \in [1..Len(list) -> Notification]
      /\ DOMAIN Make(list) = DOMAIN list
  BY <1>0, IdleTyped DEF Make
<1>2. \A i \in 1..Len(to) : (IF i \in DOMAIN list THEN list[i] ELSE to[i]) \in Notification
  BY <1>0, ElementOfSeq
<1>3. Copy(to, list) \in [1..Len(to) -> Notification] /\ DOMAIN Copy(to, list) = DOMAIN to
  BY <1>0, <1>2 DEF Copy
<1>4. DOMAIN to = DOMAIN list => Copy(to, list) = list
  BY <1>0 DEF Copy
<1> QED BY <1>0, <1>1, <1>3, <1>4, SeqDef

\* A step of a write is one of a goroutine that writes.
LEMMA WriteSteps ==
    ASSUME NEW h \in Handlers, Write(h)
    PROVE  ~crashed /\ handler[h].pc \in WritePCs
BY DEF Write, CopyId, MakeCopies, CopyActive, CopyHistory, OpenFile, WriteFile, WriteFails,
   Writing, InWrite, WritePCs

\* A write that ends is the step of its goroutine that leaves the write.
LEMMA EndsWrite ==
    ASSUME PersistenceTypeOK, NEW h \in Handlers, Writing(h, "write") \/ Writing(h, "open"),
           EndWrite(h)
    PROVE  /\ Proceed(h) /\ UNCHANGED <<table, setting>>
           /\ handler'[h].pc \in {"post", "idle"}
           /\ \A k \in Handlers \ {h} : handler'[k] = handler[k]
           /\ stage' = [stage EXCEPT ![h] = "id"]
           /\ copied' = [copied EXCEPT ![h] = NewMemory]
<1>1. Proceed(h) /\ UNCHANGED <<table, setting>>
  BY DEF EndWrite, Proceed, Persist, ClearDone
<1>2. handler'[h].pc \in {"post", "idle"}
  <2>1. CASE Persist(h)
    BY <2>1 DEF Persist, Goto, PersistenceTypeOK, TypeOK, Local
  <2>2. CASE ClearDone(h)
    BY <2>2 DEF ClearDone, Return, Idle, PersistenceTypeOK, TypeOK
  <2> QED BY <2>1, <2>2 DEF EndWrite
<1>3. \A k \in Handlers \ {h} : handler'[k] = handler[k]
  BY <1>1, OthersUntouched DEF PersistenceTypeOK
<1> QED BY <1>1, <1>2, <1>3 DEF EndWrite

\* A step of the rest of the manager leaves those that write where they are.
LEMMA OutsideStep ==
    ASSUME PersistenceTypeOK, OutsideWrite
    PROVE  /\ Next /\ ~crashed
           /\ \A h \in Handlers : InWrite(h) => handler'[h] = handler[h]
<1>1. ASSUME NEW h \in Handlers, NEW m \in Requests, Submit(h, m)
      PROVE  /\ Next /\ ~crashed
             /\ \A k \in Handlers : InWrite(k) => handler'[k] = handler[k]
  <2>1. Next
    BY <1>1 DEF Next
  <2>2. ~crashed /\ ~InWrite(h) /\ \A k \in Handlers \ {h} : handler'[k] = handler[k]
    BY <1>1 DEF Submit, At, InWrite, PersistenceTypeOK, TypeOK
  <2> QED BY <2>1, <2>2
<1>2. ASSUME NEW h \in Handlers, ~InWrite(h), Acquire(h) \/ Proceed(h)
      PROVE  /\ Next /\ ~crashed
             /\ \A k \in Handlers : InWrite(k) => handler'[k] = handler[k]
  <2>1. Next
    BY <1>2 DEF Next
  <2>2. ~crashed
    BY <1>2, IdleTakesNoStep
  <2>3. \A k \in Handlers \ {h} : handler'[k] = handler[k]
    BY <1>2, OthersUntouched DEF PersistenceTypeOK
  <2> QED BY <1>2, <2>1, <2>2, <2>3
<1>3. CASE Environment
  <2>1. ~crashed /\ UNCHANGED handler
    BY <1>3 DEF Environment, SetAlarmDefinition, DeleteAlarmDefinition, SetAlarmConfig,
       ConfigChangeCB, SetLimits, WriteMap
  <2> QED BY <1>3, <2>1 DEF Next
<1> QED BY <1>1, <1>2, <1>3 DEF OutsideWrite

\* The steps of a write before its end leave the manager alone.
Copying(h) == CopyId(h) \/ MakeCopies(h) \/ CopyActive(h) \/ CopyHistory(h) \/ OpenFile(h)

-------------------------------------------------------------------------------
(* Types, the mutex and the stages of the writes. *)

\* What a process begins with after a restart is well typed.
LEMMA RestartTyped ==
    ASSUME PersistenceTypeOK, Restart
    PROVE  PersistenceTypeOK' /\ LockDiscipline'
<1> USE DEF PersistenceTypeOK
<1>1. ReadAlarmInfo \in Memory /\ NewMemory \in Memory
  BY MemoryTyped
<1>2. /\ uniqueAlarmId' \in Nat /\ activeAlarms' \in Seq(Notification)
      /\ alarmHistory' \in Seq(Notification)
  BY <1>1 DEF Restart, Memory
<1>3. maxActiveAlarms' \in Nat /\ maxAlarmHistory' \in Nat
  BY ManagerAssumption
     DEF Restart, Limit, Config, DefaultMaxActiveAlarms, DefaultMaxAlarmHistory
<1>4. definitions' \in [Problems -> Definition \cup {NoDefinition}]
  BY ManagerAssumption DEF Restart
<1>5. handler' \in [Handlers -> Local]
  BY IdleTyped DEF Restart
<1>6. UNCHANGED <<requests, changes, file>> /\ mutex' = Free
      /\ exceededActiveAlarmOn' = FALSE /\ exceededAlarmHistoryOn' = FALSE /\ crashed' = FALSE
  BY DEF Restart, inputs
<1>7. TypeOK'
  BY <1>2, <1>3, <1>4, <1>5, <1>6 DEF TypeOK
<1>8. /\ stage' \in [Handlers -> Stages] /\ copied' \in [Handlers -> Memory]
      /\ disturbed' \subseteq Handlers /\ saved' \in Memory
  BY <1>1 DEF Restart, Stages
<1>10. doubtful' \in BOOLEAN /\ restarts' \in Nat
  <2>1. doubtful' = FALSE
    BY Zenon DEF Restart
  <2>2. restarts' = restarts + 1
    BY DEF Restart
  <2>3. restarts' \in Nat
    BY <2>2
  <2> QED BY <2>1, <2>3, Zenon
<1>9. LockDiscipline'
  BY ManagerAssumption DEF Restart, LockDiscipline, Idle, Critical
<1> QED BY <1>6, <1>7, <1>8, <1>9, <1>10

\* The copies are tables.
LEMMA CopyingTyped ==
    ASSUME PersistenceTypeOK, NEW h \in Handlers, Copying(h)
    PROVE  /\ PersistenceTypeOK' /\ UNCHANGED vars
<1> USE DEF PersistenceTypeOK
<1>1. /\ UNCHANGED <<vars, doubtful, saved, restarts>>
      /\ file' \in {file, Empty} /\ disturbed' \subseteq Handlers
      /\ stage' \in [Handlers -> Stages]
  BY DEF Copying, CopyId, MakeCopies, CopyActive, CopyHistory, OpenFile, Disturb, Then, Stages
<1>2. /\ uniqueAlarmId \in Nat /\ activeAlarms \in Seq(Notification)
      /\ alarmHistory \in Seq(Notification) /\ copied[h] \in Memory
      /\ copied[h].activeAlarms \in Seq(Notification)
      /\ copied[h].alarmHistory \in Seq(Notification)
  BY DEF TypeOK, Memory
<1>3. copied' \in [Handlers -> Memory]
  <2>1. CASE CopyId(h)
    BY <1>2, <2>1 DEF CopyId, Memory
  <2>2. CASE MakeCopies(h)
    <3>1. Make(activeAlarms) \in Seq(Notification) /\ Make(alarmHistory) \in Seq(Notification)
      BY <1>2, CopiesTyped
    <3> QED BY <1>2, <2>2, <3>1 DEF MakeCopies, Memory
  <2>3. CASE CopyActive(h)
    <3>1. Copy(copied[h].activeAlarms, activeAlarms) \in Seq(Notification)
      BY <1>2, CopiesTyped
    <3> QED BY <1>2, <2>3, <3>1 DEF CopyActive, Memory
  <2>4. CASE CopyHistory(h)
    <3>1. Copy(copied[h].alarmHistory, alarmHistory) \in Seq(Notification)
      BY <1>2, CopiesTyped
    <3> QED BY <1>2, <2>4, <3>1 DEF CopyHistory, Memory
  <2>5. CASE OpenFile(h)
    BY <2>5 DEF OpenFile
  <2> QED BY <2>1, <2>2, <2>3, <2>4, <2>5 DEF Copying
<1>4. TypeOK'
  BY <1>1, StepTyped
<1> QED BY <1>1, <1>3, <1>4

\* So is what a write leaves behind.
LEMMA EndTyped ==
    ASSUME PersistenceTypeOK, LockDiscipline, NEW h \in Handlers, WriteFile(h) \/ WriteFails(h)
    PROVE  PersistenceTypeOK' /\ LockDiscipline'
<1> USE DEF PersistenceTypeOK
<1>1. Writing(h, "write") \/ Writing(h, "open")
  BY DEF WriteFile, WriteFails
<1>2. EndWrite(h)
  BY DEF WriteFile, WriteFails
<1>3. /\ Proceed(h) /\ stage' = [stage EXCEPT ![h] = "id"]
      /\ copied' = [copied EXCEPT ![h] = NewMemory]
  BY <1>1, <1>2, EndsWrite
<1>4. TypeOK' /\ LockDiscipline'
  BY <1>3, StepTyped, StepLocks DEF Next
<1>5. disturbed' \subseteq Handlers /\ UNCHANGED restarts
  BY DEF WriteFile, WriteFails, Disturb
<1>6. saved' \in {saved, CurrentMemory}
  <2>1. CASE WriteFile(h)
    <3>1. saved' = IF doubtful' THEN saved ELSE CurrentMemory
      BY <2>1, Zenon DEF WriteFile
    <3> QED BY <3>1
  <2>2. CASE WriteFails(h)
    BY <2>2 DEF WriteFails
  <2> QED BY <2>1, <2>2
<1>7. doubtful' \in BOOLEAN
  <2>1. doubtful' = (h \in disturbed) \/ doubtful' = TRUE
    BY Zenon DEF WriteFile, WriteFails
  <2> QED BY <2>1, (h \in disturbed) \in BOOLEAN, Zenon
<1>8. file' \in {file, copied[h], Empty, Garbled}
  BY DEF WriteFile, WriteFails
<1> QED BY <1>3, <1>4, <1>5, <1>6, <1>7, <1>8, MemoryTyped DEF Stages

\* Every step keeps the types and the mutex.
LEMMA PersistenceTyped ==
    ASSUME PersistenceTypeOK, LockDiscipline, [PersistenceNext]_persistenceVars
    PROVE  PersistenceTypeOK' /\ LockDiscipline'
<1> USE DEF PersistenceTypeOK
<1>1. CASE OutsideWrite /\ Beside
  <2>1. TypeOK' /\ LockDiscipline'
    BY <1>1, OutsideStep, StepTyped, StepLocks
  <2> QED BY <1>1, <2>1 DEF Beside
<1>2. CASE Done /\ Beside
  <2>1. TypeOK' /\ LockDiscipline'
    BY <1>2, StepTyped, StepLocks DEF Next
  <2> QED BY <1>2, <2>1 DEF Beside
<1>3. CASE \E h \in Handlers : Write(h)
  <2>1. ASSUME NEW h \in Handlers, Copying(h) PROVE PersistenceTypeOK' /\ LockDiscipline'
    BY <2>1, CopyingTyped, StepLocks
  <2> QED BY <1>3, <2>1, EndTyped DEF Write, Copying
<1>4. CASE UNCHANGED persistenceVars
  BY <1>4 DEF persistenceVars, volume, vars, table, flags, setting, config, inputs, TypeOK,
     LockDiscipline
<1> QED BY <1>1, <1>2, <1>3, <1>4, RestartTyped DEF PersistenceNext

-------------------------------------------------------------------------------
(* The copies and the file. *)

\* What a restart would read depends on the file alone.
LEMMA SameFile == UNCHANGED file => UNCHANGED ReadAlarmInfo
BY DEF ReadAlarmInfo, Parses

\* While another goroutine's step leaves the table alone, a copy stays good; a step that
\* changes the table is noted with everyone who writes.
LEMMA OutsideKeepsVolume ==
    ASSUME VolumeInv, OutsideWrite, Beside
    PROVE  BeginsAtId' /\ FaithfulCopies' /\ FileIsSaved'
<1>1. /\ ~crashed /\ UNCHANGED <<file, stage, copied, doubtful, saved>>
      /\ \A h \in Handlers : InWrite(h) => handler'[h] = handler[h]
  BY OutsideStep DEF VolumeInv, Beside
<1>2. \A h \in Handlers : handler[h].pc \notin WritePCs => stage[h] = "id"
  BY <1>1 DEF VolumeInv, BeginsAtId
<1>3. \A h \in Handlers : InWrite(h) <=> handler[h].pc \in WritePCs
  BY <1>1 DEF InWrite, WritePCs
<1>4. BeginsAtId'
  BY <1>1, <1>2, <1>3 DEF BeginsAtId
<1>5. ASSUME NEW h \in Handlers, InWrite(h)', h \notin disturbed' PROVE Faithful(h)'
  <2>1. CASE InWrite(h)
    <3>1. CurrentMemory' = CurrentMemory /\ h \notin disturbed
      BY <1>5, <2>1 DEF Beside
    <3>2. UNCHANGED <<uniqueAlarmId, activeAlarms, alarmHistory>>
      BY <3>1 DEF CurrentMemory
    <3>3. Faithful(h)
      BY <2>1, <3>1 DEF VolumeInv, FaithfulCopies
    <3> QED BY <1>1, <3>1, <3>2, <3>3 DEF Faithful
  <2>2. CASE ~InWrite(h)
    BY <1>1, <1>2, <1>3, <2>2 DEF Faithful
  <2> QED BY <2>1, <2>2
<1>6. FileIsSaved'
  BY <1>1, SameFile DEF VolumeInv, FileIsSaved
<1> QED BY <1>4, <1>5, <1>6 DEF FaithfulCopies

\* Each step of a write makes the copy one part more like the table, and opening the
\* file is noted with everyone else who writes.
LEMMA CopyingKeepsVolume ==
    ASSUME VolumeInv, NEW h \in Handlers, Copying(h)
    PROVE  BeginsAtId' /\ FaithfulCopies' /\ FileIsSaved'
<1> USE DEF VolumeInv, PersistenceTypeOK
<1>1. UNCHANGED <<vars, doubtful, saved>> /\ UNCHANGED <<crashed, handler>>
  BY DEF Copying, CopyId, MakeCopies, CopyActive, CopyHistory, OpenFile, vars, setting
<1>2. UNCHANGED CurrentMemory /\ UNCHANGED <<uniqueAlarmId, activeAlarms, alarmHistory>>
  BY <1>1 DEF CurrentMemory, vars, table
<1>3. handler[h].pc \in WritePCs /\ ~crashed /\ InWrite(h)
  BY DEF Copying, CopyId, MakeCopies, CopyActive, CopyHistory, OpenFile, Writing, InWrite,
     WritePCs
<1>4. /\ \A k \in Handlers \ {h} : stage'[k] = stage[k] /\ copied'[k] = copied[k]
      /\ \A k \in Handlers \ {h} : InWrite(k) /\ k \notin disturbed' =>
            k \notin disturbed /\ UNCHANGED file
      /\ file' \in {file, Empty}
  BY DEF Copying, CopyId, MakeCopies, CopyActive, CopyHistory, OpenFile, Disturb, Then
<1>5. BeginsAtId'
  BY <1>1, <1>3, <1>4 DEF BeginsAtId
<1>6. ASSUME NEW k \in Handlers \ {h}, InWrite(k)', k \notin disturbed' PROVE Faithful(k)'
  <2>1. InWrite(k)
    BY <1>1, <1>6 DEF InWrite
  <2>2. Faithful(k) /\ UNCHANGED file
    BY <1>4, <1>6, <2>1 DEF FaithfulCopies
  <2> QED BY <1>2, <1>4, <2>2 DEF Faithful
<1>7. ASSUME h \notin disturbed' PROVE Faithful(h)'
  <2>1. ~CopyId(h) => Faithful(h) /\ h \notin disturbed
    BY <1>3, <1>7 DEF Copying, MakeCopies, CopyActive, CopyHistory, OpenFile, Disturb,
       FaithfulCopies
  <2>2. /\ activeAlarms \in Seq(Notification) /\ alarmHistory \in Seq(Notification)
        /\ copied[h] \in Memory
        /\ copied[h].activeAlarms \in Seq(Notification)
        /\ copied[h].alarmHistory \in Seq(Notification)
    BY DEF TypeOK, Memory
  <2>3. CASE CopyId(h)
    <3>1. stage'[h] = "sizes" /\ copied'[h].uniqueAlarmId = uniqueAlarmId
      BY <2>2, <2>3 DEF CopyId, Then, Memory
    <3> QED BY <1>2, <3>1 DEF Faithful
  <2>4. CASE MakeCopies(h)
    <3>1. /\ stage[h] = "sizes" /\ stage'[h] = "active"
          /\ copied'[h].activeAlarms = Make(activeAlarms)
          /\ copied'[h].alarmHistory = Make(alarmHistory)
          /\ copied'[h].uniqueAlarmId = copied[h].uniqueAlarmId
      BY <2>2, <2>4 DEF MakeCopies, Writing, Then, Memory
    <3>2. copied[h].uniqueAlarmId = uniqueAlarmId
      BY <2>1, <2>4, <3>1 DEF MakeCopies, CopyId, Writing, Faithful
    <3>3. DOMAIN Make(activeAlarms) = DOMAIN activeAlarms
          /\ DOMAIN Make(alarmHistory) = DOMAIN alarmHistory
      BY <2>2, CopiesTyped
    <3> QED BY <1>2, <3>1, <3>2, <3>3 DEF Faithful
  <2>5. CASE CopyActive(h)
    <3>1. /\ stage[h] = "active" /\ stage'[h] = "history"
          /\ copied'[h].activeAlarms = Copy(copied[h].activeAlarms, activeAlarms)
          /\ copied'[h].alarmHistory = copied[h].alarmHistory
          /\ copied'[h].uniqueAlarmId = copied[h].uniqueAlarmId
      BY <2>2, <2>5 DEF CopyActive, Writing, Then, Memory
    <3>2. /\ copied[h].uniqueAlarmId = uniqueAlarmId
          /\ DOMAIN copied[h].activeAlarms = DOMAIN activeAlarms
          /\ DOMAIN copied[h].alarmHistory = DOMAIN alarmHistory
      BY <2>1, <2>5, <3>1 DEF CopyActive, CopyId, Writing, Faithful
    <3>3. Copy(copied[h].activeAlarms, activeAlarms) = activeAlarms
      BY <2>2, <3>2, CopiesTyped
    <3> QED BY <1>2, <3>1, <3>2, <3>3 DEF Faithful
  <2>6. CASE CopyHistory(h)
    <3>1. /\ stage[h] = "history" /\ stage'[h] = "open"
          /\ copied'[h] = [copied[h] EXCEPT
                !.alarmHistory = Copy(copied[h].alarmHistory, alarmHistory)]
      BY <2>2, <2>6 DEF CopyHistory, Writing, Then
    <3>2. /\ copied[h].uniqueAlarmId = uniqueAlarmId
          /\ copied[h].activeAlarms = activeAlarms
          /\ DOMAIN copied[h].alarmHistory = DOMAIN alarmHistory
      BY <2>1, <2>6, <3>1 DEF CopyHistory, CopyId, Writing, Faithful
    <3>3. Copy(copied[h].alarmHistory, alarmHistory) = alarmHistory
      BY <2>2, <3>2, CopiesTyped
    <3>4. copied'[h] = CurrentMemory
      BY <2>2, <3>1, <3>2, <3>3 DEF CurrentMemory, Memory
    <3>5. copied'[h].uniqueAlarmId = uniqueAlarmId
      BY <3>4 DEF CurrentMemory
    <3> QED BY <1>2, <3>1, <3>4, <3>5 DEF Faithful
  <2>7. CASE OpenFile(h)
    <3>1. /\ stage[h] = "open" /\ stage'[h] = "write" /\ UNCHANGED copied /\ file' = Empty
      BY <2>7 DEF OpenFile, Writing, Then
    <3>2. copied[h] = CurrentMemory /\ copied[h].uniqueAlarmId = uniqueAlarmId
      BY <2>1, <2>7, <3>1 DEF OpenFile, CopyId, Writing, Faithful
    <3> QED BY <1>2, <3>1, <3>2 DEF Faithful
  <2> QED BY <2>3, <2>4, <2>5, <2>6, <2>7 DEF Copying
<1>8. FileIsSaved'
  BY <1>1, <1>4, SameFile DEF FileIsSaved
<1> QED BY <1>5, <1>6, <1>7, <1>8 DEF FaithfulCopies

\* A write that ends undisturbed has written the table into the file it had emptied;
\* its end is noted with everyone else who writes.
LEMMA EndKeepsVolume ==
    ASSUME VolumeInv, NEW h \in Handlers, WriteFile(h) \/ WriteFails(h)
    PROVE  /\ BeginsAtId' /\ FaithfulCopies' /\ FileIsSaved'
           /\ ~doubtful' => ReadAlarmInfo' = CurrentMemory'
<1> USE DEF VolumeInv, PersistenceTypeOK
<1>1. /\ handler[h].pc \in WritePCs /\ ~crashed /\ InWrite(h)
      /\ Writing(h, "write") \/ Writing(h, "open")
      /\ EndWrite(h) /\ Disturb(h)
  BY DEF WriteFile, WriteFails, Writing, InWrite, WritePCs
<1>2. /\ UNCHANGED <<table, setting>>
      /\ handler'[h].pc \in {"post", "idle"}
      /\ \A k \in Handlers \ {h} : handler'[k] = handler[k]
      /\ stage' = [stage EXCEPT ![h] = "id"]
  BY <1>1, EndsWrite
<1>3. UNCHANGED crashed /\ CurrentMemory' = CurrentMemory
  BY <1>2 DEF table, setting, CurrentMemory
<1>4. BeginsAtId'
  BY <1>1, <1>2 DEF BeginsAtId
<1>5. FaithfulCopies'
  <2> SUFFICES ASSUME NEW k \in Handlers, InWrite(k)', k \notin disturbed' PROVE FALSE
    BY DEF FaithfulCopies
  <2>1. k # h
    BY <1>2 DEF InWrite
  <2>2. InWrite(k)
    BY <1>1, <1>2, <2>1 DEF InWrite
  <2> QED BY <1>1, <2>1, <2>2 DEF Disturb
<1>6. ~doubtful' => ReadAlarmInfo' = CurrentMemory' /\ saved' = CurrentMemory'
  <2> SUFFICES ASSUME ~doubtful'
               PROVE  ReadAlarmInfo' = CurrentMemory' /\ saved' = CurrentMemory'
    OBVIOUS
  <2>1. WriteFile(h)
    BY Zenon DEF WriteFails
  <2>2. h \notin disturbed
    BY <2>1, Zenon DEF WriteFile
  <2>3. saved' = CurrentMemory'
    <3>1. saved' = IF doubtful' THEN saved ELSE CurrentMemory
      BY <2>1, Zenon DEF WriteFile
    <3> QED BY <1>3, <3>1
  <2>4. copied[h] = CurrentMemory /\ file = Empty
    BY <1>1, <2>1, <2>2 DEF WriteFile, Writing, FaithfulCopies, Faithful
  <2>5. file' = CurrentMemory'
    BY <1>3, <2>1, <2>4 DEF WriteFile
  <2>6. CurrentMemory' \in Memory
    BY <1>3, MemoryTyped
  <2> QED BY <2>3, <2>5, <2>6, PersistenceAssumption DEF ReadAlarmInfo, Parses
<1> QED BY <1>4, <1>5, <1>6 DEF FileIsSaved

\* The strengthened invariant.
LEMMA VolumeInvariant == PersistenceSpec => []VolumeInv
<1>1. PersistenceInit => VolumeInv
  <2> SUFFICES ASSUME PersistenceInit PROVE VolumeInv
    OBVIOUS
  <2> USE DEF PersistenceInit
  <2>1. TypeOK
    BY TypeInit
  <2>2. PersistenceTypeOK
    BY <2>1, MemoryTyped DEF PersistenceTypeOK, Stages
  <2>3. LockDiscipline
    BY ManagerAssumption DEF Init, LockDiscipline, Idle, Critical
  <2>4. BeginsAtId /\ FaithfulCopies
    BY DEF BeginsAtId, FaithfulCopies, Faithful
  <2>5. FileIsSaved
    BY DEF FileIsSaved, ReadAlarmInfo, Parses
  <2> QED BY <2>2, <2>3, <2>4, <2>5 DEF VolumeInv
<1>2. VolumeInv /\ [PersistenceNext]_persistenceVars => VolumeInv'
  <2> SUFFICES ASSUME VolumeInv, [PersistenceNext]_persistenceVars PROVE VolumeInv'
    OBVIOUS
  <2>1. PersistenceTypeOK' /\ LockDiscipline'
    BY PersistenceTyped DEF VolumeInv
  <2>2. CASE OutsideWrite /\ Beside
    BY <2>1, <2>2, OutsideKeepsVolume DEF VolumeInv
  <2>3. CASE \E h \in Handlers : Write(h)
    BY <2>1, <2>3, CopyingKeepsVolume, EndKeepsVolume DEF VolumeInv, Write, Copying
  <2>4. CASE Restart
    <3>1. /\ stage' = [h \in Handlers |-> "id"] /\ saved' = ReadAlarmInfo /\ UNCHANGED file
      BY <2>4 DEF Restart
    <3>2. BeginsAtId' /\ FaithfulCopies'
      BY <3>1 DEF BeginsAtId, FaithfulCopies, Faithful
    <3>3. FileIsSaved'
      BY <3>1, SameFile DEF FileIsSaved
    <3> QED BY <2>1, <3>2, <3>3 DEF VolumeInv
  <2>5. CASE (Done /\ Beside) \/ UNCHANGED persistenceVars
    <3>1. UNCHANGED <<vars, volume>>
      BY <2>5 DEF Done, Beside, persistenceVars, volume, CurrentMemory, vars, table
    <3>2. UNCHANGED <<crashed, handler, uniqueAlarmId, activeAlarms, alarmHistory>>
          /\ UNCHANGED <<file, stage, copied, disturbed, doubtful, saved>>
      BY <3>1 DEF vars, volume, table, setting
    <3>3. BeginsAtId' /\ FaithfulCopies' /\ FileIsSaved'
      BY <3>2 DEF VolumeInv, BeginsAtId, FaithfulCopies, FileIsSaved, Faithful, InWrite,
         CurrentMemory, ReadAlarmInfo, Parses
    <3> QED BY <2>1, <3>3 DEF VolumeInv
  <2> QED BY <2>2, <2>3, <2>4, <2>5 DEF PersistenceNext
<1> QED BY <1>1, <1>2, PTL DEF PersistenceSpec

\* A restart at any moment goes on with the table as it was when it was last written
\* undisturbed, or with an empty one if some goroutine had opened the file and not
\* written it, however many goroutines copied and wrote the table at once before.
THEOREM RestartsRestore == PersistenceSpec => RestoresSaved
<1>1. VolumeInv /\ [PersistenceNext]_persistenceVars =>
         [restarts' # restarts /\ ~doubtful =>
             CurrentMemory' = IF file = Empty THEN NewMemory ELSE saved]_persistenceVars
  <2> SUFFICES ASSUME VolumeInv, PersistenceNext, restarts' # restarts, ~doubtful
               PROVE  CurrentMemory' = IF file = Empty THEN NewMemory ELSE saved
    OBVIOUS
  <2>1. Restart
    BY DEF PersistenceNext, Beside, Write, CopyId, MakeCopies, CopyActive, CopyHistory,
       OpenFile, WriteFile, WriteFails
  <2>2. CurrentMemory' = ReadAlarmInfo
    <3>1. ReadAlarmInfo \in Memory
      BY MemoryTyped DEF VolumeInv, PersistenceTypeOK
    <3> QED BY <2>1, <3>1 DEF Restart, CurrentMemory, Memory
  <2>3. CASE file = Empty
    BY <2>2, <2>3 DEF ReadAlarmInfo, Parses
  <2>4. CASE file # Empty
    BY <2>2, <2>4 DEF VolumeInv, FileIsSaved
  <2> QED BY <2>3, <2>4
<1> QED BY <1>1, VolumeInvariant, PTL DEF PersistenceSpec, RestoresSaved

-------------------------------------------------------------------------------
(* What is not in the file will be written. *)

\* A step that changes the table is one of a goroutine that is then committed to write,
\* or it leaves the table and everyone who will write alone.
Commits ==
    \/ \E k \in Handlers : WillWrite(k)'
    \/ CurrentMemory' = CurrentMemory /\ \A k \in Handlers : WillWrite(k) => WillWrite(k)'

\* A goroutine that was not committed and changes nothing in memory leaves the others
\* committed.
LEMMA QuietCommits ==
    ASSUME NEW h \in Handlers, ~WillWrite(h), UNCHANGED table,
           \A k \in Handlers \ {h} : handler'[k] = handler[k]
    PROVE  Commits
BY DEF Commits, WillWrite, CurrentMemory, table

\* The steps that take the mutex. The goroutine that waits for a raise delay gives up
\* only when its alarm is gone: it was not the one that would write.
LEMMA AcquireCommits ==
    ASSUME TypeOK, NEW h \in Handlers, Acquire(h)
    PROVE  Commits
<1>0. \A k \in Handlers \ {h} : handler'[k] = handler[k]
  BY OthersUntouched
<1>1. CASE RaiseDelayOver(h)
  <2>1. handler'[h].pc = "revealing"
    BY <1>1, RaiseDelayOverMoves, TypeSplit
  <2> QED BY <2>1 DEF Commits, WillWrite, Committed
<1>2. CASE \/ Suppress(h) \/ AcceptRaise(h) \/ AcceptClear(h) \/ ClearDelayOver(h)
           \/ ClearAbandoned(h)
  <2>1. UNCHANGED table /\ handler[h].pc \in {"waiting", "clearDelay"}
    BY <1>2 DEF Suppress, AcceptRaise, AcceptClear, ClearDelayOver, ClearAbandoned, At
  <2>2. ~WillWrite(h)
    BY <2>1 DEF WillWrite, Committed, Threshold
  <2> QED BY <1>0, <2>1, <2>2, QuietCommits
<1>3. CASE RaiseAbandoned(h)
  <2>1. /\ UNCHANGED table /\ handler[h].pc = "raiseDelay"
        /\ ~IsMatchFound(activeAlarms, handler[h].m)
    BY <1>3 DEF RaiseAbandoned, At
  <2>2. ~WillWrite(h)
    BY <2>1 DEF WillWrite, Committed, Threshold
  <2> QED BY <1>0, <2>1, <2>2, QuietCommits
<1> QED BY <1>1, <1>2, <1>3 DEF Acquire

\* A raised alarm with a raise delay is in the table when its goroutine begins to wait.
LEMMA RaiseCommits ==
    ASSUME TypeOK, NEW h \in Handlers, Raise(h) \/ RaiseOverLimit(h)
    PROVE  Commits
<1> DEFINE id == uniqueAlarmId + 1
           e  == [handler[h].m EXCEPT !.id = id]
<1>0. handler[h].m \in Notification /\ id \in Nat /\ id + 1 \in Nat
      /\ activeAlarms \in Seq(Notification)
  BY DEF TypeOK, Local
<1>1. e \in Notification /\ SameAlarm(e, handler[h].m)
  BY <1>0, NotificationUpdate DEF SameAlarm, Notification
<1>2. /\ handler'[h].pc \in {"raiseDelay", "history"}
      /\ SameAlarm(handler'[h].m, handler[h].m)
  <2>1. AfterRaising(h, id)
    BY DEF Raise, RaiseOverLimit
  <2> QED BY <1>0, <2>1 DEF AfterRaising, TypeOK, Local, SameAlarm, Notification
<1>3. \E s \in Seq(Notification) : activeAlarms' = Append(s, e)
  <2>1. CASE Raise(h)
    BY <1>0, <2>1 DEF Raise
  <2>2. CASE RaiseOverLimit(h)
    <3>1. ThresholdAlarm(ActiveProblem, id + 1) \in Notification
      BY <1>0, <2>2, ThresholdTyped, ManagerAssumption DEF RaiseOverLimit, TypeOK
    <3>2. Append(activeAlarms, ThresholdAlarm(ActiveProblem, id + 1)) \in Seq(Notification)
      BY <1>0, <3>1, AppendProperties
    <3> QED BY <2>2, <3>2 DEF RaiseOverLimit
  <2> QED BY <2>1, <2>2
<1>4. \E i \in DOMAIN activeAlarms' : activeAlarms'[i] = e
  <2>1. PICK s \in Seq(Notification) : activeAlarms' = Append(s, e)
    BY <1>3
  <2> HIDE DEF e
  <2>2. /\ Append(s, e) \in Seq(Notification) /\ Len(Append(s, e)) = Len(s) + 1
        /\ Append(s, e)[Len(s) + 1] = e
    BY <1>1, AppendProperties
  <2>3. Len(s) \in Nat /\ DOMAIN Append(s, e) = 1..(Len(s) + 1)
    BY <2>2, LenProperties
  <2> QED BY <2>1, <2>2, <2>3
<1>5. IsMatchFound(activeAlarms', handler'[h].m)
  BY <1>1, <1>2, <1>4 DEF IsMatchFound, SameAlarm
<1>6. WillWrite(h)'
  BY <1>2, <1>5 DEF WillWrite, Committed
<1> QED BY <1>6 DEF Commits

\* The steps between, and the panics that the process survives: of these only the one of
\* the history alarm without its definition forgets what was changed, for it holds no mutex.
LEMMA ProceedCommits ==
    ASSUME TypeOK, LockDiscipline, Defined(HistoryProblem), ~crashed',
           NEW h \in Handlers, ~InWrite(h), Proceed(h)
    PROVE  Commits
<1>0. \A k \in Handlers \ {h} : handler'[k] = handler[k]
  BY OthersUntouched
<1>1. CASE CheckHistory(h) \/ LoadId(h) \/ StoreId(h) \/ LoadActive(h) \/ StoreActive(h)
  <2>1. handler'[h].pc \in {"historyLoad"} \cup Threshold
    BY <1>1 DEF CheckHistory, LoadId, StoreId, LoadActive, StoreActive, Goto, Threshold,
       TypeOK, Local
  <2> QED BY <2>1 DEF Commits, WillWrite, Committed
<1>2. CASE LoadHistory(h) \/ StoreThresholdHistory(h)
  <2>1. handler'[h].pc \in {"historyLoad", "historyStore"} \cup Threshold
    BY <1>2 DEF LoadHistory, StoreThresholdHistory, Goto, Threshold, TypeOK, Local
  <2> QED BY <2>1 DEF Commits, WillWrite, Committed
<1>3. CASE StoreHistory(h)
  <2>1. handler'[h].pc = "persist"
    BY <1>3 DEF StoreHistory, Idle, TypeOK
  <2> QED BY <2>1 DEF Commits, WillWrite, Committed
<1>4. CASE Clear(h) \/ ClearOverLimit(h)
  <2>1. handler'[h].pc = "clearPersist"
    BY <1>4 DEF Clear, ClearOverLimit, Goto, TypeOK, Local
  <2> QED BY <2>1 DEF Commits, WillWrite, Committed
<1>5. CASE PanicIndex(h) \/ PanicRaising(h) \/ PanicClearing(h)
  <2>1. Panic(h) /\ mutex = h
    BY <1>5 DEF PanicIndex, PanicRaising, PanicClearing, At, LockDiscipline, Critical
  <2>2. handler'[h].pc = "stuck"
    BY <2>1 DEF Panic, TypeOK
  <2> QED BY <2>2 DEF Commits, WillWrite, Committed
<1>6. CASE Post(h) \/ PanicPosting(h)
  <2>1. UNCHANGED table /\ handler[h].pc = "post"
    BY <1>6 DEF Post, PanicPosting, At
  <2>2. ~WillWrite(h)
    BY <2>1 DEF WillWrite, Committed, Threshold
  <2> QED BY <1>0, <2>1, <2>2, QuietCommits
<1>7. ~Persist(h) /\ ~ClearDone(h) /\ ~PanicThreshold(h)
  BY DEF Persist, ClearDone, PanicThreshold, At, InWrite
<1>8. CASE SuppressDuplicate(h)
  <2>1. UNCHANGED table /\ handler[h].pc = "matched"
    BY <1>8 DEF SuppressDuplicate, HasMatched, At
  <2>2. ~WillWrite(h)
    BY <2>1 DEF WillWrite, Committed, Threshold
  <2> QED BY <1>0, <2>1, <2>2, QuietCommits
<1>9. CASE Replace(h) \/ Reveal(h)
  <2>1. handler'[h].pc \in {"raising", "history"}
    BY <1>9, MatchedMoves, TypeSplit
  <2> QED BY <2>1 DEF Commits, WillWrite, Committed
<1> QED BY <1>1, <1>2, <1>3, <1>4, <1>5, <1>6, <1>7, <1>8, <1>9, RaiseCommits DEF Proceed

\* Arrivals and changes from outside leave the table alone.
LEMMA OutsideCommits ==
    ASSUME TypeOK, LockDiscipline, Defined(HistoryProblem), ~crashed', OutsideWrite
    PROVE  Commits
<1>1. ASSUME NEW h \in Handlers, NEW m \in Requests, Submit(h, m) PROVE Commits
  <2>1. /\ UNCHANGED table /\ handler[h].pc = "idle"
        /\ \A k \in Handlers \ {h} : handler'[k] = handler[k]
    BY <1>1 DEF Submit, At, TypeOK
  <2>2. ~WillWrite(h)
    BY <2>1 DEF WillWrite, Committed, Threshold
  <2> QED BY <2>1, <2>2, QuietCommits
<1>2. CASE Environment
  <2>1. UNCHANGED <<table, handler>>
    BY <1>2 DEF Environment, SetAlarmDefinition, DeleteAlarmDefinition, SetAlarmConfig,
       ConfigChangeCB, SetLimits
  <2>2. UNCHANGED <<activeAlarms, alarmHistory, uniqueAlarmId, handler>>
    BY <2>1 DEF table
  <2> QED BY <2>2 DEF Commits, WillWrite, CurrentMemory
<1> QED BY <1>1, <1>2, AcquireCommits, ProceedCommits DEF OutsideWrite

\* Every step leaves the table in the file, or someone who will write it.
LEMMA StepKeepsDirty ==
    ASSUME VolumeInv, DirtyHasWriter, Defined(HistoryProblem),
           [PersistenceNext]_persistenceVars
    PROVE  DirtyHasWriter'
<1> SUFFICES ASSUME ~crashed', ~doubtful'
             PROVE  \/ ReadAlarmInfo' = CurrentMemory'
                    \/ \E h \in Handlers : WillWrite(h)'
  BY DEF DirtyHasWriter
<1>0. TypeOK /\ LockDiscipline
  BY DEF VolumeInv, PersistenceTypeOK
<1>1. CASE OutsideWrite /\ Beside
  <2>1. ~crashed /\ UNCHANGED <<file, doubtful>>
    BY <1>1, OutsideStep DEF VolumeInv, Beside
  <2>2. Commits
    BY <1>0, <1>1, OutsideCommits
  <2>3. ReadAlarmInfo' = ReadAlarmInfo
    BY <2>1, SameFile
  <2> QED BY <2>1, <2>2, <2>3 DEF DirtyHasWriter, Commits
<1>2. ASSUME NEW h \in Handlers, Copying(h) PROVE WillWrite(h)'
  <2>1. UNCHANGED vars /\ handler[h].pc \in WritePCs
    BY <1>2, WriteSteps DEF Write, Copying, CopyId, MakeCopies, CopyActive, CopyHistory,
       OpenFile
  <2> QED BY <2>1 DEF vars, WillWrite, Committed, WritePCs
<1>3. ASSUME NEW h \in Handlers, WriteFile(h) \/ WriteFails(h)
      PROVE  ReadAlarmInfo' = CurrentMemory'
  BY <1>3, EndKeepsVolume
<1>4. CASE Restart
  <2>1. ReadAlarmInfo \in Memory
    BY MemoryTyped DEF VolumeInv, PersistenceTypeOK
  <2>2. UNCHANGED file /\ CurrentMemory' = ReadAlarmInfo
    BY <1>4, <2>1 DEF Restart, CurrentMemory, Memory
  <2> QED BY <2>2, SameFile
<1>5. CASE (Done /\ Beside) \/ UNCHANGED persistenceVars
  <2>1. UNCHANGED <<vars, file, doubtful>>
    BY <1>5 DEF Done, Beside, persistenceVars, volume
  <2>2. /\ UNCHANGED <<crashed, handler, activeAlarms, alarmHistory, uniqueAlarmId>>
        /\ UNCHANGED <<file, doubtful>>
    BY <2>1 DEF vars, table, setting
  <2>3. DirtyHasWriter'
    BY <2>2 DEF DirtyHasWriter, WillWrite, CurrentMemory, ReadAlarmInfo, Parses
  <2> QED BY <2>3 DEF DirtyHasWriter
<1> QED BY <1>1, <1>2, <1>3, <1>4, <1>5 DEF PersistenceNext, Write, Copying

\* When no message is being dealt with, the file holds the table as it is in memory,
\* after any number of restarts and of goroutines that wrote at once, unless the last
\* write failed or was disturbed: as long as the definition of the "history exceeded"
\* alarm is there. Without it a raise over HTTP panics with its alarm in the table, is
\* recovered by net/http, and never writes.
THEOREM DurableWhileDefined ==
    PersistenceSpec /\ []Defined(HistoryProblem) => []Durable
<1>1. PersistenceInit => DirtyHasWriter
  BY DEF PersistenceInit, Init, DirtyHasWriter, ReadAlarmInfo, Parses, CurrentMemory, NewMemory
<1>2. VolumeInv /\ DirtyHasWriter /\ Defined(HistoryProblem)
         /\ [PersistenceNext]_persistenceVars => DirtyHasWriter'
  BY StepKeepsDirty
<1>3. DirtyHasWriter => Durable
  BY DEF DirtyHasWriter, Durable, WillWrite, Committed, Threshold
<1> QED BY <1>1, <1>2, <1>3, VolumeInvariant, PTL DEF PersistenceSpec

===============================================================================
