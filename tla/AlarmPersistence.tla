--------------------------- MODULE AlarmPersistence ---------------------------
(***************************************************************************)
(* The persistent volume: AlarmManager with the writes of alarminfo.json   *)
(* cut into their steps (WriteAlarmInfoToPersistentVolume), and restarts   *)
(* of the process at any moment (Run, ReadAlarmInfoFromPersistentVolume).  *)
(*                                                                         *)
(* A write copies the table variable by variable, opens the file, which    *)
(* truncates it, and writes it. A raise does so without the mutex, so the  *)
(* table may change between the copies and two goroutines may write the    *)
(* file at once.                                                           *)
(***************************************************************************)
EXTENDS AlarmProperties

CONSTANTS
    NoFile,        \* the file does not exist yet
    Empty,         \* the file was truncated
    Garbled,       \* one write over another of another length: it does not parse
    MaxRestarts    \* bound: how often the process is restarted

Memory == [uniqueAlarmId : Nat, activeAlarms : Seq(Notification), alarmHistory : Seq(Notification)]

ASSUME PersistenceAssumption == /\ \A f \in {NoFile, Empty, Garbled} : f \notin Memory
                                /\ MaxRestarts \in Nat

VARIABLES
    file,          \* alarminfo.json
    stage,         \* the next step of every goroutine's write
    copied,        \* alarmpersistentinfo, the goroutine's copy of the table
    disturbed,     \* history: goroutines that write while another one's step changes
                   \*   the table or the file
    doubtful,      \* history: the last write to end was disturbed or failed
    saved,         \* history: the table when the last write that was neither ended
    restarts

volume          == <<file, stage, copied, disturbed, doubtful, saved>>
persistenceVars == <<vars, volume, restarts>>

CurrentMemory == [uniqueAlarmId |-> uniqueAlarmId, activeAlarms |-> activeAlarms,
                  alarmHistory |-> alarmHistory]

\* What NewAlarmManager begins with.
NewMemory == [uniqueAlarmId |-> 0, activeAlarms |-> <<>>, alarmHistory |-> <<>>]

-------------------------------------------------------------------------------
(* WriteAlarmInfoToPersistentVolume. *)

InWrite(h) == ~crashed /\ handler[h].pc \in {"persist", "clearPersist"}

Writing(h, step) == InWrite(h) /\ stage[h] = step

Then(h, step) == stage' = [stage EXCEPT ![h] = step]

\* Mutant: the copy has no room for what is copied.
MakeNothing(list) == <<>>

\* make: as many zero values as the slice has elements.
Make(list) == [i \in DOMAIN list |-> ZeroNotification]

\* copy: the elements that both slices have.
Copy(to, from) == [i \in DOMAIN to |-> IF i \in DOMAIN from THEN from[i] ELSE to[i]]

CopyId(h) ==
    /\ Writing(h, "id")
    /\ copied' = [copied EXCEPT ![h].uniqueAlarmId = uniqueAlarmId]
    /\ disturbed' = disturbed \ {h}
    /\ Then(h, "sizes")
    /\ UNCHANGED <<vars, file, doubtful, saved, restarts>>

MakeCopies(h) ==
    /\ Writing(h, "sizes")
    /\ copied' = [copied EXCEPT ![h].activeAlarms = Make(activeAlarms),
                                ![h].alarmHistory = Make(alarmHistory)]
    /\ Then(h, "active")
    /\ UNCHANGED <<vars, file, disturbed, doubtful, saved, restarts>>

CopyActive(h) ==
    /\ Writing(h, "active")
    /\ copied' = [copied EXCEPT ![h].activeAlarms = Copy(@, activeAlarms)]
    /\ Then(h, "history")
    /\ UNCHANGED <<vars, file, disturbed, doubtful, saved, restarts>>

CopyHistory(h) ==
    /\ Writing(h, "history")
    /\ copied' = [copied EXCEPT ![h].alarmHistory = Copy(@, alarmHistory)]
    /\ Then(h, "open")
    /\ UNCHANGED <<vars, file, disturbed, doubtful, saved, restarts>>

Disturb(h) == disturbed' = disturbed \cup {g \in Handlers \ {h} : InWrite(g)}

\* ioutil.WriteFile opens the file with O_TRUNC.
OpenFile(h) ==
    /\ Writing(h, "open")
    /\ file' = Empty
    /\ Disturb(h)
    /\ Then(h, "write")
    /\ UNCHANGED <<vars, copied, doubtful, saved, restarts>>

\* The caller goes on, and releases the mutex if it holds it.
EndWrite(h) ==
    /\ Persist(h) \/ ClearDone(h)
    /\ stage' = [stage EXCEPT ![h] = "id"]
    /\ copied' = [copied EXCEPT ![h] = NewMemory]

\* The write begins at offset 0, over what another goroutine has written meanwhile.
WriteFile(h) ==
    /\ Writing(h, "write")
    /\ file' \in {copied[h]} \cup (IF file = Empty THEN {} ELSE {Garbled})
    /\ doubtful' = (h \in disturbed)
    /\ saved' = IF doubtful' THEN saved ELSE CurrentMemory
    /\ Disturb(h)
    /\ EndWrite(h)
    /\ UNCHANGED restarts

\* The open or the write fails, which is logged.
WriteFails(h) ==
    /\ \/ Writing(h, "open") /\ UNCHANGED file
       \/ Writing(h, "write") /\ file' = Empty
    /\ doubtful' = TRUE
    /\ Disturb(h)
    /\ EndWrite(h)
    /\ UNCHANGED <<saved, restarts>>

-------------------------------------------------------------------------------
(* The rest of the manager, and Run. *)

\* Whoever writes is disturbed by a change of the table.
Beside ==
    /\ disturbed' = IF CurrentMemory' = CurrentMemory THEN disturbed
                    ELSE {h \in Handlers : InWrite(h)}
    /\ UNCHANGED <<file, stage, copied, doubtful, saved, restarts>>

OutsideWrite == \/ \E h \in Handlers, m \in Requests : Submit(h, m)
                \/ \E h \in Handlers : ~InWrite(h) /\ (Acquire(h) \/ Proceed(h))
                \/ Environment

Parses == file \notin {NoFile, Empty, Garbled}

\* Mutant: only the active alarms are taken over.
RestoredHistoryLost == IF Parses THEN [file EXCEPT !.alarmHistory = <<>>] ELSE NewMemory

\* A file that cannot be read or parsed is logged, and the table stays empty.
ReadAlarmInfo == IF Parses THEN file ELSE NewMemory

\* The process dies at any moment and a new one starts. The threshold flags, the limits
\* and the definitions that were set over REST are those of the configuration again.
Restart ==
    /\ restarts < MaxRestarts
    /\ restarts' = restarts + 1
    /\ uniqueAlarmId' = ReadAlarmInfo.uniqueAlarmId
    /\ activeAlarms' = ReadAlarmInfo.activeAlarms
    /\ alarmHistory' = ReadAlarmInfo.alarmHistory
    /\ mutex' = Free
    /\ exceededActiveAlarmOn' = FALSE /\ exceededAlarmHistoryOn' = FALSE
    /\ maxActiveAlarms' = Limit(InitialConfig.maxActiveAlarms, DefaultMaxActiveAlarms)
    /\ maxAlarmHistory' = Limit(InitialConfig.maxAlarmHistory, DefaultMaxAlarmHistory)
    /\ definitions' = InitialDefinitions
    /\ handler' = [h \in Handlers |-> Idle]
    /\ crashed' = FALSE
    /\ stage' = [h \in Handlers |-> "id"]
    /\ copied' = [h \in Handlers |-> NewMemory]
    /\ disturbed' = {} /\ doubtful' = FALSE /\ saved' = ReadAlarmInfo
    /\ UNCHANGED <<file, inputs>>

PersistenceInit == /\ Init
                   /\ file = NoFile
                   /\ stage = [h \in Handlers |-> "id"]
                   /\ copied = [h \in Handlers |-> NewMemory]
                   /\ disturbed = {} /\ doubtful = FALSE /\ saved = NewMemory
                   /\ restarts = 0

Write(h) == \/ CopyId(h) \/ MakeCopies(h) \/ CopyActive(h) \/ CopyHistory(h)
            \/ OpenFile(h) \/ WriteFile(h) \/ WriteFails(h)

PersistenceNext == \/ OutsideWrite /\ Beside
                   \/ \E h \in Handlers : Write(h)
                   \/ Restart
                   \/ Done /\ Beside

PersistenceSpec == PersistenceInit /\ [][PersistenceNext]_persistenceVars

-------------------------------------------------------------------------------
\* What a client was told is kept: when no message is being dealt with, the file holds
\* the table as it is in memory, through restarts and although other goroutines have
\* written before, unless the last write failed or another step fell into its middle.
Durable ==
    (\A h \in Handlers : handler[h].pc = "idle") /\ ~crashed /\ ~doubtful
        => ReadAlarmInfo = CurrentMemory

\* A restart goes on with the table as it was when it was last written undisturbed,
\* wherever every goroutine was when the process died; with an empty table only if
\* some goroutine had opened the file and not written it.
RestoresSaved ==
    [][restarts' # restarts /\ ~doubtful =>
          CurrentMemory' = IF file = Empty THEN NewMemory ELSE saved]_persistenceVars

===============================================================================
