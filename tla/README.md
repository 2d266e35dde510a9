# The alarm manager of the near-RT RIC platform in TLA+

This directory keeps a formal model of the repository's alarm system: TLA+
modules translated from the Go source, TLC configurations that check them on
small instances, and theorems that TLAPS proves for every instance. Paths below
are relative to the repository; `manager.go` and `restapi.go` are in
`src/manager/cmd/`.

## 1. The system

Applications raise and clear alarms. An alarm travels through the *alarm
library* (`src/alarm`), over RMR or HTTP, to the *alarm manager*
(`src/manager/cmd`), which keeps the table of active alarms and the alarm
history, tells the Prometheus Alertmanager or NOMA about them, and answers the
operator's *command line interface* (`src/cli`) over REST.

| component | state | operations |
|---|---|---|
| alarm processing (`manager.go`) | `activeAlarms`, `alarmHistory`, `uniqueAlarmId`, two "threshold exceeded" flags, one mutex | `ProcessAlarm`, `ProcessRaiseAlarm`, `ProcessClearAlarm` and their helpers |
| REST interface (`restapi.go`) | none of its own | raise, clear, read tables; set, delete, read definitions; set, read limits |
| definitions (`alarm/types.go`) | the map `RICAlarmDefinitions`, not protected by any lock | read by `ProcessAlarm`, written by REST and at startup |
| configuration | `maxActiveAlarms`, `maxAlarmHistory`, `alertInterval` | `ConfigChangeCB`, `SetAlarmConfig` |
| TTL timer | none | `StartTTLTimer`, `ClearExpiredAlarms`: clears alarms that lived too long |
| alert timer | none | `StartAlertTimer`, `ProcessAlerts`: posts every active alarm again, follows the alerts of the application FM |
| persistence | the file `alarminfo.json` | `WriteAlarmInfoToPersistentVolume`, `ReadAlarmInfoFromPersistentVolume` |
| alarm library (`alarm.go`) | RMR context, `rmrReady`, one mutex | `Raise`, `Clear`, `Reraise`, `ClearAll`, the RMR send with its HTTP fallback |
| RMR glue (`utils.c`) | none | `rmrInit`, `rmrSend` with retries, `rmrRcv` |
| CLI (`alarm-cli.go`) | none | one HTTP or RMR request per command (`postAlarm` and others) |
| performance tool (`alarm-cli.go`) | a WaitGroup, one channel per worker | peak and endurance test |

### How the parts interact

`ProcessAlarm` is entered from three sides: from the RMR callback (`Consume`,
one worker, `config-file.json:14`), from one goroutine per HTTP request
(`doAction`), and from goroutines that `ProcessAlerts` starts. All take
`a.mutex` first. The mutex is then given up in three places in the middle of
the work:

* `ProcessRaiseAlarm` releases it for good after the table of active alarms was
  extended; the raise delay, `UpdateAlarmHistoryList`, the write to the
  persistent volume and the post run without it (the look-up after the raise
  delay takes it once more);
* `ProcessClearAlarm` releases it for the clear delay and takes it again;
* a panic leaves it locked when `net/http` recovers the panic.

REST handlers other than raise and clear never take it.

### What is hard

Interleavings of goroutines over the table, in and outside the mutex; the state
read before a delay and used after it; several clears of one alarm in their
delays at once; the threshold alarm that one raise or clear generates for
another; limits at their boundary; definitions that disappear between two
look-ups; a panic with the mutex held. `PROJECT.json` lists each at its line
under `hazards`, with the property that would catch it.

### What makes each part correct

* alarm processing: one active alarm per identity; ids unique; an alarm leaves
  the table only because it was cleared (and the clear is in the history) or
  replaced by a raise of another severity; nothing stays hidden for ever; no
  request is lost in a lock;
* the whole of it, to a client: every message takes effect at one moment, as if
  it were dealt with alone;
* definitions and limits: a change never corrupts the table; raises and clears
  alone never make the manager panic, only a change of a definition in use and the
  history alarm that is generated without the mutex can;
* TTL timer: it clears the alarms that have expired and no others;
* alert timer: the FM alarms follow the Alertmanager's alerts;
* persistence: what was written is what the next process begins with;
* library: a message is handled at most once, the manager ends up agreeing with
  the last call, and every call returns, HTTP permitting;
* performance tool: the test ends if its posts do, not before its workers have, and
  the peak test leaves no alarm raised.

## 2. Modules

| module | extends | models | theorems |
|---|---|---|---|
| `AlarmTable` | | notifications, alarm identity, `IsMatchFound`, `RemoveAlarm` | |
| `AlarmManager` | `AlarmTable` | the goroutines of `ProcessAlarm`, definitions, limits, panics | |
| `AlarmProperties` | `AlarmManager` | what the manager promises | |
| `AlarmBoard` | | the abstract manager: cards, calls and atomic effects | |
| `AlarmRefinement` | `AlarmProperties` | how the goroutines are seen as `AlarmBoard` | |
| `AlarmManagerProofs`, `AlarmLibraryProofs`, `PerfToolProofs` | the module named | | section 4 |
| `AlarmIdProofs` | `AlarmManagerProofs` | | section 4 |
| `TtlTimerProofs`, `AlertTimerProofs`, `AlarmPersistenceProofs` | the module named, `AlarmManagerProofs` | | section 4 |
| `AlarmBoardProofs` | `AlarmRefinement`, `AlarmManagerProofs` | | section 4 |
| `TtlTimer` | `AlarmProperties` | `StartTTLTimer`, `ClearExpiredAlarms` beside the goroutines | |
| `AlertTimer` | `AlarmProperties` | `StartAlertTimer`, `ProcessAlerts`, the posts; the Alertmanager is external | |
| `AlarmPersistence` | `AlarmProperties` | the writes of `alarminfo.json` step by step, the death of the process and its next start | |
| `AlarmLibrary` | | `Raise`, `Clear`, `Reraise`, `ClearAll`, `InitRMR`, `rmrSend`; RMR, HTTP and the manager are external | |
| `PerfTool` | | the peak and the endurance test of the CLI; the manager, HTTP and RMR are external | |
| `MC...` | one of the above | constants of the instances TLC checks | |

A module that extends `AlarmManager` keeps its actions as they are and says what
happens to its own variables beside each of them (`...Beside`).

Definitions whose comment begins with "Mutant" are not part of the model: each is
a plausible bug, put in the place of the definition that follows it to see that a
property notices.

### AlarmManager

A goroutine that runs `ProcessAlarm` is an element of `Handlers`; `handler[h]`
holds its program counter and locals. *What a goroutine does between `Lock` and
`Unlock` is one step*, because no other goroutine that respects the mutex can
see the middle of it. *What it does without the mutex is cut at every read and
write of a shared variable.* The one place where code outside the mutex writes
the table is `UpdateAlarmHistoryList` (manager.go:296-308) with the
`GenerateThresholdAlarm` it may call, and it is cut into loads and stores
(`CheckHistory` ... `StoreHistory`). Because of these racing stores the mutex's holder is
cut in two where a store hurts: an index that `IsMatchFound` returns is found in one
step, the one that takes the mutex (`AcceptRaise`, `AcceptClear`, `RaiseDelayOver`,
`ClearDelayOver`), and used in another (`SuppressDuplicate`, `Replace`, `Reveal`,
`Clear`), and a raise appends in a step of its own (`Raise`). `RacyAppend` and
`RacyIncrement` give every value a racing `append` or `++` can leave.

| program counter | where the goroutine is |
|---|---|
| `idle` | not in `ProcessAlarm` |
| `waiting` | at `a.mutex.Lock()`, manager.go:121 |
| `matched`, `revealing` | inside the mutex, with an index into the table: 132-140; 172-174 |
| `raising`, `clearing`, `clearPersist` | inside the mutex: 158-165; 210-224; 225-227 |
| `raiseDelay`, `clearDelay` | in `timerDelay`, 168 and 199 |
| `history`, `historyLoad`, `historyStore`, `threshold...` | in `UpdateAlarmHistoryList`, 185 |
| `persist`, `post` | 186; 188-192 |
| `stuck` | ended by a recovered panic with the mutex held |

| code | actions |
|---|---|
| `ProcessAlarm` 120-156 | `Submit`, `Suppress`, `AcceptRaise`, `SuppressDuplicate`, `Replace`, `AcceptClear` |
| `ProcessRaiseAlarm`, `UpdateActiveAlarmList` | `Raise`, `RaiseOverLimit`, `RaiseDelayOver`, `Reveal`, `RaiseAbandoned`, `PanicRaising`, `PanicIndex` |
| `UpdateAlarmHistoryList`, `GenerateThresholdAlarm` | `CheckHistory`, `LoadId`, `StoreId`, `LoadActive`, `StoreActive`, `LoadHistory`, `StoreThresholdHistory`, `StoreHistory`, `PanicThreshold` |
| write and post after a raise | `Persist`, `Post`, `PanicPosting` |
| `ProcessClearAlarm` | `ClearDelayOver`, `ClearAbandoned`, `Clear`, `ClearOverLimit`, `ClearDone`, `PanicClearing` |
| `SetAlarmDefinition`, `DeleteAlarmDefinition` | actions of the same names |
| `SetAlarmConfig`, `ConfigChangeCB` | actions of the same names |

Abstractions. An object (ManagedObjectId, ApplicationId, IdentifyingInfo) is one
model value and an alarm text is left out. A delay is over at any time after it
began. A definition keeps its id and delays. `Requests` are the messages clients
send; clients do not raise alarms under the manager's own identities
(`ManagerObject`: `SEP/ALARMMANAGER` with `active` or `history` as IdentifyingInfo,
which the problem number tells apart; `ClientAssumption`), but may clear them, which
is how an operator silences the threshold alarms. Replacing an alarm reads the entry's
severity (134) and removes it (140) in one step: a racing store between these two lines
is left out. `ConfigChangeCB` sets a limit to 0 before
its default (473-476); a limit of 0 is what `SetAlarmConfig` can leave for good, so that
this moment adds nothing. `GenerateAlarmId` returns the counter after the increment; the
compiler forwards the value it has just stored, and so does `StoreId`.

`SetAlarmDefinition` and `DeleteAlarmDefinition` write a Go map that other
goroutines read, or iterate over, without a lock: the runtime may stop the process
at any such write (`WriteMap`), and no recover helps.

### AlarmBoard and AlarmRefinement

`AlarmBoard` is what a client may believe: a board with cards, one per alarm, and
calls that take effect in one step. It has no mutex, no goroutines, no history and
no ids. `AlarmRefinement` maps the goroutines to it: `Board` are the application's
entries of `activeAlarms` *and the alarm about to be appended* (`BeingRaised`),
because a raise takes effect when it finds nothing to replace or removes what it
replaces, one step before its own entry is in the table; `Status` says when a call has had its effect. A card is
face down while its raise delay runs. The manager's own threshold alarms are not on
the board, so that the limits are inside the refinement and not outside it.
`Redefine` is the only step of the board that is not a client's call.

| board | what refines it |
|---|---|
| `Begin` | `Submit` |
| `Accept` | `AcceptRaise` when an alarm of the identity is active |
| `Raise` | `AcceptRaise` when none is, `Replace` |
| `Reveal`, `GiveUp` | `Reveal`, `RaiseAbandoned` |
| `Clear` | `Clear`, `ClearOverLimit` |
| `Nothing` | `Suppress`, `SuppressDuplicate`, `ClearAbandoned` |
| `Return` | `Post`, `ClearDone`, a panic outside the mutex |
| stutter | the rest: ids, history, limits, the write to the volume |

### TtlTimer

The timer is one more goroutine (`Timer`), which enters `ProcessClearAlarm` from
its loop and not through `Lock`. `for idx, m := range a.activeAlarms` captures a
slice; `captured` is what its array holds, and `attached` says whether
`a.activeAlarms` still lives in that array, so that a removal or an append by
anybody changes what the loop will read (`Shadow`). Actions: `Tick`,
`SkipLiving`, `ClearExpiredAlarms`, `Relock`, `Sleep`; `Expire` lets an alarm's
time to live pass. Definitions and limits do not change in its instances.

### AlertTimer

The mutex is held from `Tick` over both HTTP exchanges (`ProcessAlerts` or
`GetAlertsFails`, then `RePost` or `RePostPanics`). The alarms are posted one by one
and each post succeeds or fails by itself (`PostEach`): an error does not end the loop
(86-89), an alarm without its definition does, after the posts before it.
`ProcessAlerts` starts a goroutine of `Workers` for each clear and raise; it clears the
alarms of every object whose ApplicationId is FM (`FollowedObjects`, 431), whoever
raised them. The
Alertmanager is external: `alerts` are FM's, which `Fire` and `Resolve` change,
`posted` are those it keeps because the manager posted them and drops at any
time (`TimeOut`). `Fire` keeps one alert of an identity at a time.

### AlarmPersistence

`Persist` and `ClearDone` of `AlarmManager` are cut into `CopyId`, `MakeCopies`,
`CopyActive`, `CopyHistory`, `OpenFile`, `WriteFile` or `WriteFails`; `copied` is
the goroutine's local, `file` the volume. `Restart` may happen at any moment: the
table is what the file holds, the rest is what `NewAlarmManager` and the
configuration give. The timers, which `Run` starts before the table is read, are
not composed with it.

### AlarmLibrary

A goroutine of the application takes `r.mutex` (`Enter`), checks `rmrCtx` and
`rmrReady` (`CheckRmr`), offers the message to RMR (`RmrSend`, `RmrRetry`,
`RmrFail`) and posts it if RMR did not take it (`HttpPost`, `HttpRefused`,
`HttpFail`); a Reraise does so twice. `InitRMR` runs beside it and its two
unlocked writes are seen by the callers in either order (`visible`, `See`). RMR
is a sequence of messages that it delivers in order or drops; a post without an
answer may still be handled (`lingering`, `HandleLate`).

### PerfTool

`main` is the goroutine of the command: it reads and sends the definitions, reads
the alarms (`conductperformancetest`; each step may fail and end it), starts one
goroutine for each alarm up to the number wanted (`StartWorker`, `AllStarted`) and
waits for `wg` (`Wait`); the process ends with it. A worker raises its alarm
(`FirstPost`), and from then on does what it is told over its channel of one
element (`Receive`, `RaiseAgain`, `ClearAgain`). `asleep` are the goroutines in
`wakeUpAfterTime`, which send when their sleep is over and the channel has room.
Sleeps have no length, so that an endurance test may be shorter than a second. A
post may be lost; over RMR it waits until the worker's own client is ready, which
may never be. `StartWorker` takes the alarms in any order, as Go's `range` over a
map does.

## 3. What TLC checks

| run | states | properties | shows |
|---|---|---|---|
| `Delays` | 588 465 | `TypeOK`, `UniqueIdentity`, `ClearedIsGone`, `IndexTargetsOwnAlarm`, `PendingHasRaiser`, `PendingNotRecorded`, `LeavesOnlyClearedOrReplaced`, `ImplementsBoard` | three goroutines, four messages over five kinds: raises of two severities and clears of one alarm, another alarm beside it, both delays |
| `ActiveLimit` | 915 119 | `UniqueIds`, `FlagImpliesAlarm`, `LockDiscipline` | three goroutines, four messages, both delays, a limit of one active alarm, operator's clears, one change of the limits or deletion of a definition in use, with the panics it leads to |
| `Definitions` | 85 706 | `PanicHasCause`, `RequestsHandled` | a definition deleted while in use or the history limit set to 0, both limits reached, with the data race on table, history and id counter; panics recovered by `net/http` and not, among them the index that a racing store cuts off |
| `TtlDelayed` | 69 159 | `TimerLockDiscipline`, `IndexTargetsOwnAlarm`, `PanicHasCause`, `ExpiredResolved` | two mortal alarms with clear delays, a client's clear beside the loop |
| `AlertsFollowed` | 95 670 | `FmFollowsAlerts`, `RequestsHandled` | an alert of FM fires and is resolved, beside a client's alarm of another object of FM, with clear delays: two goroutines of one tick, and one of an earlier |
| `AlertsKept` | 192 428 | `KeptActive`, `AlertLockDiscipline` | an application's alarm, raised and cleared, beside FM's, posts that fail one by one, its definition deleted and set again |
| `Library` | 236 723 | `TypeOK`, `HandledOnce`, `LastCallWins`, `CallsReturn` | two goroutines, three calls of any kind, every failure of the transports |
| `Restart` | 427 999 | `Durable`, `RestoresSaved` | two goroutines writing the file, one with and one without the mutex, failing writes, one restart at any step |
| `PerfTest` | 26 350 | `TypeOK`, `MainWaitsForWorkers`, `PeakLeavesNothing`, `PostsAlternate`, `TestEnds` | both tests over both interfaces, two workers for three alarms, wake-ups racing for the channel, lost posts, clients that never are ready |

Bounds. Two goroutines are enough for every race of two, three for the two
clears in their delays while a raise replaces the alarm between them. Three or
four messages let an alarm be raised, replaced, cleared and raised again. The
limits of 1 are passed by the second message. Two expired alarms are needed for
the loop's index to go stale. Two attempts stand for the library's ten: the first
is retried, the second is the last. Three calls give a Reraise a call before it
and one after. One restart is enough to compare the tables on both sides.
Two workers for three alarms show that the tool stops at the number wanted and
that one may end while the other is being started. `Definitions` has two
goroutines and two messages. A history limit of 0, which `SetAlarmConfig` accepts
(restapi.go:230), makes the first raise store the history alarm without the mutex; a
raise over the active limit beside it adds two entries, and the store cuts them off while
the other goroutine has its index (`PanicIndex`). With limits above 0 the same takes three
goroutines and more messages. Both properties of the run are stated so as to include it:
`PanicHasCause` names the stored history alarm as a cause and is proved for any number of
goroutines and messages, and `RequestsHandled` excepts a manager in which a goroutine has
panicked, whatever of. Safety over definitions and four messages is in `ActiveLimit`.

`MaxRequests`, `MaxChanges`, `MaxAlertChanges`, `MaxCalls` and `MaxRestarts`
bound the inputs and appear in the guards of the input actions only, and
`AlertTimer`'s `Tick` waits until `Workers` has a goroutine for every alarm of FM
it may have to raise or to clear. The alert of `AlertsFollowed` has one severity (with two
of them the run has 1.9 million states, too many for its liveness);
`AlertsKept` has both.

`ActiveLimit`, `Definitions`, `ClearPanics` and `TtlPanics` do not check for deadlock: a
goroutine that panicked with the mutex held really stops the manager, and so does the
death of the process.

### Fairness

`FairSpec` of `AlarmManager` assumes weak fairness of the steps a goroutine can
take without waiting for the mutex (the Go scheduler runs every ready goroutine,
and delays end), except the post to NOMA, which has no timeout (320; `Bounded`), and strong fairness of the steps that begin with `Lock`:
`sync.Mutex` passes into starvation mode and hands the lock to a waiter of more
than a millisecond. `TtlFairSpec` adds that the ticker fires and the loop goes on.
`AlertFairSpec` adds that the ticker fires, that an HTTP exchange ends (the client
has a timeout), that the Alertmanager answers and takes a post again and again
(without which neither property is a matter of this code), and that it drops an
alert that is not posted again. The library's `FairSpec` makes a call's own steps
weakly fair and its `Lock` strongly fair, and says nothing of RMR, which may ask
for another attempt for ever, nor of an HTTP exchange: `http.Post` has no timeout
(alarm.go:154), and `ClearPanics` reaches a manager that lives and never answers.
`CallsReturn` says that every call returns unless some call stays in such an exchange
for ever; a call that waits for the mutex behind it waits too. `PerfTool`'s `FairSpec`
makes main and every worker's receive weakly fair and a sender to a full channel strongly
fair, since Go serves the senders of a channel in their order; it says nothing of a
post, neither of main's (alarm-cli.go:588) nor of a worker's (297, 275, or the library's),
and `TestEnds` excepts a post that never ends. Both say that there is nothing else to
wait for without a bound.

### Where the code does not do what the repository says

Three runs check a sentence of the documentation, a comment or a test and end
with a counterexample.

| run | what is said | what happens |
|---|---|---|
| `HiddenByRace` (`PendingHasRaiser`) | manager.go:161: a raise delay above 0 in the table means that the delay is still ongoing | at the history limit, the history alarm is appended without the mutex (303, 278) while another goroutine reveals its alarm (174): the store brings the hidden entry back and nobody will reveal it. `Delays` shows the property without the race |
| `ClearPanics` (`AcceptedClearReturns`) | README.md:42: Clear clears an active alarm | with its definition deleted during the delay the goroutine panics and the mutex stays locked (264) |
| `TtlPanics` (`ExpiredResolved`) | manager_test.go:577: an expired alarm should be cleared | without a clear delay the first clear of a tick shortens the table and the second uses its old index (70, 60, 210): index out of range, the process dies. `TtlDelayed` shows the property with delays |

Other differences were met while the modules were written. Each was seen in a
counterexample or follows from a few lines; the properties above are stated so
that they do not depend on them.

* Every clear at a full history raises the history alarm again: 215 drops the
  flag that `GenerateThresholdAlarm` returns (docs/user-guide.rst:87: the same
  alarm is not raised twice).
* The flag of a threshold alarm goes down with any alarm of its problem number
  (218), so that it is raised twice (comment at 285-286).
* The delay of an earlier alarm of the same identity reveals a later one before
  its own delay is over (171-174, comment at 173).
* The history is appended to beyond its limit (307, comment at 297-299).
* An append to the history without the mutex can lose an event of another
  goroutine (185).
* That store of the table can be shorter than the table was when a goroutine inside the
  mutex looked up its index: `a.activeAlarms[idx]` (134, 140, 174, 210) is then out of
  range, with the mutex held. `Definitions` reaches it at a history limit of 0, a
  simulation with three goroutines and six messages at a limit of 1, with no definition
  ever changed; `PanicHasCause` names the stored history alarm as a cause, and `PanicsWhileUnraced` (section 4) shows that
  the race is the only one.
* The posts of the library (alarm.go:154), of the command line (alarm-cli.go:297, 588)
  and to NOMA (manager.go:320) have no timeout. The library holds its mutex meanwhile, so
  that one exchange that does not end blocks every later call of the application.
* `GetActiveAlarms` and `GetAlarmHistory` (restapi.go:62-70) read the tables without
  the mutex, element by element while `RemoveAlarm` shifts them: an alarm can be
  missing from the answer, or twice in it.
* A request that lists the definitions while another writes one, or two that write
  at once, can stop the process (restapi.go:115, 131, 170, 290).
* The CLI prints "command executed successfully!" after a post that failed
  (alarm-cli.go:316), and a lost clear of the peak test leaves its alarm raised; the
  endurance test ends with whatever its last post was, so that alarms may stay
  raised. `undefine` of a negative id asks for a number the manager refuses (407).
  docs/user-guide.rst:256 names `PERF_OBJ_FILE` only, but without `PERF_DEF_FILE`
  (543) no test starts.
* A threshold alarm writes its alarm id into the shared definition (277), and the
  definition of a problem no longer carries its number.
* A clear that the TTL timer delays clears an alarm by identity: one that was
  raised anew during the delay, and has not expired, is cleared (204); without a
  clear delay a stale index clears the wrong alarm when it is not out of range (60).
* The alert timer posts alarms whose raise delay is still running (86-88), and a
  deleted definition of an active alarm makes its next tick panic (337).
* Definitions set over REST are not stored: after a restart an alarm restored
  without its definition makes the alert timer panic, again at each start.
* A pending alarm is restored as pending and never revealed; the threshold flags
  are not restored with their alarms (537-538).
* Two writes of the file at once can leave the older table or a file that does not
  parse behind (559); `Durable` is stated for writes that nothing disturbed.
* The library takes any HTTP answer for success (159) and lets HTTP overtake what
  RMR still carries, so that a Reraise may end with the alarm cleared and no error;
  `LastCallWins` excludes both. `ClearAll` is sent, and the manager ignores it
  (README.md:44; docs/user-guide.rst:101 says it is not supported yet).

## 4. What is proved

All theorems hold for every set of goroutines, objects, problems, severities,
definitions, limits and requests that satisfies the named assumptions
(`TableAssumption`, `ManagerAssumption`, `ClientAssumption`), without the bounds
of section 3.

* `TypeCorrect`: `Spec => []TypeOK`. One lemma per group of actions
  (`RecordingTyped` is the unlocked part).
* `MutualExclusion`: `Spec => []LockDiscipline`. Inductive together with
  `TypeOK`: each action moves at most one goroutine into or out of `Critical`
  and moves `mutex` with it.
* `IdentityWhileUnraced`, `ClearsWhileUnraced`: `Spec /\ []TableUnraced` implies
  `[]UniqueIdentity` and `[]IndexTargetsOwnAlarm`. Neither is inductive. `IdentityInv`
  adds `RaiseUnmatched` (the alarm that is about to be appended has no match in the
  table, which the mutex keeps true until the append) and `ClientsRaiseOwn`.
  `RemoveAlarmProperties` gives what removal does to a sequence. The lemmas about
  single steps ask of the mutex only `HeldInside` (whoever is inside holds it), so
  that they serve beside the TTL timer too.

The premise `TableUnraced`, which the next theorems share, is about the one write of the
table that the code makes without the mutex: UpdateAlarmHistoryList generates the history
alarm (303, 278). It does not forbid that. It says that the slice that a goroutine has
read for this append is still the table when it writes it back, so any number of
goroutines may generate history alarms, one after another or beside goroutines that
raise and clear, whose steps may fall anywhere but between the read and the write. Then
the append adds the alarm or is overwritten by the goroutine inside the mutex
(`StoreActiveAppends`), and the alarm that it adds is the manager's own (`GeneratesOwn`).
Without the premise the write brings back alarms that others have removed and loses
those that others have added: `HiddenByRace` reaches such states. `IdUnraced` says the
same of the id counter (276 reads, increments and writes it), and that the goroutine
inside the mutex does not write the counter at that moment; `Unraced` is both. Where it
is asked for, `TableUnraced` alone is not enough: two generators that read one value of
the counter take the same id, or a stale write sets the counter back, and TLC finds
`UniqueIds` and `ClearedIsGone` violated. TLC checked the invariants below under these
premises before they were proved, with three goroutines and three requests.

* `PanicsExplained`: `Spec => PanicHasCause`, an action property without a premise: the
  cause is there at the moment of the panic. `PanicHasReason` splits the panics into
  those of a definition that is missing and those of an index; `IndexInv` says that an
  index that a goroutine inside the mutex holds is in the table unless the history
  alarm has been stored without the mutex. It is inductive, because whoever shortens
  the table otherwise holds the mutex, and so does the clear that takes the stored
  alarm's flag down, which gives its own index up in that step.
* `PanicsWhileUnraced`: `Spec /\ []TableUnraced => OnlyDefinitionsPanic`. Under that
  premise no index panics at all, at the history limit either: `IndexTargetsOwnAlarm`
  puts every index in the table.
* `ImplementsBoardWhileUnraced`: `Spec /\ [](TableUnraced /\ NoneStuck) =>
  ImplementsBoard`. The invariant `BoardInv` is `TypeOK`, `LockDiscipline`,
  `IdentityInv` and `MessagesKept` (what a goroutine remembers of its message over its
  delays): from unique identities the cards of an alarm are at most one, and the entry
  at an index is the only one that a clear takes off the board (the `CardsOf...`
  lemmas). One lemma per action gives the board's step; `StepRefines` puts them
  together. The history alarm is the manager's own and has no card
  (`StoreActiveUnseen`). `NoneStuck` is needed, because a goroutine that panicked inside
  the mutex has lost its message with its locals.

* `IdsWhileUnraced`: `Spec /\ []Unraced => []UniqueIds`. `RemoveKeepsIds` and
  `AppendKeepsIds` say what the steps that change the table (`TableStep`) do to its ids,
  `CounterGrows` that the counter never goes back. Not inductive: the history alarm has
  its id for two steps before it is stored. `IdInv` adds `GivenOut` (no goroutine holds
  an id above the counter) and `Fresh` (nobody else has the id of a history alarm on its
  way to the table: no entry, no alarm about to be recorded, no other such alarm).
* `FlagWhileHealthy`: `Spec /\ [](TableUnraced /\ Healthy) => []FlagImpliesAlarm`. The
  clear removes the limit's alarm only when its message carries the limit's problem, and
  then the flag goes down: this rests on `IndexTargetsOwnAlarm` from `IdentityInv`.
  `Healthy` (no goroutine has panicked) is needed, because a clear at a full history
  that panics over the history alarm's missing definition (277) has removed the alarm
  (212) and not yet reset the flag (219).
* `PendingWhileUnraced`: `Spec /\ [](Unraced /\ OwnUndelayed) => []PendingHasRaiser`.
  `PendingInv` adds that an entry with the id a goroutine waits for has that
  goroutine's identity; with `UniqueIdentity` a goroutine that wakes up can only reveal
  its own alarm or the one that has replaced it, and when it finds none nobody else's
  alarm waited for it. The history alarm does not disturb this because its id is
  nobody's (`Fresh`). `OwnUndelayed` says that the manager's own problems have no
  raise delay (definitions/alarm-definition.json); their alarms have no goroutine that
  would reveal them.
* `NoAlarmLostWhileUnraced`: `Spec /\ []TableUnraced => LeavesOnlyClearedOrReplaced`, an
  action property. `KindInv` says that a goroutine in ProcessRaiseAlarm carries a raise
  and one in ProcessClearAlarm a clear (`KindInvariant` proves it without a premise); each
  step that changes the table is then shown to take out only what it records or replaces
  (`TableStepLeaves`).
* `ClearedWhileUnraced`: `Spec /\ []Unraced => []ClearedIsGone`. The invariant `RecordInv`
  is about all that may become the history: besides the history itself the slices that
  goroutines have read and will write back (`Records`). None has an id that was not
  given out, and a CLEAR in one of them is of an alarm that has left, at one place only,
  and whose id no history alarm on its way to the table has. Appends to the history
  itself may race as they like: an append moves no record to another place
  (`RacyPlaced`). It uses `UniqueIds`: the alarm that is removed was the only one with
  its id.
* `PendingUnrecordedWhileUnraced`: `Spec /\ [](Unraced /\ OwnUndelayed) =>
  []PendingNotRecorded`. `ShownInv` says the same of the slices read and of what
  goroutines are about to append, the history alarm among it. It rests on `PendingInv`:
  who reveals an alarm is the goroutine that records it.
* `TimerMutualExclusion`: `TtlSpec => []TimerLockDiscipline`. While the loop does not
  scan, the mutex obeys `LockDiscipline` and its lemmas apply; while it scans, only
  steps that need no mutex go on (`UnlockedStays`).
* `ExpiryTargetsOwnAlarm`, `ExpiryPanicsExplained`: `IndexTargetsOwnAlarm` (under
  `TableUnraced`) and `PanicHasCause` beside the TTL timer, from the same invariants:
  `LoopIsQuiet` says that the loop's own steps touch neither table nor definitions and
  bring the timer at most to a clear delay. Both assume that every problem with a time
  to live has a clear delay (`MortalsDelayed`, carried along by `DelaysKept`). Without
  one the loop's index goes to the removal as it is, and `TtlPanics` is the
  counterexample.
* `AlertMutualExclusion`: `AlertSpec => []AlertLockDiscipline`, along
  `TimerMutualExclusion`: the alert timer holds the mutex over its exchanges, and only
  what needs no mutex goes on meanwhile.
* `RestartsRestore`: `PersistenceSpec => RestoresSaved`, an action property without
  further premises. `VolumeInv` says that while nobody has disturbed the last write
  the file is empty (between a writer's open and its write) or holds what was saved
  last, and that the copies of a writer whom no step of another has disturbed are of the
  table as it is.
* `DurableWhileDefined`: `PersistenceSpec /\ []Defined(HistoryProblem) => []Durable`.
  `Durable` speaks of the moments when nothing runs; `DirtyHasWriter` of all others: a
  change that is not in the file has a goroutine that will write it, and one that waits
  for a raise delay counts as long as its alarm is active, since whoever takes that
  alarm away writes instead. The premise is needed: a raise over HTTP that finds the
  history full and the history problem's definition deleted panics after it has stored
  its alarm (277), net/http recovers, and the alarm is never written.
* `TypesHold`, `WaitGroupSound`, `PeakCleansUp`, `PostsInTurn`: `TypeOK` (among it that
  the WaitGroup, which panics below 0, counts right), `MainWaitsForWorkers`,
  `PeakLeavesNothing` and `PostsAlternate` of the performance test, for any number of
  alarms. They share `Inv` of `PerfToolProofs`: `Counted` (`wg` is the cardinality of
  the set of goroutines at work), `Fresh`, `InTurn` (a wake-up is asleep, in the
  channel, or received, and nowhere twice) and `Peak`.

The theorems about the library hold for any number of goroutines, calls and
attempts (`LibraryAssumption`). They share one inductive invariant, `LibraryInv`:
`UnderLock` (the mutex is held by the one goroutine that sends), `CallShape` (what
a call has still to send), `OwnNumbers` (a message being sent has a number that
nothing carried or handled has) and `Settled` (below).

* `LibraryTyped`: `Spec => []TypeOK`.
* `MessagesHandledOnce`: `Spec => []HandledOnce`. A message leaves its sender for one
  place only, because RMR is asked again or HTTP is tried only when RMR has not
  taken it; `OwnNumbers` makes it new wherever it goes.
* `ManagerAgrees`: `Spec => []LastCallWins`. `Settled` says what the messages that RMR
  still carries will leave the alarm as (`Outcome`): as wanted, whenever no raise,
  clear or reraise is half done. `OutcomeAppend` and `OutcomeDeliver` carry it over
  a send and a delivery.

Only model-checked: liveness, which the prover does not do (`RequestsHandled`,
`ExpiredResolved`, `FmFollowsAlerts`, `KeptActive`, `CallsReturn`, `TestEnds`). Every
invariant and every action property that a passing run checks is stated by a theorem.
The invariants named above were checked by TLC on the instances of section 3 before
they were proved.

## 5. Plan

Done: the core with its theorems, the abstract board and its refinement, both timers,
the library, the persistent volume, the performance test; all safety properties of the
passing runs proved. Next, in this order:

1. The goroutines' invariants (`UniqueIds`, `RecordInv`) beside the two timers and over
   restarts, from the lemmas that ask for `HeldInside` only.
2. The safety core of the liveness properties: that the goroutine which will resolve an
   expired or an obsolete alarm exists.

Each new run is to answer a question that no other does; the runs are kept few
enough to be repeated after every change.

## 6. Not modelled

Logging, JSON and HTTP encoding, the flags and the table layout of the CLI, the
vendored Alertmanager client, RMR itself, a message buffer that RMR cannot allocate
(utils.c:46-51 does not check it).

*Answers of the REST interface.* The GET handlers and the symptom data handler
change nothing. They read slice headers and map contents that other goroutines
write, without the mutex, so that not even the length of what they read can be
relied on: no property of their answers holds, and section 3 lists what goes wrong.
That their iteration over the definitions can stop the process is in `WriteMap`.

*The CLI's other commands* (`active`, `history`, `alerts`, `define`, `undefine`,
`configure`) are single requests without a state of their own; what they ask for is
an action of `AlarmManager` or a read.

*Startup.* `Run` starts both timers before it reads the volume (578-583). The first
ticks come after 10 seconds (628) and 30 seconds (`alertInterval`,
config/config-file.json:21), and the read takes none of that; the two are not composed.

*The library's receiving side* (`ReceiveMessage`) is used by tests only, and
`SetManagedObjectId` and `SetApplicationId` change names the model abstracts.
