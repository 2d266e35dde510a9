------------------------------ MODULE AlertTimer ------------------------------
(***************************************************************************)
(* The timer that keeps the manager and the Prometheus Alertmanager in     *)
(* step (StartAlertTimer, ProcessAlerts, PostAlert), beside the goroutines *)
(* of AlarmManager.  At every tick, with the mutex held, it fetches the    *)
(* alerts of the application FM, starts a goroutine for each clear and     *)
(* each raise that follows from them, and posts every active alarm again.  *)
(*                                                                         *)
(* The Alertmanager is external: its FM alerts come and go, and it drops   *)
(* an alert that was posted once its timeout is over.                      *)
(***************************************************************************)
EXTENDS AlarmProperties, FiniteSets

CONSTANTS
    Timer,             \* the goroutine of StartAlertTimer; it never runs ProcessAlarm
    Workers,           \* goroutines that ProcessAlerts may start
    FollowedObjects,   \* objects whose ApplicationId is FM, whoever raised the alarm
    FmAlerts,          \* the alerts of FM that may fire, as messages of SEP/FM/info
    MaxAlertChanges    \* bound: how often an alert fires or is resolved

ASSUME AlertAssumption ==
    /\ Timer \notin Handlers \cup {Free}
    /\ Workers \subseteq Handlers /\ Workers \cap HttpHandlers = {}
    /\ FollowedObjects \subseteq FmObjects
    /\ FmAlerts \subseteq {m \in Message : m.object \in FollowedObjects /\ m.action = "RAISE"}
    /\ MaxAlertChanges \in Nat

VARIABLES
    phase,             \* "asleep", or with the mutex held "fetching" or "posting"
    alerts,            \* external: the FM alerts active at the Alertmanager
    posted,            \* external: the alerts it keeps because the manager posted them
    alertChanges

clock     == <<phase, alerts, alertChanges>>
alertVars == <<vars, clock, posted>>

-------------------------------------------------------------------------------
(* Posting. *)

\* The labels identify an alert; those of FM's alarms are empty: nothing is sent.
Label(m) == [object |-> m.object, problem |-> m.problem, severity |-> m.severity]

Labels(ms) == {Label(m) : m \in {n \in ms : n.object \notin FmObjects}}

\* A post after a raise may fail; its caller drops the error.
PostBeside(h) ==
    /\ Post(h)
    /\ posted' \in {posted, posted \cup IF NomaEnabled THEN {} ELSE Labels({handler[h].m})}
    /\ UNCHANGED clock

OtherSteps(h) == (Proceed(h) /\ ~At(h, "post")) \/ PanicPosting(h)

ProceedBeside(h) == PostBeside(h) \/ (OtherSteps(h) /\ UNCHANGED <<clock, posted>>)

AcquireBeside(h) == Acquire(h) /\ UNCHANGED <<clock, posted>>

ClientsBeside ==
    /\ \/ \E h \in Handlers \ Workers, m \in Requests : Submit(h, m)
       \/ Environment
    /\ UNCHANGED <<clock, posted>>

-------------------------------------------------------------------------------
(* The Alertmanager. *)

AlertChange ==
    /\ alertChanges < MaxAlertChanges
    /\ alertChanges' = alertChanges + 1
    /\ UNCHANGED <<vars, phase, posted>>

\* One alert of an identity at a time: a change of severity replaces it. (Two at a
\* time would be raised in turn at every tick, each in the place of the other.)
Fire(a) ==
    /\ a \notin alerts
    /\ alerts' = {b \in alerts : ~SameAlarm(a, b)} \cup {a}
    /\ AlertChange

Resolve(a) == a \in alerts /\ alerts' = alerts \ {a} /\ AlertChange

\* The end time of an alert has passed without a post that moves it.
TimeOut(l) ==
    /\ l \in posted
    /\ posted' = posted \ {l}
    /\ UNCHANGED <<vars, clock>>

-------------------------------------------------------------------------------
(* The timer. *)

IdleWorkers == {h \in Workers : handler[h].pc = "idle"}

\* The alarms that ProcessAlerts may have to clear or to raise: the alerts may still
\* change before it has fetched them, the table may not.
Followed ==
    {<<m.object, m.problem>> :
        m \in FmAlerts \cup {e \in Entries(activeAlarms) : e.object \in FollowedObjects}}

\* Bound: it ticks when each of them could get a worker of its own.
Tick ==
    /\ phase = "asleep" /\ ~crashed
    /\ Cardinality(IdleWorkers) >= Cardinality(Followed)
    /\ Lock(Timer)
    /\ phase' = "fetching"
    /\ UNCHANGED <<table, handler, setting, alerts, alertChanges, posted>>

\* Mutant: nothing is cleared.
FollowingRaises == {Notify(a) : a \in alerts}

\* The alarms of FM whose alert is gone are cleared, every alert found is raised.
Following ==
    {Notify([e EXCEPT !.action = "CLEAR"]) :
        e \in {f \in Entries(activeAlarms) :
                 f.object \in FollowedObjects /\ \A a \in alerts : ~SameAlarm(f, a)}}
    \cup {Notify(a) : a \in alerts}

\* Each goroutine waits for the mutex that the timer holds.
ProcessAlerts ==
    /\ phase = "fetching" /\ ~crashed
    /\ \E start \in [Following -> IdleWorkers] :
          /\ IsInjective(start)
          /\ handler' = [h \in Handlers |->
                IF \E m \in Following : start[m] = h
                THEN [Idle EXCEPT !.pc = "waiting",
                                  !.m = CHOOSE m \in Following : start[m] = h]
                ELSE handler[h]]
    /\ phase' = "posting"
    /\ UNCHANGED <<mutex, table, setting, alerts, alertChanges, posted>>

\* The Alertmanager cannot be reached.
GetAlertsFails ==
    /\ phase = "fetching" /\ ~crashed
    /\ phase' = "posting"
    /\ UNCHANGED <<vars, alerts, alertChanges, posted>>

\* Mutant: the active alarms are not posted.
RePostNothing ==
    /\ phase = "posting" /\ ~crashed
    /\ Unlock(Timer)
    /\ phase' = "asleep"
    /\ UNCHANGED <<table, handler, setting, alerts, alertChanges, posted>>

\* GenerateAlertLabels dereferences the definition, except for FM.
Labelled(e) == e.object \in FmObjects \/ Defined(e.problem)

\* The alarms are posted one by one. An error is logged and the next one is posted.
PostEach(es) == \E taken \in SUBSET Labels(es) : posted' = posted \cup taken

\* Mutant: an error ends the tick with the mutex held.
RePostLocked ==
    /\ phase = "posting" /\ ~crashed
    /\ \A e \in Entries(activeAlarms) : Labelled(e)
    /\ PostEach(Entries(activeAlarms))
    /\ phase' = "asleep"
    /\ UNCHANGED <<vars, alerts, alertChanges>>

\* Every active alarm is posted again.
RePost ==
    /\ phase = "posting" /\ ~crashed
    /\ \A e \in Entries(activeAlarms) : Labelled(e)
    /\ PostEach(Entries(activeAlarms))
    /\ Unlock(Timer)
    /\ phase' = "asleep"
    /\ UNCHANGED <<table, handler, setting, alerts, alertChanges>>

\* The first alarm without a definition stops the process, after those before it.
RePostPanics ==
    /\ phase = "posting" /\ ~crashed
    /\ \E i \in DOMAIN activeAlarms :
          /\ ~Labelled(activeAlarms[i])
          /\ \A j \in 1..(i - 1) : Labelled(activeAlarms[j])
          /\ PostEach({activeAlarms[j] : j \in 1..(i - 1)})
    /\ crashed' = TRUE
    /\ UNCHANGED <<mutex, table, handler, config, definitions, inputs, clock>>

-------------------------------------------------------------------------------
AlertInit == /\ Init
             /\ phase = "asleep" /\ alerts = {} /\ alertChanges = 0
             /\ posted = {}

Fetched == ProcessAlerts \/ GetAlertsFails
Posted  == RePost \/ RePostPanics

OwnLabels == Labels({Notify(m) : m \in Requests})

Crashed == crashed /\ UNCHANGED alertVars

AlertNext == \/ ClientsBeside
             \/ \E h \in Handlers : AcquireBeside(h) \/ ProceedBeside(h)
             \/ \E a \in FmAlerts : Fire(a) \/ Resolve(a)
             \/ \E l \in posted : TimeOut(l)
             \/ Tick \/ Fetched \/ Posted
             \/ Crashed

AlertSpec == AlertInit /\ [][AlertNext]_alertVars

(***************************************************************************)
(* As in FairSpec. The ticker fires, an HTTP exchange ends (the            *)
(* Alertmanager's client has a timeout), the Alertmanager answers again    *)
(* and again and takes every alarm again and again, and it drops what is   *)
(* not posted again.                                                       *)
(***************************************************************************)
AlertFairSpec ==
    /\ AlertSpec
    /\ \A h \in Handlers : SF_alertVars(AcquireBeside(h)) /\ WF_alertVars(Bounded(h) /\ ProceedBeside(h))
    /\ SF_alertVars(Tick) /\ WF_alertVars(Fetched) /\ WF_alertVars(Posted)
    /\ SF_alertVars(ProcessAlerts)
    /\ \A l \in OwnLabels : SF_alertVars(RePost /\ l \in posted') /\ WF_alertVars(TimeOut(l))

-------------------------------------------------------------------------------
\* docs/user-guide.rst:52: the manager "re-raises alarms periodically to keep alarms
\* in active state": again and again, while the process lives, an alarm is posted or
\* it is not active, although posts fail and the alert times out at any moment.
KeptActive ==
    \A l \in OwnLabels :
        []<>(crashed \/ l \in posted \/ l \notin Labels(Entries(activeAlarms)))

\* ProcessAlerts: once the alerts of FM and the clients are quiet, the alarms of FM
\* are those whose alerts are active, with their severities, whoever raised them,
\* although the goroutines of one tick take the mutex in any order and one of an
\* earlier tick may act on alerts that have changed since.
FmAlarms == {Label(e) : e \in {f \in Entries(activeAlarms) : f.object \in FollowedObjects}}

FmFollowsAlerts == <>[](crashed \/ FmAlarms = {Label(a) : a \in alerts})

\* The timer's mutex: it is held by the timer from the tick to the end of the posts,
\* over two HTTP exchanges, and otherwise as LockDiscipline says.
AlertLockDiscipline ==
    /\ LockDiscipline
    /\ mutex = Timer <=> phase # "asleep"

===============================================================================
