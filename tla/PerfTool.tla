------------------------------- MODULE PerfTool -------------------------------
(***************************************************************************)
(* The performance test of the command line tool (cli/alarm-cli.go): main  *)
(* starts one goroutine per alarm and waits for all of them (wg); each has *)
(* a channel of one element on which further goroutines, asleep until      *)
(* then, tell it to clear the alarm, to raise it again or to end. In the   *)
(* peak test an alarm is raised and cleared once; in the endurance test,   *)
(* over and over until the time given is over.                             *)
(*                                                                         *)
(* The alarm manager, HTTP and RMR are external: a post may be lost, and   *)
(* the RMR client that every goroutine creates for itself may never be     *)
(* ready.                                                                  *)
(***************************************************************************)
EXTENDS Naturals, Sequences, FiniteSets

CONSTANTS
    Alarms,        \* CLIPerfAlarmObjects; a goroutine is named by its alarm
    Wanted         \* --nal or --aps: how many goroutines are to be started

ASSUME PerfAssumption == IsFiniteSet(Alarms) /\ Wanted \in Nat

VARIABLES
    test,          \* --prf: "peak", "endurance" or "unknown"
    interface,     \* --if: "http" or "rmr"
    main,          \* where the main goroutine is
    wg,            \* the WaitGroup's counter
    worker,        \* where the goroutine of every alarm is
    chn,           \* its channel
    asleep,        \* the actions of its goroutines in wakeUpAfterTime
    ready,         \* external: alarms whose RMR client is ready
    raised,        \* external: alarms that the manager holds
    lost,          \* history: alarms with a post that did not reach the manager
    last           \* history: the last action posted for every alarm

flags      == <<test, interface>>
goroutines == <<worker, chn, asleep>>
external   == <<ready, raised, lost, last>>
vars       == <<flags, main, wg, goroutines, external>>

Wakes == {"RAISE", "CLEAR", "END"}

\* "first" is before the first post, "RAISE" and "CLEAR" before the one just asked for.
Places == {"none", "first", "select", "RAISE", "CLEAR", "done"}

Running(a) == worker[a] \notin {"none", "done"}

TypeOK ==
    /\ test \in {"peak", "endurance", "unknown"}
    /\ interface \in {"http", "rmr"}
    /\ main \in {"definitions", "sending", "objects", "starting", "waiting", "ended"}
    /\ wg \in 0..Cardinality(Alarms)
    /\ worker \in [Alarms -> Places]
    /\ chn \in [Alarms -> {<<>>} \cup {<<w>> : w \in Wakes}]
    /\ asleep \in [Alarms -> SUBSET Wakes]
    /\ ready \subseteq Alarms /\ raised \subseteq Alarms /\ lost \subseteq Alarms
    /\ last \in [Alarms -> {"none", "RAISE", "CLEAR"}]

-------------------------------------------------------------------------------
(* The main goroutine. *)

\* The definitions are read and sent and the alarms are read: each step may fail.
Prepare(here, next) ==
    /\ main = here
    /\ main' \in {next, "ended"}
    /\ UNCHANGED <<flags, wg, goroutines, external>>

ChooseTest == IF test = "unknown" THEN "ended" ELSE "starting"

conductperformancetest ==
    \/ Prepare("definitions", "sending")
    \/ Prepare("sending", "objects")
    \/ Prepare("objects", ChooseTest)

Started == {a \in Alarms : worker[a] # "none"}

\* Mutant: wg.Add is forgotten.
StartWorkerUncounted(a) ==
    /\ main = "starting"
    /\ Cardinality(Started) < Wanted
    /\ worker[a] = "none"
    /\ wg' = wg
    /\ worker' = [worker EXCEPT ![a] = "first"]
    /\ UNCHANGED <<flags, main, chn, asleep, external>>

\* wg.Add(1), then go.
StartWorker(a) ==
    /\ main = "starting"
    /\ Cardinality(Started) < Wanted
    /\ worker[a] = "none"
    /\ wg' = wg + 1
    /\ worker' = [worker EXCEPT ![a] = "first"]
    /\ UNCHANGED <<flags, main, chn, asleep, external>>

AllStarted ==
    /\ main = "starting"
    /\ Cardinality(Started) = Wanted \/ Started = Alarms
    /\ main' = "waiting"
    /\ UNCHANGED <<flags, wg, goroutines, external>>

\* wg.Wait() returns; the process ends with main, whatever else is running.
Wait ==
    /\ main = "waiting"
    /\ wg = 0
    /\ main' = "ended"
    /\ UNCHANGED <<flags, wg, goroutines, external>>

-------------------------------------------------------------------------------
(* A worker. *)

Alive == main # "ended"

At(a, place) == Alive /\ worker[a] = place

\* NewAlarmClient starts InitRMR for a client of the goroutine's own.
ClientReady(a) ==
    /\ Alive /\ interface = "rmr"
    /\ Running(a) /\ a \notin ready
    /\ ready' = ready \cup {a}
    /\ UNCHANGED <<flags, main, wg, goroutines, raised, lost, last>>

\* postAlarm. Over RMR it polls until its client is ready; errors are dropped. A post
\* that never ends is one whose step is never taken (FairSpec).
Post(a, action) ==
    /\ interface = "rmr" => a \in ready
    /\ last' = [last EXCEPT ![a] = action]
    /\ \/ /\ raised' = IF action = "RAISE" THEN raised \cup {a} ELSE raised \ {a}
          /\ UNCHANGED lost
       \/ lost' = lost \cup {a} /\ UNCHANGED raised
    /\ UNCHANGED <<flags, main, ready, chn>>

GoOn(a, place)  == worker' = [worker EXCEPT ![a] = place]
WakeMe(a, wake) == asleep' = [asleep EXCEPT ![a] = @ \cup wake]

\* defer wg.Done()
Return(a) == GoOn(a, "done") /\ wg' = wg - 1

\* Both tests begin with a raise; only the endurance test is given an end.
FirstPost(a) ==
    /\ At(a, "first")
    /\ Post(a, "RAISE")
    /\ GoOn(a, "select")
    /\ WakeMe(a, IF test = "peak" THEN {"CLEAR"} ELSE {"CLEAR", "END"})
    /\ UNCHANGED wg

\* Mutant: a goroutine that is told to end does not return.
ReceiveNoEnd(a) ==
    /\ At(a, "select")
    /\ chn[a] # <<>>
    /\ chn' = [chn EXCEPT ![a] = Tail(@)]
    /\ GoOn(a, IF Head(chn[a]) = "END" THEN "select" ELSE Head(chn[a]))
    /\ UNCHANGED <<flags, main, wg, asleep, external>>

Receive(a) ==
    /\ At(a, "select")
    /\ chn[a] # <<>>
    /\ chn' = [chn EXCEPT ![a] = Tail(@)]
    /\ IF Head(chn[a]) = "END" THEN Return(a)
       ELSE GoOn(a, Head(chn[a])) /\ UNCHANGED wg
    /\ UNCHANGED <<flags, main, asleep, external>>

\* Mutant: the raise is asked for again instead of the clear.
RaiseAgainTwice(a) ==
    /\ At(a, "RAISE")
    /\ Post(a, "RAISE")
    /\ GoOn(a, "select")
    /\ WakeMe(a, {"RAISE"})
    /\ UNCHANGED wg

RaiseAgain(a) ==
    /\ At(a, "RAISE")
    /\ Post(a, "RAISE")
    /\ GoOn(a, "select")
    /\ WakeMe(a, {"CLEAR"})
    /\ UNCHANGED wg

\* Mutant: the goroutine of the peak test returns before it has posted.
ClearAgainTooLate(a) ==
    /\ At(a, "CLEAR")
    /\ IF test = "peak" THEN Return(a) /\ UNCHANGED <<main, flags, chn, asleep, external>>
       ELSE Post(a, "CLEAR") /\ GoOn(a, "select") /\ WakeMe(a, {"RAISE"}) /\ UNCHANGED wg

\* The peak test's select is in no loop: it asks for an end and returns at once.
ClearAgain(a) ==
    /\ At(a, "CLEAR")
    /\ Post(a, "CLEAR")
    /\ IF test = "peak" THEN Return(a) /\ WakeMe(a, {"END"})
       ELSE GoOn(a, "select") /\ WakeMe(a, {"RAISE"}) /\ UNCHANGED wg

\* Mutant: the channel has no bound.
wakeUpAfterTimeUnbounded(a, wake) ==
    /\ Alive /\ wake \in asleep[a]
    /\ chn' = [chn EXCEPT ![a] = Append(@, wake)]
    /\ asleep' = [asleep EXCEPT ![a] = @ \ {wake}]
    /\ UNCHANGED <<flags, main, wg, worker, external>>

\* The sleep is over and the send does not block.
wakeUpAfterTime(a, wake) ==
    /\ Alive /\ wake \in asleep[a]
    /\ chn[a] = <<>>
    /\ chn' = [chn EXCEPT ![a] = Append(@, wake)]
    /\ asleep' = [asleep EXCEPT ![a] = @ \ {wake}]
    /\ UNCHANGED <<flags, main, wg, worker, external>>

-------------------------------------------------------------------------------
Init ==
    /\ test \in {"peak", "endurance", "unknown"}
    /\ interface \in {"http", "rmr"}
    /\ main = "definitions"
    /\ wg = 0
    /\ worker = [a \in Alarms |-> "none"]
    /\ chn = [a \in Alarms |-> <<>>]
    /\ asleep = [a \in Alarms |-> {}]
    /\ ready = {} /\ raised = {} /\ lost = {}
    /\ last = [a \in Alarms |-> "none"]

Main == conductperformancetest \/ AllStarted \/ Wait

Work(a) == FirstPost(a) \/ Receive(a) \/ RaiseAgain(a) \/ ClearAgain(a)

Ended == main = "ended" /\ UNCHANGED vars

Next ==
    \/ Main \/ Ended
    \/ \E a \in Alarms : StartWorker(a) \/ Work(a) \/ ClientReady(a)
    \/ \E a \in Alarms, wake \in Wakes : wakeUpAfterTime(a, wake)

Spec == Init /\ [][Next]_vars

(***************************************************************************)
(* The Go scheduler runs every ready goroutine and sleeps end. Senders to  *)
(* a full channel are served in their order, so that none waits for ever   *)
(* while others come and go. Nothing is assumed of a post, neither of      *)
(* main's (the definitions) nor of a worker's: an RMR client may never be  *)
(* ready, and http.Post has no timeout, here and in the alarm library.     *)
(***************************************************************************)
FairSpec ==
    /\ Spec
    /\ WF_vars(Main /\ main # "sending") /\ WF_vars(\E a \in Alarms : StartWorker(a))
    /\ \A a \in Alarms : WF_vars(Receive(a))
    /\ \A a \in Alarms, wake \in Wakes : SF_vars(wakeUpAfterTime(a, wake))

-------------------------------------------------------------------------------
\* wg: main does not end, and take the process with it, while a goroutine it started
\* is still at work, although goroutines may return before all of them are started.
MainWaitsForWorkers == main = "ended" => \A a \in Alarms : ~Running(a)

\* raiseClearAlarmOnce: the peak test leaves no alarm behind at the manager, except
\* one that a lost post concerns, although its goroutines return with a wake-up to come.
PeakLeavesNothing == test = "peak" /\ main = "ended" => raised \subseteq lost

\* raiseClearAlarmOverPeriod: the posts of an alarm are a raise and a clear in turn. As
\* long as its goroutine runs, the opposite of what it posted last, and only that, is on
\* its way to it: asleep, in the channel, or received.
PostsAlternate ==
    \A a \in Alarms : Running(a) /\ last[a] # "none" =>
        {w \in {"RAISE", "CLEAR"} : w \in asleep[a] \/ chn[a] = <<w>> \/ worker[a] = w}
            = {"RAISE", "CLEAR"} \ {last[a]}

\* The test ends, whatever is lost and however the wake-ups race for the channel, unless
\* some post never ends. A worker waits in nothing else for ever: not for a wake-up that
\* is not to come, and not for room in its channel.
Posting(a) == worker[a] \in {"first", "RAISE", "CLEAR"}

TestEnds ==
    \/ <>(main = "ended")
    \/ <>[](main = "sending")
    \/ \E a \in Alarms : <>[]Posting(a)

===============================================================================
