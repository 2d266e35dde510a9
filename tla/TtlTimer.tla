------------------------------- MODULE TtlTimer -------------------------------
(***************************************************************************)
(* The timer that clears alarms whose time to live is over (StartTTLTimer, *)
(* ClearExpiredAlarms), beside the goroutines of AlarmManager.             *)
(*                                                                         *)
(* `for idx, m := range a.activeAlarms` evaluates the slice once. It then  *)
(* reads the elements of that slice's array, whatever the manager has done *)
(* to a.activeAlarms since: ProcessClearAlarm, called from the loop, moves *)
(* the entries in the array and releases the mutex, and the loop takes it  *)
(* again. Limits and definitions do not change in this module.             *)
(***************************************************************************)
EXTENDS AlarmProperties

CONSTANTS
    Timer,            \* the goroutine of StartTTLTimer
    Mortal            \* problems whose definition has a TimeToLive above 0

ASSUME TimerAssumption == /\ Timer \in Handlers \ HttpHandlers
                          /\ Mortal \subseteq Problems

VARIABLES
    loop,             \* "asleep", "scanning" with the mutex, or "calling"
    position,         \* idx + 1
    captured,         \* what the array of the slice that is ranged over holds
    attached,         \* a.activeAlarms is still kept in that array
    expired           \* ids of the alarms that have lived for their TimeToLive

cursor  == <<loop, position>>
ttlVars == <<vars, cursor, captured, attached, expired>>

-------------------------------------------------------------------------------
(* The other goroutines, and ProcessClearAlarm for the timer. *)

(***************************************************************************)
(* A removal moves entries in the array and an append within its capacity  *)
(* extends it in place; only an append beyond it, which is never below the *)
(* captured length, makes a new array for a.activeAlarms.                  *)
(***************************************************************************)
Shadow ==
    /\ captured' = IF attached THEN Overlay(captured, activeAlarms') ELSE captured
    /\ attached' \in {attached} \cup
          (IF activeAlarms' # activeAlarms /\ (Len(activeAlarms') > Len(captured) \/ ~Calm)
           THEN {FALSE} ELSE {})

Beside == Shadow /\ UNCHANGED <<cursor, expired>>

SubmitBeside ==
    \E h \in Handlers \ {Timer}, m \in Requests : Submit(h, m) /\ Beside
AcquireBeside(h) == Acquire(h) /\ Beside
ProceedBeside(h) == Proceed(h) /\ Beside

\* Time passes. The age counts from the time stamp the client put in the message.
Expire ==
    \E e \in Entries(activeAlarms) \cup Entries(captured) :
        /\ ~crashed
        /\ e.problem \in Mortal /\ e.id \notin expired
        /\ expired' = expired \cup {e.id}
        /\ UNCHANGED <<vars, cursor, captured, attached>>

-------------------------------------------------------------------------------
(* The loop. *)

Living(m) == ~Defined(m.problem) \/ m.problem \notin Mortal \/ m.id \notin expired

\* Mutant: the last element is left out.
MoreButLast == position < Len(captured)

More == position <= Len(captured)

Scanning == loop = "scanning" /\ ~crashed

Tick ==
    /\ loop = "asleep" /\ ~crashed
    /\ Lock(Timer)
    /\ loop' = "scanning" /\ position' = 1
    /\ captured' = activeAlarms /\ attached' = TRUE
    /\ UNCHANGED <<table, handler, setting, expired>>

SkipLiving ==
    /\ Scanning /\ More
    /\ Living(captured[position])
    /\ position' = position + 1
    /\ UNCHANGED <<vars, loop, captured, attached, expired>>

\* ProcessClearAlarm is called with the mutex held and with the loop's index.
ClearExpiredAlarms ==
    LET m == captured[position]
        delayed == definitions[m.problem].clearDelay > 0 IN
    /\ Scanning /\ More
    /\ ~Living(m)
    /\ loop' = "calling"
    /\ handler' = [handler EXCEPT ![Timer] = [Idle EXCEPT
          !.pc = IF delayed THEN "clearDelay" ELSE "clearing",
          !.m = [m EXCEPT !.action = "CLEAR"], !.idx = position]]
    /\ mutex' = IF delayed THEN Free ELSE Timer
    /\ UNCHANGED <<table, setting, position, captured, attached, expired>>

\* Mutant: the loop goes on without the mutex.
RelockNot ==
    /\ loop = "calling" /\ At(Timer, "idle")
    /\ loop' = "scanning" /\ position' = position + 1
    /\ UNCHANGED <<vars, captured, attached, expired>>

\* ProcessClearAlarm has returned and released the mutex.
Relock ==
    /\ loop = "calling" /\ At(Timer, "idle")
    /\ Lock(Timer)
    /\ loop' = "scanning" /\ position' = position + 1
    /\ UNCHANGED <<table, handler, setting, captured, attached, expired>>

Sleep ==
    /\ Scanning /\ ~More
    /\ Unlock(Timer)
    /\ loop' = "asleep" /\ position' = 1
    /\ captured' = <<>> /\ attached' = FALSE
    /\ UNCHANGED <<table, handler, setting, expired>>

-------------------------------------------------------------------------------
TtlInit == /\ Init
           /\ loop = "asleep" /\ position = 1
           /\ captured = <<>> /\ attached = FALSE
           /\ expired = {}

Scan == SkipLiving \/ ClearExpiredAlarms \/ Sleep

TtlNext == \/ SubmitBeside
           \/ \E h \in Handlers : AcquireBeside(h) \/ ProceedBeside(h)
           \/ Expire
           \/ Tick \/ Scan \/ Relock

TtlSpec == TtlInit /\ [][TtlNext]_ttlVars

\* As in FairSpec, and the ticker fires.
TtlFairSpec ==
    /\ TtlSpec
    /\ \A h \in Handlers : SF_ttlVars(AcquireBeside(h)) /\ WF_ttlVars(Bounded(h) /\ ProceedBeside(h))
    /\ SF_ttlVars(Tick) /\ SF_ttlVars(Relock) /\ WF_ttlVars(Scan)

-------------------------------------------------------------------------------
\* The loop and the goroutines share the mutex soundly, although ProcessClearAlarm
\* releases a mutex that its caller took and the caller takes it again: it is held
\* exactly by the loop while it scans or by the one goroutine that is inside.
TimerLockDiscipline ==
    /\ \A h \in Handlers \ {Timer} : mutex = h <=> handler[h].pc \in Critical
    /\ mutex = Timer <=> loop = "scanning" \/ handler[Timer].pc \in Critical

Active(id) == \E e \in Entries(activeAlarms) : e.id = id

\* manager_test.go:577, "TTL expired, alarm should be cleared": an active alarm
\* that has expired leaves the table.
ExpiredResolved ==
    \A id \in 1..(2 * MaxRequests) : Active(id) /\ id \in expired ~> ~Active(id)

===============================================================================
