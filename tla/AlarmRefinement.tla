---------------------------- MODULE AlarmRefinement ---------------------------
(***************************************************************************)
(* The goroutines of AlarmManager implement the board of AlarmBoard: every *)
(* message that is submitted takes effect at one moment, as if it were     *)
(* dealt with alone, although its goroutine gives the mutex up for delays  *)
(* and works on the history without it.                                    *)
(***************************************************************************)
EXTENDS AlarmProperties

CONSTANT NoCall    \* a goroutine that deals with no message

ASSUME RefinementAssumption ==
    NoCall \notin [what : Message, status : {"open", "accepted", "hidden", "done"}]

\* The manager's own alarms are not on the board.
OwnCard(e) == [object |-> e.object, problem |-> e.problem,
               severity |-> e.severity,
               face |-> IF e.raiseDelay > 0 THEN "down" ELSE "up"]

Cards(es) == {OwnCard(e) : e \in {f \in es : f.object # ManagerObject}}

\* A raise takes effect when it removes what it replaces and still holds the mutex: its
\* alarm counts as up although it is appended in the next step.
BeingRaised == {handler[h].m : h \in {g \in Handlers : handler[g].pc = "raising"}}

Board == Cards(Entries(activeAlarms) \cup BeingRaised)

What(m) == [object |-> m.object, problem |-> m.problem,
            severity |-> m.severity, action |-> m.action]

Status(l) ==
    CASE l.pc \in {"waiting", "clearDelay", "clearing"} -> "open"
      [] l.pc = "matched" -> "accepted"
      [] l.pc \in {"raiseDelay", "revealing"} \/ (l.pc = "raising" /\ l.m.raiseDelay > 0) -> "hidden"
      [] OTHER -> "done"

\* How a goroutine's locals are seen as a call.
CallOf(l) == IF l.pc = "idle" THEN NoCall ELSE [what |-> What(l.m), status |-> Status(l)]

Call == [h \in Handlers |-> CallOf(handler[h])]

Known == {p \in Problems : Defined(p)}

Abstract == INSTANCE AlarmBoard WITH
    Callers <- Handlers, Calls <- Requests,
    board <- Board, call <- Call, known <- Known

\* What the goroutines remember of their messages: only clears wait to clear, only a raise
\* has a match to replace, and only an application's alarm waits to be revealed.
MessagesKept ==
    \A h \in Handlers :
        /\ handler[h].pc \in {"clearDelay", "clearing"} => handler[h].m.action = "CLEAR"
        /\ handler[h].pc = "matched" => handler[h].m.action = "RAISE"
        /\ handler[h].pc \in {"raiseDelay", "revealing"} => handler[h].m.object # ManagerObject

\* No goroutine panicked with the mutex held.
NoneStuck == \A h \in Handlers : handler[h].pc # "stuck"

\* ProcessAlarm: messages are dealt with one at a time as far as their effect on the
\* table goes: it is that of an atomic raise, replacement, reveal or clear of one alarm,
\* at a moment between the message's arrival and the end of its goroutine.
ImplementsBoard == Abstract!Spec

===============================================================================
