------------------------------ MODULE AlarmBoard ------------------------------
(***************************************************************************)
(* The alarm manager as its clients see it: a board with at most one card  *)
(* for every alarm, and calls that each take effect in one step between    *)
(* their beginning and their end. A raise puts a card on the board in the  *)
(* place of one with another severity, face down if there is a raise delay *)
(* to wait for; a clear takes the card off; a call that has nothing to do  *)
(* changes nothing. There are no goroutines, no mutex and no table here:   *)
(* AlarmRefinement shows that the manager's have this effect.              *)
(***************************************************************************)
CONSTANTS
    Callers,       \* who may have a call under way
    Problems,
    Calls,         \* what is called: [object, problem, severity, action]
    NoCall

VARIABLES
    board,         \* the cards: [object, problem, severity, face]
    call,          \* the call of every caller, or NoCall
    known          \* the problems with a definition

vars == <<board, call, known>>

Cards(c) == {d \in board : d.object = c.object /\ d.problem = c.problem}

\* An "open" call has had no effect yet; an "accepted" one is a raise of a problem that
\* was known, and has had none either; a "hidden" one has put up a card face down and
\* waits for its raise delay; a "done" one is about to end.
Has(h, status) == call[h] # NoCall /\ call[h].status = status

Become(h, status) == call' = [call EXCEPT ![h].status = status]

End(h) == call' = [call EXCEPT ![h] = NoCall]

Begin(h, c) ==
    /\ call[h] = NoCall
    /\ call' = [call EXCEPT ![h] = [what |-> c, status |-> "open"]]
    /\ UNCHANGED <<board, known>>

\* The problem is known: from now on its definition may go.
Acceptable(h) ==
    Has(h, "open") /\ call[h].what.action = "RAISE" /\ call[h].what.problem \in known

Accept(h) ==
    /\ Acceptable(h)
    /\ Become(h, "accepted")
    /\ UNCHANGED <<board, known>>

Raise(h, face) ==
    LET c == call[h].what IN
    /\ Acceptable(h) \/ Has(h, "accepted")
    /\ \A d \in Cards(c) : d.severity # c.severity
    /\ board' = (board \ Cards(c)) \cup
          {[object |-> c.object, problem |-> c.problem,
            severity |-> c.severity, face |-> face]}
    /\ Become(h, IF face = "down" THEN "hidden" ELSE "done")
    /\ UNCHANGED known

\* The raise delay is over. The card that is there by now is turned.
Reveal(h) ==
    LET c == call[h].what IN
    /\ Has(h, "hidden")
    /\ Cards(c) # {}
    /\ board' = (board \ Cards(c)) \cup {[d EXCEPT !.face = "up"] : d \in Cards(c)}
    /\ Become(h, "done")
    /\ UNCHANGED known

GiveUp(h) ==
    /\ Has(h, "hidden")
    /\ Cards(call[h].what) = {}
    /\ End(h)
    /\ UNCHANGED <<board, known>>

Clear(h) ==
    /\ Has(h, "open") /\ call[h].what.action = "CLEAR"
    /\ board' = board \ Cards(call[h].what)
    /\ Become(h, "done")
    /\ UNCHANGED known

\* The problem is not known, the alarm is up already, or there is nothing to clear.
Nothing(h) ==
    LET c == call[h].what IN
    /\ \/ Has(h, "accepted") /\ \E d \in Cards(c) : d.severity = c.severity
       \/ /\ Has(h, "open")
          /\ \/ c.problem \notin known
             \/ c.action = "CLEAR" /\ Cards(c) = {}
             \/ c.action \notin {"RAISE", "CLEAR"}
    /\ End(h)
    /\ UNCHANGED <<board, known>>

Return(h) ==
    /\ Has(h, "done")
    /\ End(h)
    /\ UNCHANGED <<board, known>>

Redefine ==
    /\ known' \in SUBSET Problems
    /\ UNCHANGED <<board, call>>

Init ==
    /\ board = {}
    /\ call = [h \in Callers |-> NoCall]
    /\ known \in SUBSET Problems

Next ==
    \/ \E h \in Callers :
          \/ \E c \in Calls : Begin(h, c)
          \/ Accept(h)
          \/ \E face \in {"up", "down"} : Raise(h, face)
          \/ Reveal(h) \/ GiveUp(h) \/ Clear(h) \/ Nothing(h) \/ Return(h)
    \/ Redefine

Spec == Init /\ [][Next]_vars

===============================================================================
