-------------------------- MODULE AlarmLibraryProofs --------------------------
(***************************************************************************)
(* Theorems about the alarm library, for any number of goroutines, calls   *)
(* and attempts.                                                           *)
(***************************************************************************)
EXTENDS AlarmLibrary, SequenceTheorems, TLAPS

-------------------------------------------------------------------------------
(* Sequences of messages. *)

\* What an append does to the set of a sequence's elements and to their being
\* different.
LEMMA AppendFacts ==
    ASSUME NEW S, NEW s \in Seq(S), NEW x \in S
    PROVE  /\ Append(s, x) \in Seq(S)
           /\ ToSet(Append(s, x)) = ToSet(s) \cup {x}
           /\ IsInjective(s) /\ x \notin ToSet(s) => IsInjective(Append(s, x))
<1> DEFINE t == Append(s, x)
<1>1. /\ t \in Seq(S) /\ Len(t) = Len(s) + 1 /\ Len(s) \in Nat
      /\ \A i \in 1..Len(s) : t[i] = s[i]
      /\ t[Len(s) + 1] = x
      /\ DOMAIN s = 1..Len(s) /\ DOMAIN t = 1..(Len(s) + 1)
  BY AppendProperties, LenProperties
<1>2. ToSet(t) = ToSet(s) \cup {x}
  <2>1. ToSet(t) \subseteq ToSet(s) \cup {x}
    BY <1>1, SMT DEF ToSet
  <2>2. ToSet(s) \cup {x} \subseteq ToSet(t)
    BY <1>1, SMT DEF ToSet
  <2> QED BY <2>1, <2>2
<1>3. ASSUME IsInjective(s), x \notin ToSet(s)
      PROVE  IsInjective(t)
  BY <1>1, <1>3, SMT DEF IsInjective, ToSet
<1> QED BY <1>1, <1>2, <1>3

\* What taking the head of a sequence leaves.
LEMMA TailFacts ==
    ASSUME NEW S, NEW s \in Seq(S), s # <<>>
    PROVE  /\ Head(s) \in S /\ Tail(s) \in Seq(S)
           /\ DOMAIN s = 1..Len(s) /\ Len(s) \in Nat \ {0}
           /\ DOMAIN Tail(s) = 1..(Len(s) - 1)
           /\ Head(s) = s[1]
           /\ \A i \in 1..(Len(s) - 1) : Tail(s)[i] = s[i + 1]
           /\ Head(s) \in ToSet(s)
           /\ ToSet(Tail(s)) \subseteq ToSet(s)
           /\ IsInjective(s) => Head(s) \notin ToSet(Tail(s)) /\ IsInjective(Tail(s))
<1>1. /\ Head(s) \in S /\ Tail(s) \in Seq(S)
      /\ DOMAIN s = 1..Len(s) /\ Len(s) \in Nat \ {0}
      /\ DOMAIN Tail(s) = 1..(Len(s) - 1)
      /\ Head(s) = s[1]
      /\ \A i \in 1..(Len(s) - 1) : Tail(s)[i] = s[i + 1]
  BY HeadTailProperties, LenProperties, EmptySeq, ElementOfSeq
<1>2. Head(s) \in ToSet(s)
  BY <1>1, SMT DEF ToSet
<1>3. ToSet(Tail(s)) \subseteq ToSet(s)
  BY <1>1, SMT DEF ToSet
<1>4. ASSUME IsInjective(s)
      PROVE  Head(s) \notin ToSet(Tail(s)) /\ IsInjective(Tail(s))
  BY <1>1, <1>4, SMT DEF IsInjective, ToSet
<1> QED BY <1>1, <1>2, <1>3, <1>4

-------------------------------------------------------------------------------
(* Calls. *)

\* The message that a call ends with.
LastAction(op) ==
    IF op \in {"Raise", "Reraise"} THEN "RAISE" ELSE IF op = "Clear" THEN "CLEAR" ELSE "CLEARALL"

\* The messages of every operation, and what Head, Tail and Len make of them.
LEMMA TodoFacts ==
    /\ Messages("Raise") = <<"RAISE">> /\ Messages("Clear") = <<"CLEAR">>
    /\ Messages("Reraise") = <<"CLEAR", "RAISE">> /\ Messages("ClearAll") = <<"CLEARALL">>
    /\ \A a : Head(<<a>>) = a /\ Len(<<a>>) = 1 /\ <<a>> # <<>>
    /\ Head(<<"CLEAR", "RAISE">>) = "CLEAR" /\ Tail(<<"CLEAR", "RAISE">>) = <<"RAISE">>
    /\ Len(<<"CLEAR", "RAISE">>) = 2
<1>1. /\ Messages("Raise") = <<"RAISE">> /\ Messages("Clear") = <<"CLEAR">>
      /\ Messages("Reraise") = <<"CLEAR", "RAISE">> /\ Messages("ClearAll") = <<"CLEARALL">>
  BY DEF Messages
<1>2. ASSUME NEW a
      PROVE  Head(<<a>>) = a /\ Len(<<a>>) = 1 /\ <<a>> # <<>>
  OBVIOUS
<1>3. /\ Head(<<"CLEAR", "RAISE">>) = "CLEAR" /\ Len(<<"CLEAR", "RAISE">>) = 2
      /\ Tail(<<"CLEAR", "RAISE">>) = <<"RAISE">>
  OBVIOUS
<1> QED BY <1>1, <1>2, <1>3

\* What a goroutine that sends has still to send: the one message its call ends
\* with, or both of a Reraise.
LEMMA SendingFacts ==
    ASSUME TypeOK, CallShape, NEW c \in Callers, Sending(c)
    PROVE  /\ caller[c] \in CallState /\ caller[c].op \in Operations
           /\ Current(c) \in Sendable /\ Current(c).number = caller[c].number
           /\ \/ /\ caller[c].op = "Reraise" /\ caller[c].todo = <<"CLEAR", "RAISE">>
                 /\ Current(c).action = "CLEAR"
              \/ /\ caller[c].todo = <<LastAction(caller[c].op)>>
                 /\ Current(c).action = LastAction(caller[c].op)
<1>1. caller[c] \in CallState
  BY DEF TypeOK
<1>2. \/ caller[c].op \in Operations /\ caller[c].todo = Messages(caller[c].op)
      \/ caller[c].op = "Reraise" /\ caller[c].todo = <<"RAISE">>
  BY DEF CallShape
<1>3. /\ caller[c].op \in Operations
      /\ \/ caller[c].op = "Reraise" /\ caller[c].todo = <<"CLEAR", "RAISE">>
         \/ caller[c].todo = <<LastAction(caller[c].op)>>
  BY <1>2, TodoFacts DEF Operations, LastAction
<1>4. /\ Current(c).number = caller[c].number /\ caller[c].number \in Nat
      /\ Current(c).action = Head(caller[c].todo)
      /\ Current(c) = [number |-> caller[c].number, action |-> Head(caller[c].todo)]
  BY <1>1 DEF Current, CallState
<1>5. LastAction(caller[c].op) \in {"RAISE", "CLEAR", "CLEARALL"}
  BY DEF LastAction
<1>6. \/ caller[c].op = "Reraise" /\ caller[c].todo = <<"CLEAR", "RAISE">> /\ Head(caller[c].todo) = "CLEAR"
      \/ /\ caller[c].todo = <<LastAction(caller[c].op)>>
         /\ Head(caller[c].todo) = LastAction(caller[c].op)
  BY <1>3, TodoFacts
<1>7. Current(c) \in Sendable
  BY <1>4, <1>5, <1>6 DEF Sendable
<1> QED BY <1>1, <1>3, <1>4, <1>6, <1>7

\* A message is sent: a Reraise creates its second one, every other call returns.
LEMMA SentCases ==
    ASSUME TypeOK, CallShape, NEW c \in Callers, Sending(c), Sent(c)
    PROVE  \/ /\ caller[c].op = "Reraise" /\ Current(c).action = "CLEAR"
              /\ Create(c, <<"RAISE">>) /\ mutex' = mutex
           \/ /\ Current(c).action = LastAction(caller[c].op)
              /\ Return(c)
<1>1. CASE /\ caller[c].op = "Reraise" /\ caller[c].todo = <<"CLEAR", "RAISE">>
           /\ Current(c).action = "CLEAR"
  BY <1>1, TodoFacts, Len(caller[c].todo) > 1 DEF Sent
<1>2. CASE /\ caller[c].todo = <<LastAction(caller[c].op)>>
           /\ Current(c).action = LastAction(caller[c].op)
  <2>1. ~(Len(caller[c].todo) > 1)
    BY <1>2, TodoFacts
  <2> QED BY <1>2, <2>1 DEF Sent
<1> QED BY <1>1, <1>2, SendingFacts

-------------------------------------------------------------------------------
(* Steps, by what they do to a goroutine. *)

\* Steps of a goroutine that go on with the same message: no message is taken.
Trying(c) ==
    \/ CheckRmr(c) \/ RmrRetry(c) \/ RmrFail(c)

\* The rest of sendAlarmUpdateReq.
Finishing(c) == RmrSend(c) \/ HttpPost(c) \/ HttpRefused(c)

\* A step that goes on with a message changes the goroutine's place and count only.
LEMMA TryingFacts ==
    ASSUME TypeOK, NEW c \in Callers, Trying(c)
    PROVE  /\ Sending(c)
           /\ caller' \in [Callers -> CallState]
           /\ \A d \in Callers \ {c} : caller'[d] = caller[d]
           /\ caller'[c].pc \in {"rmr", "http"}
           /\ caller'[c].pc = "rmr" => Connected \/ At(c, "rmr")
           /\ caller'[c].op = caller[c].op /\ caller'[c].todo = caller[c].todo
           /\ caller'[c].number = caller[c].number
           /\ UNCHANGED <<mutex, initialiser, visible, calls, created, external>>
<1>1. caller \in [Callers -> CallState] /\ caller[c] \in CallState
  BY DEF TypeOK
<1>2. CASE CheckRmr(c)
  BY <1>1, <1>2 DEF CheckRmr, At, Sending, CallState
<1>3. CASE RmrRetry(c)
  <2>1. CASE caller[c].attempts + 1 < MaxAttempts
    <3>1. caller' = [caller EXCEPT ![c].attempts = @ + 1]
      BY <1>3, <2>1 DEF RmrRetry
    <3>2. caller[c].attempts + 1 \in 0..(MaxAttempts - 1)
      BY <1>1, <2>1, LibraryAssumption DEF CallState
    <3> QED BY <1>1, <1>3, <3>1, <3>2 DEF RmrRetry, At, Sending, CallState
  <2>2. CASE ~(caller[c].attempts + 1 < MaxAttempts)
    <3>1. caller' = [caller EXCEPT ![c].pc = "http"]
      BY <1>3, <2>2 DEF RmrRetry
    <3> QED BY <1>1, <1>3, <3>1 DEF RmrRetry, At, Sending, CallState
  <2> QED BY <2>1, <2>2
<1>4. CASE RmrFail(c)
  BY <1>1, <1>4 DEF RmrFail, At, Sending, CallState
<1> QED BY <1>2, <1>3, <1>4 DEF Trying

\* A message has been created.
LEMMA CreateFacts ==
    ASSUME TypeOK, NEW c \in Callers, NEW todo \in Todo, Create(c, todo)
    PROVE  /\ caller' \in [Callers -> CallState] /\ created' = created + 1 /\ created' \in Nat
           /\ \A d \in Callers \ {c} : caller'[d] = caller[d]
           /\ caller'[c].pc = "checking" /\ caller'[c].op = caller[c].op
           /\ caller'[c].todo = todo /\ caller'[c].number = created + 1
<1>1. caller \in [Callers -> CallState] /\ caller[c] \in CallState /\ created \in Nat
  BY DEF TypeOK
<1>2. created + 1 \in Nat /\ 0 \in 0..(MaxAttempts - 1)
  BY <1>1, LibraryAssumption
<1> QED BY <1>1, <1>2 DEF Create, CallState

\* A goroutine that returns.
LEMMA ReturnFacts ==
    ASSUME TypeOK, NEW c \in Callers, Return(c)
    PROVE  /\ caller' \in [Callers -> CallState] /\ created' = created
           /\ \A d \in Callers \ {c} : caller'[d] = caller[d]
           /\ caller'[c].pc = "idle"
           /\ mutex' = IF mutex = c THEN Free ELSE mutex
<1>1. caller \in [Callers -> CallState]
  BY DEF TypeOK
<1>2. Resting \in CallState
  BY LibraryAssumption DEF Resting, CallState, Todo
<1> QED BY <1>1, <1>2 DEF Return, Resting

\* A call begins.
LEMMA CallFacts ==
    ASSUME TypeOK, NEW c \in Callers, NEW op \in Operations, Call(c, op)
    PROVE  /\ caller' \in [Callers -> CallState] /\ calls' \in Nat
           /\ \A d \in Callers \ {c} : caller'[d] = caller[d]
           /\ caller[c].pc = "idle" /\ caller'[c].pc = "waiting"
           /\ caller'[c].op = op /\ caller'[c].todo = Messages(op)
           /\ UNCHANGED <<mutex, initialiser, visible, created, external>>
<1>1. caller \in [Callers -> CallState] /\ calls \in Nat
  BY DEF TypeOK
<1>2. Messages(op) \in Todo
  BY TodoFacts DEF Operations, Todo
<1> DEFINE new == [Resting EXCEPT !.pc = "waiting", !.op = op, !.todo = Messages(op)]
<1>3. new \in CallState /\ new.pc = "waiting" /\ new.op = op /\ new.todo = Messages(op)
  <2>1. Resting \in CallState
    BY LibraryAssumption DEF Resting, CallState, Todo
  <2> QED BY <1>2, <2>1 DEF CallState
<1>4. /\ caller' = [caller EXCEPT ![c] = new] /\ calls' = calls + 1
      /\ caller[c].pc = "idle"
      /\ UNCHANGED <<mutex, initialiser, visible, created, external>>
  BY DEF Call, At
<1> HIDE DEF new
<1> QED BY <1>1, <1>3, <1>4

-------------------------------------------------------------------------------
(* Every step, classified. *)

\* The steps that leave the goroutines alone: InitRMR's and a stutter.
Aside ==
    /\ UNCHANGED <<mutex, caller, created, external>>
    /\ initialiser' \in {"starting", "connected", "done", "failed"}
    /\ visible \subseteq visible' /\ visible' \subseteq {"rmrCtx", "rmrReady"}
    /\ calls' = calls

\* A step of the system is one of these.
LEMMA StepCases ==
    ASSUME TypeOK, [Next]_libraryVars
    PROVE  \/ \E c \in Callers :
                 \/ \E op \in Operations : Call(c, op)
                 \/ Enter(c) \/ Trying(c) \/ Finishing(c) \/ HttpFail(c)
           \/ Deliver \/ Drop \/ \E m \in lingering : HandleLate(m)
           \/ Aside
<1>1. CASE InitRMR
  <2>1. CASE InitFails \/ SetContext \/ SetReady
    BY <2>1 DEF InitFails, SetContext, SetReady, Aside, TypeOK
  <2>2. CASE \E w \in {"rmrCtx", "rmrReady"} : See(w)
    BY <2>2 DEF See, Aside, TypeOK
  <2> QED BY <1>1, <2>1, <2>2 DEF InitRMR
<1>2. CASE UNCHANGED libraryVars
  BY <1>2 DEF libraryVars, library, Aside, TypeOK
<1>3. CASE Network
  BY <1>3 DEF Network
<1>4. CASE Done
  BY <1>2, <1>4 DEF Done
<1>5. CASE \E c \in Callers : (\E op \in Operations : Call(c, op)) \/ Enter(c) \/ Send(c)
  BY <1>5 DEF Send, OverRmr, OverHttp, Trying, Finishing
<1> QED BY <1>1, <1>2, <1>3, <1>4, <1>5 DEF Next

\* What the manager does with a message.
LEMMA HandleFacts ==
    ASSUME TypeOK, NEW m \in Sendable, Handle(m)
    PROVE  /\ handled' = Append(handled, m) /\ handled' \in Seq(Sendable)
           /\ active' \in BOOLEAN
           /\ m.action = "RAISE" => active' = TRUE
           /\ m.action = "CLEAR" => active' = FALSE
           /\ m.action = "CLEARALL" => active' = active
<1>1. handled \in Seq(Sendable) /\ active \in BOOLEAN /\ m.action \in {"RAISE", "CLEAR", "CLEARALL"}
  BY DEF TypeOK, Sendable
<1>2. handled' = Append(handled, m) /\ handled' \in Seq(Sendable)
  BY <1>1, AppendProperties DEF Handle
<1>3. active' = CASE m.action = "RAISE" -> TRUE
                  [] m.action = "CLEAR" -> FALSE
                  [] OTHER -> active
  BY DEF Handle
<1> QED BY <1>1, <1>2, <1>3

-------------------------------------------------------------------------------
(* Types, calls and the mutex. *)

\* Every step keeps the types, what a call has still to send, and the mutex in the
\* hands of the one goroutine that sends.
LEMMA LockStep ==
    ASSUME TypeOK, UnderLock, CallShape, [Next]_libraryVars
    PROVE  TypeOK' /\ UnderLock' /\ CallShape'
<1> USE DEF external, manager
<1>0. /\ caller \in [Callers -> CallState] /\ wire \in Seq(Sendable) /\ Free \notin Callers
      /\ \A c \in Callers : caller[c] \in CallState
  BY LibraryAssumption DEF TypeOK
<1>1. ASSUME NEW c \in Callers, NEW op \in Operations, Call(c, op)
      PROVE  TypeOK' /\ UnderLock' /\ CallShape'
  <2>1. TypeOK'
    BY <1>1, CallFacts DEF TypeOK
  <2>2. UnderLock'
    BY <1>1, CallFacts DEF UnderLock, Sending
  <2>3. CallShape'
    BY <1>1, CallFacts DEF CallShape, Sending, At
  <2> QED BY <2>1, <2>2, <2>3
<1>2. ASSUME NEW c \in Callers, Enter(c)
      PROVE  TypeOK' /\ UnderLock' /\ CallShape'
  <2>1. /\ caller[c].pc = "waiting" /\ caller[c].todo \in Todo
        /\ caller[c].op \in Operations /\ caller[c].todo = Messages(caller[c].op)
        /\ Create(c, caller[c].todo) /\ mutex = Free /\ mutex' = c
        /\ UNCHANGED <<initialiser, visible, calls, wire, lingering, manager>>
    BY <1>0, <1>2 DEF Enter, At, CallShape, CallState
  <2>2. wanted' \in BOOLEAN /\ doubtful' \in BOOLEAN
    <3>1. \/ wanted' = wanted /\ doubtful' = doubtful
          \/ /\ wanted' = (caller[c].op \in {"Raise", "Reraise"})
             /\ doubtful' = (doubtful /\ UnderWay)
      BY <1>2, Zenon DEF Enter, Want
    <3>2. wanted \in BOOLEAN /\ doubtful \in BOOLEAN
      BY DEF TypeOK
    <3>3. /\ (caller[c].op \in {"Raise", "Reraise"}) \in BOOLEAN
          /\ (doubtful /\ UnderWay) \in BOOLEAN
      BY <3>2
    <3> QED BY <3>1, <3>2, <3>3, Zenon
  <2>3. TypeOK'
    BY <2>1, <2>2, CreateFacts DEF TypeOK
  <2>4. UnderLock'
    BY <1>0, <2>1, CreateFacts DEF UnderLock, Sending
  <2>5. CallShape'
    BY <2>1, CreateFacts DEF CallShape, Sending, At
  <2> QED BY <2>3, <2>4, <2>5
<1>3. ASSUME NEW c \in Callers, Trying(c)
      PROVE  TypeOK' /\ UnderLock' /\ CallShape'
  <2>1. TypeOK'
    BY <1>3, TryingFacts DEF TypeOK
  <2>2. UnderLock'
    BY <1>3, TryingFacts DEF UnderLock, Sending
  <2>3. CallShape'
    BY <1>3, TryingFacts DEF CallShape, Sending, At
  <2> QED BY <2>1, <2>2, <2>3
<1>4. ASSUME NEW c \in Callers, Sending(c), Return(c)
      PROVE  /\ UnderLock' /\ CallShape' /\ mutex' = Free
             /\ caller' \in [Callers -> CallState] /\ created' \in Nat
  <2>1. mutex = c /\ mutex' = Free
    BY <1>4, ReturnFacts DEF UnderLock
  <2>2. UnderLock'
    BY <1>0, <1>4, <2>1, ReturnFacts DEF UnderLock, Sending
  <2>3. CallShape'
    BY <1>4, ReturnFacts DEF CallShape, Sending, At
  <2> QED BY <1>4, <2>1, <2>2, <2>3, ReturnFacts DEF TypeOK
<1>5. ASSUME NEW c \in Callers, Sending(c), Sent(c)
      PROVE  /\ UnderLock' /\ CallShape' /\ mutex' \in Callers \cup {Free}
             /\ caller' \in [Callers -> CallState] /\ created' \in Nat
  <2>1. CASE caller[c].op = "Reraise" /\ Create(c, <<"RAISE">>) /\ mutex' = mutex
    <3>0. <<"RAISE">> \in Todo
      BY DEF Todo
    <3>1. UnderLock'
      BY <1>5, <2>1, <3>0, CreateFacts DEF UnderLock, Sending
    <3>2. CallShape'
      BY <1>5, <2>1, <3>0, CreateFacts DEF CallShape, Sending, At
    <3> QED BY <2>1, <3>0, <3>1, <3>2, CreateFacts DEF TypeOK
  <2>2. CASE Return(c)
    BY <1>4, <1>5, <2>2
  <2> QED BY <1>5, <2>1, <2>2, SentCases
<1>6. ASSUME NEW c \in Callers, Finishing(c)
      PROVE  TypeOK' /\ UnderLock' /\ CallShape'
  <2>1. Sending(c) /\ Sent(c) /\ UNCHANGED <<initialiser, visible, calls, lingering, wanted>>
    BY <1>6 DEF Finishing, RmrSend, HttpPost, HttpRefused, At, Sending
  <2>2. Current(c) \in Sendable
    BY <2>1, SendingFacts
  <2>3. /\ wire' \in Seq(Sendable) /\ handled' \in Seq(Sendable)
        /\ active' \in BOOLEAN /\ doubtful' \in BOOLEAN
    <3>1. CASE RmrSend(c)
      BY <1>0, <2>2, <3>1, AppendProperties DEF RmrSend, TypeOK
    <3>2. CASE HttpPost(c)
      BY <2>2, <3>2, HandleFacts DEF HttpPost, TypeOK
    <3>3. CASE HttpRefused(c)
      BY <3>3 DEF HttpRefused, TypeOK
    <3> QED BY <1>6, <3>1, <3>2, <3>3 DEF Finishing
  <2> QED BY <1>5, <2>1, <2>3 DEF TypeOK
<1>7. ASSUME NEW c \in Callers, HttpFail(c)
      PROVE  TypeOK' /\ UnderLock' /\ CallShape'
  <2>1. /\ Sending(c) /\ Return(c) /\ UNCHANGED <<initialiser, visible, calls, wire, manager, wanted>>
        /\ doubtful' = TRUE /\ lingering' \in {lingering, lingering \cup {Current(c)}}
    BY <1>7 DEF HttpFail, At, Sending
  <2>2. lingering' \subseteq Sendable
    BY <2>1, SendingFacts DEF TypeOK
  <2> QED BY <1>4, <2>1, <2>2 DEF TypeOK
<1>8. ASSUME Deliver \/ Drop \/ \E m \in lingering : HandleLate(m)
      PROVE  TypeOK' /\ UnderLock' /\ CallShape'
  <2>1. UNCHANGED library
    BY <1>8 DEF Deliver, Drop, HandleLate
  <2>2. UnderLock' /\ CallShape'
    BY <2>1 DEF library, UnderLock, CallShape, Sending, At
  <2>3. CASE Deliver
    <3>1. Head(wire) \in Sendable /\ Tail(wire) \in Seq(Sendable)
      BY <1>0, <2>3, TailFacts DEF Deliver
    <3> QED BY <2>1, <2>2, <2>3, <3>1, HandleFacts DEF Deliver, TypeOK, library
  <2>4. CASE Drop
    <3>1. Tail(wire) \in Seq(Sendable)
      BY <1>0, <2>4, TailFacts DEF Drop
    <3> QED BY <2>1, <2>2, <2>4, <3>1 DEF Drop, TypeOK, library
  <2>5. CASE \E m \in lingering : HandleLate(m)
    <3>1. PICK m \in lingering : HandleLate(m)
      BY <2>5
    <3>2. m \in Sendable /\ Handle(m)
      BY <3>1 DEF HandleLate, TypeOK
    <3> QED BY <2>1, <2>2, <3>1, <3>2, HandleFacts DEF HandleLate, TypeOK, library
  <2> QED BY <1>8, <2>3, <2>4, <2>5
<1>9. ASSUME Aside
      PROVE  TypeOK' /\ UnderLock' /\ CallShape'
  BY <1>9 DEF Aside, TypeOK, UnderLock, CallShape, Sending, At
<1> QED BY <1>1, <1>2, <1>3, <1>6, <1>7, <1>8, <1>9, StepCases

-------------------------------------------------------------------------------
(* Messages are handled once. *)

\* A message that is being sent is new: nothing on its way or handled equals it.
LEMMA CurrentIsNew ==
    ASSUME TypeOK, CallShape, OwnNumbers, NEW c \in Callers, Sending(c)
    PROVE  /\ Current(c) \in Sendable /\ Current(c).number <= created
           /\ Current(c) \notin Carried
BY SendingFacts DEF OwnNumbers

\* When a goroutine is done with its message, wherever that went, what it sends next
\* has a number of its own again.
LEMMA NumbersMoveOn ==
    ASSUME TypeOK, UnderLock, CallShape, OwnNumbers, NEW c \in Callers, Sending(c),
           Sent(c) \/ Return(c), Carried' \subseteq Carried \cup {Current(c)}, IsInjective(wire')
    PROVE  OwnNumbers'
<1>1. /\ created \in Nat /\ \A m \in Carried : m.number \in Nat /\ m.number <= created
      /\ Current(c).number \in Nat /\ Current(c).number <= created
  <2>1. ToSet(wire) \subseteq Sendable /\ ToSet(handled) \subseteq Sendable
    BY ElementOfSeq, LenProperties DEF ToSet, TypeOK
  <2>2. created \in Nat /\ lingering \subseteq Sendable
    BY DEF TypeOK
  <2> QED BY <2>1, <2>2, CurrentIsNew DEF Carried, OwnNumbers, Sendable
<1>2. \A d \in Callers \ {c} : ~Sending(d)
  BY DEF UnderLock
<1>3. CASE Create(c, <<"RAISE">>)
  <2>1. /\ created' = created + 1 /\ caller'[c].number = created + 1
        /\ \A d \in Callers \ {c} : caller'[d] = caller[d]
    BY <1>3, CreateFacts DEF Todo
  <2>2. \A m \in Carried' : m.number \in Nat /\ m.number <= created
    BY <1>1
  <2>3. \A d \in Callers : Sending(d)' => d = c
    BY <1>2, <2>1 DEF Sending
  <2> QED BY <1>1, <2>1, <2>2, <2>3 DEF OwnNumbers
<1>4. CASE Return(c)
  <2>1. /\ created' = created /\ caller'[c].pc = "idle"
        /\ \A d \in Callers \ {c} : caller'[d] = caller[d]
    BY <1>4, ReturnFacts
  <2>2. \A d \in Callers : ~Sending(d)'
    BY <1>2, <2>1 DEF Sending
  <2> QED BY <1>1, <2>1, <2>2 DEF OwnNumbers
<1> QED BY <1>3, <1>4, SentCases

\* Every step leaves each message in one place, in which it is once.
LEMMA OnceStep ==
    ASSUME TypeOK, UnderLock, CallShape, OwnNumbers, HandledOnce, [Next]_libraryVars
    PROVE  OwnNumbers' /\ HandledOnce'
<1> USE DEF external, manager
<1>0. /\ wire \in Seq(Sendable) /\ handled \in Seq(Sendable) /\ created \in Nat
      /\ lingering \subseteq Sendable
      /\ \A m \in Carried : m.number \in Nat
  <2>1. ToSet(wire) \subseteq Sendable /\ ToSet(handled) \subseteq Sendable
    BY ElementOfSeq, LenProperties DEF ToSet, TypeOK
  <2> QED BY <2>1 DEF TypeOK, Carried, Sendable
<1>1. ASSUME NEW c \in Callers, NEW op \in Operations, Call(c, op)
      PROVE  OwnNumbers' /\ HandledOnce'
  BY <1>1, CallFacts DEF OwnNumbers, HandledOnce, Carried, Sending
<1>2. ASSUME NEW c \in Callers, Enter(c)
      PROVE  OwnNumbers' /\ HandledOnce'
  <2>1. /\ Create(c, caller[c].todo) /\ caller[c].todo \in Todo
        /\ UNCHANGED <<wire, lingering, handled>>
        /\ \A d \in Callers : ~Sending(d)
    BY <1>2, LibraryAssumption DEF Enter, TypeOK, CallState, UnderLock
  <2>2. /\ created' = created + 1 /\ caller'[c].number = created + 1
        /\ \A d \in Callers \ {c} : caller'[d] = caller[d]
    BY <2>1, CreateFacts
  <2>3. \A d \in Callers : Sending(d)' => d = c
    BY <2>1, <2>2 DEF Sending
  <2>4. OwnNumbers'
    BY <1>0, <2>1, <2>2, <2>3 DEF OwnNumbers, Carried
  <2> QED BY <2>1, <2>4 DEF HandledOnce
<1>3. ASSUME NEW c \in Callers, Trying(c)
      PROVE  OwnNumbers' /\ HandledOnce'
  BY <1>3, TryingFacts DEF OwnNumbers, HandledOnce, Carried, Sending
<1>4. ASSUME NEW c \in Callers, RmrSend(c)
      PROVE  OwnNumbers' /\ HandledOnce'
  <2>1. Sending(c) /\ Sent(c) /\ UNCHANGED <<lingering, handled>> /\ wire' = Append(wire, Current(c))
    BY <1>4 DEF RmrSend, At, Sending
  <2>2. /\ ToSet(wire') = ToSet(wire) \cup {Current(c)} /\ Current(c) \notin Carried
        /\ IsInjective(wire')
    BY <1>0, <2>1, CurrentIsNew, AppendFacts DEF OwnNumbers, Carried
  <2>3. OwnNumbers'
    BY <2>1, <2>2, NumbersMoveOn DEF Carried
  <2> QED BY <2>1, <2>2, <2>3 DEF HandledOnce, Carried
<1>5. ASSUME NEW c \in Callers, HttpPost(c)
      PROVE  OwnNumbers' /\ HandledOnce'
  <2>1. /\ Sending(c) /\ Sent(c) /\ UNCHANGED <<lingering, wire>>
        /\ handled' = Append(handled, Current(c))
    BY <1>5 DEF HttpPost, Handle, At, Sending
  <2>2. /\ ToSet(handled') = ToSet(handled) \cup {Current(c)} /\ Current(c) \notin Carried
        /\ IsInjective(handled')
    BY <1>0, <2>1, CurrentIsNew, AppendFacts DEF HandledOnce, Carried
  <2>3. OwnNumbers'
    BY <2>1, <2>2, NumbersMoveOn DEF Carried, OwnNumbers
  <2> QED BY <2>1, <2>2, <2>3 DEF HandledOnce, Carried
<1>6. ASSUME NEW c \in Callers, HttpRefused(c)
      PROVE  OwnNumbers' /\ HandledOnce'
  <2>1. Sending(c) /\ Sent(c) /\ UNCHANGED <<wire, lingering, handled>>
    BY <1>6 DEF HttpRefused, At, Sending
  <2>2. OwnNumbers'
    BY <2>1, NumbersMoveOn DEF Carried, OwnNumbers
  <2> QED BY <2>1, <2>2 DEF HandledOnce
<1>7. ASSUME NEW c \in Callers, HttpFail(c)
      PROVE  OwnNumbers' /\ HandledOnce'
  <2>1. /\ Sending(c) /\ Return(c) /\ UNCHANGED <<wire, handled>>
        /\ lingering' \in {lingering, lingering \cup {Current(c)}}
    BY <1>7 DEF HttpFail, At, Sending
  <2>2. Current(c) \notin Carried
    BY <2>1, CurrentIsNew
  <2>3. OwnNumbers'
    BY <2>1, NumbersMoveOn DEF Carried, OwnNumbers
  <2> QED BY <2>1, <2>2, <2>3 DEF HandledOnce, Carried
<1>8. ASSUME Deliver \/ Drop
      PROVE  OwnNumbers' /\ HandledOnce'
  <2>1. /\ wire # <<>> /\ wire' = Tail(wire) /\ UNCHANGED <<created, caller, lingering>>
        /\ handled' = Append(handled, Head(wire)) \/ handled' = handled
    BY <1>8 DEF Deliver, Drop, Handle, library
  <2>2. /\ Head(wire) \in Sendable /\ Head(wire) \in ToSet(wire)
        /\ ToSet(wire') \subseteq ToSet(wire)
        /\ Head(wire) \notin ToSet(wire') /\ IsInjective(wire')
    BY <1>0, <2>1, TailFacts DEF OwnNumbers
  <2>3. Head(wire) \notin ToSet(handled) /\ Head(wire) \notin lingering
    BY <2>2 DEF HandledOnce
  <2>4. /\ ToSet(handled') \subseteq ToSet(handled) \cup {Head(wire)}
        /\ IsInjective(handled')
    <3>1. CASE handled' = handled
      BY <3>1 DEF HandledOnce
    <3>2. CASE handled' = Append(handled, Head(wire))
      <4>1. /\ ToSet(Append(handled, Head(wire))) = ToSet(handled) \cup {Head(wire)}
            /\ IsInjective(Append(handled, Head(wire)))
        BY <1>0, <2>2, <2>3, AppendFacts DEF HandledOnce
      <4> QED BY <3>2, <4>1
    <3> QED BY <2>1, <3>1, <3>2
  <2>5. Carried' \subseteq Carried
    BY <2>1, <2>2, <2>4 DEF Carried
  <2>6. OwnNumbers'
    BY <2>1, <2>2, <2>5 DEF OwnNumbers, Sending
  <2> QED BY <2>1, <2>2, <2>3, <2>4, <2>6 DEF HandledOnce
<1>9. ASSUME NEW m \in lingering, HandleLate(m)
      PROVE  OwnNumbers' /\ HandledOnce'
  <2>1. /\ UNCHANGED <<created, caller, wire>> /\ lingering' = lingering \ {m}
        /\ handled' = Append(handled, m) /\ m \in Sendable
    BY <1>0, <1>9 DEF HandleLate, Handle, library
  <2>2. m \notin ToSet(handled) /\ m \notin ToSet(wire)
    BY DEF HandledOnce
  <2>3. ToSet(handled') = ToSet(handled) \cup {m} /\ IsInjective(handled')
    BY <1>0, <2>1, <2>2, AppendFacts DEF HandledOnce
  <2>4. Carried' \subseteq Carried
    BY <2>1, <2>3 DEF Carried
  <2>5. OwnNumbers'
    BY <2>1, <2>4 DEF OwnNumbers, Sending
  <2> QED BY <2>1, <2>2, <2>3, <2>5 DEF HandledOnce
<1>10. ASSUME Aside
       PROVE  OwnNumbers' /\ HandledOnce'
  BY <1>10 DEF Aside, OwnNumbers, HandledOnce, Carried, Sending
<1> QED BY <1>1, <1>2, <1>3, <1>4, <1>5, <1>6, <1>7, <1>8, <1>9, <1>10, StepCases DEF Finishing

-------------------------------------------------------------------------------
(* The last call wins. *)

\* The action that leaves the alarm active, or not.
Deciding(on) == IF on THEN "RAISE" ELSE "CLEAR"

\* What an append to RMR's messages makes of their outcome.
LEMMA OutcomeAppend ==
    ASSUME wire \in Seq(Sendable), NEW m \in Sendable, NEW on \in BOOLEAN,
           wire' = Append(wire, m), active' = active
    PROVE  /\ m.action = Deciding(on) => Outcome(on)'
           /\ m.action = "CLEARALL" /\ Outcome(on) => Outcome(on)'
<1>1. /\ DOMAIN wire = 1..Len(wire) /\ DOMAIN wire' = 1..(Len(wire) + 1) /\ Len(wire) \in Nat
      /\ \A i \in 1..Len(wire) : wire'[i] = wire[i]
      /\ wire'[Len(wire) + 1] = m
  BY AppendProperties, LenProperties
<1>2. ASSUME m.action = Deciding(on)
      PROVE  Outcome(on)'
  <2>1. Len(wire) + 1 \in DOMAIN wire' /\ \A j \in DOMAIN wire' : ~(j > Len(wire) + 1)
    BY <1>1
  <2> QED BY <1>1, <1>2, <2>1 DEF Outcome, Deciding
<1>3. ASSUME m.action = "CLEARALL", Outcome(on)
      PROVE  Outcome(on)'
  <2>1. CASE active = on /\ \A i \in DOMAIN wire : wire[i].action = "CLEARALL"
    <3>1. \A i \in DOMAIN wire' : wire'[i].action = "CLEARALL"
      BY <1>1, <1>3, <2>1
    <3> QED BY <2>1, <3>1 DEF Outcome
  <2>2. CASE \E i \in DOMAIN wire :
                /\ wire[i].action = Deciding(on)
                /\ \A j \in DOMAIN wire : j > i => wire[j].action = "CLEARALL"
    <3>1. PICK i \in DOMAIN wire : /\ wire[i].action = Deciding(on)
                                   /\ \A j \in DOMAIN wire : j > i => wire[j].action = "CLEARALL"
      BY <2>2
    <3>2. i \in DOMAIN wire' /\ wire'[i].action = Deciding(on)
      BY <1>1, <3>1
    <3>3. \A j \in DOMAIN wire' : j > i => wire'[j].action = "CLEARALL"
      BY <1>1, <1>3, <3>1
    <3> QED BY <3>2, <3>3 DEF Outcome, Deciding
  <2> QED BY <1>3, <2>1, <2>2 DEF Outcome, Deciding
<1> QED BY <1>2, <1>3

\* What RMR delivers moves from its messages to the manager.
LEMMA OutcomeDeliver ==
    ASSUME TypeOK, Deliver, NEW on \in BOOLEAN, Outcome(on)
    PROVE  Outcome(on)'
<1>1. /\ wire # <<>> /\ wire \in Seq(Sendable) /\ wire' = Tail(wire) /\ Handle(Head(wire))
  BY DEF Deliver, TypeOK
<1>2. /\ DOMAIN wire = 1..Len(wire) /\ Len(wire) \in Nat \ {0} /\ Head(wire) \in Sendable
      /\ DOMAIN wire' = 1..(Len(wire) - 1) /\ Head(wire) = wire[1]
      /\ \A i \in 1..(Len(wire) - 1) : wire'[i] = wire[i + 1]
  BY <1>1, TailFacts
<1>3. /\ wire[1].action = "RAISE" => active' = TRUE
      /\ wire[1].action = "CLEAR" => active' = FALSE
      /\ wire[1].action = "CLEARALL" => active' = active
  BY <1>1, <1>2, HandleFacts
<1>4. CASE active = on /\ \A i \in DOMAIN wire : wire[i].action = "CLEARALL"
  <2>1. active' = active
    BY <1>2, <1>4, <1>3
  <2>2. \A i \in DOMAIN wire' : wire'[i].action = "CLEARALL"
    BY <1>2, <1>4
  <2> QED BY <1>4, <2>1, <2>2 DEF Outcome
<1>5. ASSUME NEW i \in DOMAIN wire, wire[i].action = Deciding(on),
             \A j \in DOMAIN wire : j > i => wire[j].action = "CLEARALL"
      PROVE  Outcome(on)'
  <2>1. CASE i = 1
    <3>1. active' = on
      <4>1. CASE on = TRUE
        <5>1. Deciding(on) = "RAISE"
          BY <4>1 DEF Deciding
        <5>2. active' = TRUE
          BY <1>5, <1>3, <2>1, <5>1
        <5> QED BY <4>1, <5>2, Zenon
      <4>2. CASE on = FALSE
        <5>1. Deciding(on) = "CLEAR"
          BY <4>2 DEF Deciding
        <5>2. active' = FALSE
          BY <1>5, <1>3, <2>1, <5>1
        <5> QED BY <4>2, <5>2, Zenon
      <4> QED BY <4>1, <4>2, Zenon
    <3>2. \A k \in DOMAIN wire' : wire'[k].action = "CLEARALL"
      BY <1>2, <1>5, <2>1
    <3> QED BY <3>1, <3>2 DEF Outcome
  <2>2. CASE i # 1
    <3>1. i - 1 \in DOMAIN wire' /\ wire'[i - 1].action = Deciding(on)
      BY <1>2, <1>5, <2>2
    <3>2. \A k \in DOMAIN wire' : k > i - 1 => wire'[k].action = "CLEARALL"
      BY <1>2, <1>5, <2>2
    <3> QED BY <3>1, <3>2 DEF Outcome, Deciding
  <2> QED BY <2>1, <2>2
<1> QED BY <1>4, <1>5 DEF Outcome, Deciding

\* The message with which a settling call ends decides as the call wants.
LEMMA LastDecides ==
    ASSUME NEW op \in Operations \ {"ClearAll"}
    PROVE  LastAction(op) = Deciding(op \in {"Raise", "Reraise"})
BY DEF Operations, LastAction, Deciding

\* Outcome depends on the messages and the manager only.
LEMMA OutcomeKept ==
    ASSUME UNCHANGED <<wire, active, wanted>>, Outcome(wanted)
    PROVE  Outcome(wanted)'
BY DEF Outcome

\* When no goroutine's settling call changes hands, Settled stays.
LEMMA SettledKept ==
    ASSUME UNCHANGED external, Settled,
           \A d \in Callers : /\ Settling(d)' <=> Settling(d)
                              /\ Settling(d) => caller'[d].op = caller[d].op
    PROVE  Settled'
BY OutcomeKept DEF Settled, external, manager

\* A call that has sent its last message leaves an outcome that is wanted, if the
\* message joined what RMR carries or was handled with nothing else on its way.
LEMMA SettledBySending ==
    ASSUME TypeOK, UnderLock, CallShape, Settled, NEW c \in Callers, Sending(c), Sent(c),
           UNCHANGED <<lingering, wanted>>,
           ~doubtful' => /\ ~doubtful
                         /\ \/ wire' = Append(wire, Current(c)) /\ active' = active
                            \/ wire = <<>> /\ wire' = <<>> /\ Handle(Current(c))
    PROVE  Settled'
<1> SUFFICES ASSUME ~doubtful'
             PROVE  /\ lingering' = {}
                    /\ \A d \in Callers : Settling(d)' =>
                          wanted' = (caller'[d].op \in {"Raise", "Reraise"})
                    /\ (\A d \in Callers : ~Settling(d)') => Outcome(wanted)'
  BY DEF Settled
<1>1. /\ ~doubtful /\ lingering = {} /\ wanted \in BOOLEAN
      /\ caller[c].op \in Operations /\ Current(c) \in Sendable
      /\ \A d \in Callers \ {c} : ~Sending(d) /\ ~Settling(d)
      /\ Settling(c) <=> caller[c].op # "ClearAll"
      /\ Settling(c) => wanted = (caller[c].op \in {"Raise", "Reraise"})
      /\ ~Settling(c) => Outcome(wanted)
  BY SendingFacts DEF Settled, UnderLock, Settling, TypeOK
<1>2. CASE caller[c].op = "Reraise" /\ Create(c, <<"RAISE">>)
  <2>1. /\ caller'[c].op = "Reraise" /\ caller'[c].pc = "checking"
        /\ \A d \in Callers \ {c} : caller'[d] = caller[d]
    BY <1>2, CreateFacts DEF Todo
  <2>2. Settling(c)' /\ \A d \in Callers \ {c} : ~Settling(d)'
    BY <1>1, <2>1 DEF Settling, Sending
  <2> QED BY <1>1, <1>2, <2>1, <2>2
<1>3. CASE Current(c).action = LastAction(caller[c].op) /\ Return(c)
  <2>1. \A d \in Callers : ~Settling(d)'
    BY <1>1, <1>3, ReturnFacts DEF Settling, Sending
  <2>2. \/ Current(c).action = Deciding(wanted)
        \/ Current(c).action = "CLEARALL" /\ Outcome(wanted)
    <3>1. CASE caller[c].op = "ClearAll"
      BY <1>1, <1>3, <3>1 DEF LastAction
    <3>2. CASE caller[c].op # "ClearAll"
      BY <1>1, <1>3, <3>2, LastDecides
    <3> QED BY <3>1, <3>2
  <2>3. PICK on \in BOOLEAN : on = wanted
    BY <1>1
  <2>4. Outcome(on)'
    <3>1. CASE wire' = Append(wire, Current(c)) /\ active' = active
      <4>1. wire \in Seq(Sendable)
        BY DEF TypeOK
      <4> QED BY <1>1, <2>2, <2>3, <3>1, <4>1, OutcomeAppend
    <3>2. CASE wire = <<>> /\ wire' = <<>> /\ Handle(Current(c))
      <4>1. /\ Current(c).action = "RAISE" => active' = TRUE
            /\ Current(c).action = "CLEAR" => active' = FALSE
            /\ Current(c).action = "CLEARALL" => active' = active
        BY <1>1, <3>2, HandleFacts
      <4>2. \A i \in DOMAIN wire' : wire'[i].action = "CLEARALL"
        BY <3>2
      <4>3. CASE Current(c).action = Deciding(on)
        <5>1. CASE on = TRUE
          <6>1. active' = TRUE
            BY <4>1, <4>3, <5>1 DEF Deciding
          <6> QED BY <4>2, <5>1, <6>1 DEF Outcome
        <5>2. CASE on = FALSE
          <6>1. active' = FALSE
            BY <4>1, <4>3, <5>2 DEF Deciding
          <6> QED BY <4>2, <5>2, <6>1 DEF Outcome
        <5> QED BY <5>1, <5>2
      <4>4. CASE Current(c).action = "CLEARALL" /\ Outcome(on)
        <5>1. active = on
          BY <3>2, <4>4 DEF Outcome
        <5>2. active' = active
          BY <4>1, <4>4
        <5> QED BY <4>2, <5>1, <5>2 DEF Outcome
      <4> QED BY <2>2, <2>3, <4>3, <4>4
    <3> QED BY <3>1, <3>2
  <2>5. wanted' = on
    BY <2>3
  <2>6. Outcome(wanted)'
    BY <2>4, <2>5 DEF Outcome
  <2> QED BY <1>1, <2>1, <2>6
<1> QED BY <1>2, <1>3, SentCases

\* Every step keeps what RMR carries and the calls in agreement with what is wanted.
LEMMA SettledStep ==
    ASSUME TypeOK, UnderLock, CallShape, Settled, [Next]_libraryVars
    PROVE  Settled'
<1>0. wire \in Seq(Sendable) /\ wanted \in BOOLEAN /\ doubtful \in BOOLEAN
  BY DEF TypeOK
<1>1. ASSUME NEW c \in Callers, NEW op \in Operations, Call(c, op)
      PROVE  Settled'
  BY <1>1, CallFacts, SettledKept DEF Settling, Sending
<1>2. ASSUME NEW c \in Callers, Enter(c)
      PROVE  Settled'
  <2>1. /\ caller[c].op \in Operations /\ caller[c].todo = Messages(caller[c].op)
        /\ caller[c].todo \in Todo /\ Create(c, caller[c].todo) /\ mutex = Free /\ Want(c)
        /\ UNCHANGED <<wire, lingering, active>>
        /\ \A d \in Callers : ~Sending(d) /\ ~Settling(d)
    BY <1>2, LibraryAssumption
       DEF Enter, At, CallShape, TypeOK, CallState, UnderLock, Settling, manager
  <2>2. /\ caller'[c].op = caller[c].op /\ caller'[c].pc = "checking"
        /\ \A d \in Callers \ {c} : caller'[d] = caller[d]
    BY <2>1, CreateFacts
  <2>3. /\ \A d \in Callers \ {c} : ~Settling(d)'
        /\ Settling(c)' <=> caller[c].op # "ClearAll"
    BY <2>1, <2>2 DEF Settling, Sending
  <2>4. CASE caller[c].op = "ClearAll"
    <3>1. UNCHANGED <<wanted, doubtful>>
      BY <2>1, <2>4, TodoFacts DEF Want
    <3> QED BY <2>1, <2>3, <2>4, <3>1, OutcomeKept DEF Settled
  <2>5. CASE caller[c].op # "ClearAll"
    <3>1. Head(caller[c].todo) # "CLEARALL"
      BY <2>1, <2>5, TodoFacts DEF Operations
    <3>2. /\ wanted' = (caller[c].op \in {"Raise", "Reraise"})
          /\ doubtful' = (doubtful /\ UnderWay)
      BY <2>1, <3>1, Zenon DEF Want
    <3>3. ~doubtful' => lingering' = {}
      BY <2>1, <3>2 DEF Settled, UnderWay
    <3> QED BY <2>2, <2>3, <2>5, <3>2, <3>3 DEF Settled
  <2> QED BY <2>4, <2>5
<1>3. ASSUME NEW c \in Callers, Trying(c)
      PROVE  Settled'
  BY <1>3, TryingFacts, SettledKept DEF Settling, Sending
<1>4. ASSUME NEW c \in Callers, RmrSend(c)
      PROVE  Settled'
  <2>1. /\ Sending(c) /\ Sent(c) /\ wire' = Append(wire, Current(c))
        /\ UNCHANGED <<lingering, active, wanted, doubtful>>
    BY <1>4 DEF RmrSend, At, Sending, manager
  <2> QED BY <2>1, SettledBySending
<1>5. ASSUME NEW c \in Callers, HttpPost(c)
      PROVE  Settled'
  <2>1. /\ Sending(c) /\ Sent(c) /\ Handle(Current(c)) /\ doubtful' = (doubtful \/ UnderWay)
        /\ UNCHANGED <<wire, lingering, wanted>>
    BY <1>5 DEF HttpPost, At, Sending
  <2>2. ~doubtful' => ~doubtful /\ wire = <<>>
    BY <2>1 DEF UnderWay
  <2> QED BY <2>1, <2>2, SettledBySending
<1>6. ASSUME NEW c \in Callers, HttpRefused(c) \/ HttpFail(c)
      PROVE  Settled'
  BY <1>6 DEF HttpRefused, HttpFail, Settled
<1>7. CASE Deliver
  <2>1. /\ UNCHANGED <<caller, lingering, wanted, doubtful>>
        /\ \A d \in Callers : Settling(d)' <=> Settling(d)
    BY <1>7 DEF Deliver, library, Settling, Sending
  <2>2. Outcome(wanted) => Outcome(wanted)'
    <3>1. PICK on \in BOOLEAN : on = wanted
      BY <1>0
    <3>2. Outcome(on) => Outcome(on)'
      BY <1>7, OutcomeDeliver
    <3>3. wanted' = on
      BY <2>1, <3>1
    <3> QED BY <3>1, <3>2, <3>3 DEF Outcome
  <2> QED BY <2>1, <2>2 DEF Settled
<1>8. CASE Drop \/ \E m \in lingering : HandleLate(m)
  BY <1>8 DEF Drop, HandleLate, Settled
<1>9. CASE Aside
  BY <1>9, SettledKept DEF Aside, Settling, Sending
<1> QED BY <1>1, <1>2, <1>3, <1>4, <1>5, <1>6, <1>7, <1>8, <1>9, StepCases DEF Finishing

-------------------------------------------------------------------------------
(* The theorems. *)

\* The library and everything outside it begin well.
LEMMA LibraryInitially ==
    ASSUME Init
    PROVE  LibraryInv
<1> USE DEF Init
<1>1. caller \in [Callers -> CallState] /\ \A c \in Callers : ~Sending(c) /\ At(c, "idle")
  <2>1. Resting \in CallState /\ Resting.pc = "idle"
    BY LibraryAssumption DEF Resting, CallState, Todo
  <2> QED BY <2>1 DEF Sending, At
<1>2. TypeOK
  BY <1>1, EmptySeq DEF TypeOK
<1>3. UnderLock /\ CallShape
  BY <1>1, LibraryAssumption DEF UnderLock, CallShape, At, Sending
<1>4. DOMAIN wire = {} /\ DOMAIN handled = {}
  BY LenProperties, EmptySeq
<1>5. OwnNumbers /\ HandledOnce
  BY <1>1, <1>4 DEF OwnNumbers, HandledOnce, Carried, ToSet, IsInjective
<1>6. Settled
  BY <1>1, <1>4 DEF Settled, Outcome, Settling
<1> QED BY <1>2, <1>3, <1>5, <1>6 DEF LibraryInv

\* The inductive invariant holds in every reachable state.
LEMMA LibraryInvariant == Spec => []LibraryInv
<1>1. ASSUME LibraryInv, [Next]_libraryVars
      PROVE  LibraryInv'
  BY <1>1, LockStep, OnceStep, SettledStep DEF LibraryInv
<1> QED BY <1>1, LibraryInitially, PTL DEF Spec

\* The state of the library, and of everything outside it, stays well typed; the counter
\* of rmrSend (utils.c) never passes its bound.
THEOREM LibraryTyped == Spec => []TypeOK
<1>1. LibraryInv => TypeOK
  BY DEF LibraryInv
<1> QED BY <1>1, LibraryInvariant, PTL

\* sendAlarmUpdateReq: a message is handled by the manager at most once, for any
\* number of goroutines and attempts, over two transports that may fail at any point.
THEOREM MessagesHandledOnce == Spec => []HandledOnce
<1>1. LibraryInv => HandledOnce
  BY DEF LibraryInv
<1> QED BY <1>1, LibraryInvariant, PTL

\* Raise, Clear and Reraise: when the calls have returned and nothing is under way, the
\* manager agrees with the call that took the mutex last, unless in or after it a
\* message was lost, given up or overtaken.
THEOREM ManagerAgrees == Spec => []LastCallWins
<1>1. LibraryInv => LastCallWins
  <2> SUFFICES ASSUME LibraryInv, Quiet, ~UnderWay, ~doubtful
               PROVE  active = wanted
    BY DEF LastCallWins
  <2>1. \A c \in Callers : ~Settling(c)
    BY DEF Quiet, At, Settling, Sending
  <2>2. Outcome(wanted) /\ wire = <<>>
    BY <2>1 DEF LibraryInv, Settled, UnderWay
  <2>3. DOMAIN wire = {}
    BY <2>2
  <2> QED BY <2>2, <2>3 DEF Outcome
<1> QED BY <1>1, LibraryInvariant, PTL

===============================================================================
