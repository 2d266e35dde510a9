----------------------------- MODULE AlarmLibrary -----------------------------
(***************************************************************************)
(* The library that applications link (alarm/alarm.go) with its RMR glue   *)
(* (alarm/utils.c): goroutines of one application call Raise, Clear,       *)
(* Reraise and ClearAll of one RICAlarm, while InitRMR connects to RMR.    *)
(* Every message is tried over RMR and, if RMR does not take it, posted    *)
(* over HTTP.                                                              *)
(*                                                                         *)
(* External, and modelled from how the library uses them: RMR, which       *)
(* carries the messages it takes in order and may drop them; HTTP, where a *)
(* request may be handled although its sender got an error; the manager,   *)
(* of which one alarm is kept.                                             *)
(***************************************************************************)
EXTENDS Naturals, Sequences, SequencesExt

CONSTANTS
    Callers,      \* the application's goroutines
    Free,         \* the mutex is not held
    MaxAttempts,  \* 10: how often rmrSend offers a message to RMR
    MaxCalls      \* bound: how many calls are made

ASSUME LibraryAssumption ==
    /\ Free \notin Callers
    /\ MaxAttempts \in Nat \ {0} /\ MaxCalls \in Nat

VARIABLES
    mutex,        \* r.mutex
    initialiser,  \* where InitRMR is: "starting", "connected", "done" or "failed"
    visible,      \* which of rmrCtx and rmrReady, written without a lock, can be seen
    caller,       \* where every goroutine is in its call
    calls,        \* calls made so far
    created,      \* messages created so far; it numbers them
    wire,         \* external: what RMR has taken and not delivered
    lingering,    \* external: requests given up by their sender, not by the manager
    active,       \* external: the manager's table has the alarm
    handled,      \* external: the messages it has handled, in order
    wanted,       \* history: the alarm shall be active after the last call
    doubtful      \* history: since it began, a message was lost, given up or overtaken

manager  == <<active, handled>>
external == <<wire, lingering, manager, wanted, doubtful>>
library  == <<mutex, initialiser, visible, caller, calls, created>>
libraryVars == <<library, external>>

-------------------------------------------------------------------------------
(* Calls. *)

Operations == {"Raise", "Clear", "Reraise", "ClearAll"}

\* The actions of the messages that an operation sends.
Messages(op) ==
    CASE op = "Raise"    -> <<"RAISE">>
      [] op = "Clear"    -> <<"CLEAR">>
      [] op = "Reraise"  -> <<"CLEAR", "RAISE">>
      [] op = "ClearAll" -> <<"CLEARALL">>

Resting == [pc |-> "idle", op |-> "none", todo |-> <<>>, number |-> 0, attempts |-> 0]

At(c, label) == caller[c].pc = label

Current(c) == [number |-> caller[c].number, action |-> Head(caller[c].todo)]

Call(c, op) ==
    /\ At(c, "idle")
    /\ calls < MaxCalls
    /\ calls' = calls + 1
    /\ caller' = [caller EXCEPT ![c] = [Resting EXCEPT !.pc = "waiting", !.op = op,
                                                         !.todo = Messages(op)]]
    /\ UNCHANGED <<mutex, initialiser, visible, created, external>>

\* NewAlarmMessage: a message is created when its turn has come.
Create(c, messages) ==
    /\ created' = created + 1
    /\ caller' = [caller EXCEPT ![c] = [@ EXCEPT !.pc = "checking", !.todo = messages,
                                                 !.number = created + 1, !.attempts = 0]]

\* Messages sent before may still be handled.
UnderWay == wire # <<>> \/ lingering # {}

\* ClearAll is ignored by the manager; any other call settles what is wanted.
Want(c) ==
    IF Head(caller[c].todo) = "CLEARALL"
    THEN UNCHANGED <<wanted, doubtful>>
    ELSE /\ wanted' = (caller[c].op \in {"Raise", "Reraise"})
         /\ doubtful' = (doubtful /\ UnderWay)

\* Mutant: r.mutex is not taken.
EnterAtOnce(c) ==
    /\ At(c, "waiting")
    /\ Create(c, caller[c].todo)
    /\ Want(c)
    /\ UNCHANGED <<mutex, initialiser, visible, calls, wire, lingering, manager>>

Enter(c) ==
    /\ At(c, "waiting")
    /\ mutex = Free
    /\ mutex' = c
    /\ Create(c, caller[c].todo)
    /\ Want(c)
    /\ UNCHANGED <<initialiser, visible, calls, wire, lingering, manager>>

\* The deferred unlock runs, whatever the outcome.
Return(c) ==
    /\ caller' = [caller EXCEPT ![c] = Resting]
    /\ mutex' = IF mutex = c THEN Free ELSE mutex
    /\ UNCHANGED created

\* A message is sent: Reraise goes on with its second one.
Sent(c) ==
    IF Len(caller[c].todo) > 1
    THEN Create(c, Tail(caller[c].todo)) /\ UNCHANGED mutex
    ELSE Return(c)

-------------------------------------------------------------------------------
(* The manager. *)

Handle(m) ==
    /\ handled' = Append(handled, m)
    /\ active' = CASE m.action = "RAISE" -> TRUE
                   [] m.action = "CLEAR" -> FALSE
                   [] OTHER -> active         \* ProcessAlarm ignores a CLEARALL

Deliver ==
    /\ wire # <<>>
    /\ Handle(Head(wire))
    /\ wire' = Tail(wire)
    /\ UNCHANGED <<library, lingering, wanted, doubtful>>

\* RMR drops what the receiver does not take.
Drop ==
    /\ wire # <<>>
    /\ wire' = Tail(wire)
    /\ doubtful' = TRUE
    /\ UNCHANGED <<library, lingering, manager, wanted>>

HandleLate(m) ==
    /\ m \in lingering
    /\ Handle(m)
    /\ lingering' = lingering \ {m}
    /\ UNCHANGED <<library, wire, wanted, doubtful>>

-------------------------------------------------------------------------------
(* sendAlarmUpdateReq. *)

Connected == {"rmrCtx", "rmrReady"} \subseteq visible

CheckRmr(c) ==
    /\ At(c, "checking")
    /\ caller' = [caller EXCEPT ![c].pc = IF Connected THEN "rmr" ELSE "http"]
    /\ UNCHANGED <<mutex, initialiser, visible, calls, created, external>>

\* rmr_send_msg returns RMR_OK.
RmrSend(c) ==
    /\ At(c, "rmr")
    /\ wire' = Append(wire, Current(c))
    /\ Sent(c)
    /\ UNCHANGED <<initialiser, visible, calls, lingering, manager, wanted, doubtful>>

\* Mutant: the loop has no end.
RmrRetryForever(c) ==
    /\ At(c, "rmr")
    /\ caller' = [caller EXCEPT ![c].attempts = (@ + 1) % MaxAttempts]
    /\ UNCHANGED <<mutex, initialiser, visible, calls, created, external>>

\* Mutant: one attempt too many.
RmrRetryOnceMore(c) ==
    /\ At(c, "rmr")
    /\ caller' = IF caller[c].attempts < MaxAttempts
                 THEN [caller EXCEPT ![c].attempts = @ + 1]
                 ELSE [caller EXCEPT ![c].pc = "http"]
    /\ UNCHANGED <<mutex, initialiser, visible, calls, created, external>>

\* It returns RMR_ERR_RETRY: the message was not taken.
RmrRetry(c) ==
    /\ At(c, "rmr")
    /\ caller' = IF caller[c].attempts + 1 < MaxAttempts
                 THEN [caller EXCEPT ![c].attempts = @ + 1]
                 ELSE [caller EXCEPT ![c].pc = "http"]
    /\ UNCHANGED <<mutex, initialiser, visible, calls, created, external>>

\* Mutant: the error is set although RMR has taken the message.
RmrFailTaken(c) ==
    /\ At(c, "rmr")
    /\ wire' = Append(wire, Current(c))
    /\ caller' = [caller EXCEPT ![c].pc = "http"]
    /\ UNCHANGED <<mutex, initialiser, visible, calls, created, lingering, manager,
                   wanted, doubtful>>

\* It returns another state, or no buffer: rmrSend does not try again.
RmrFail(c) ==
    /\ At(c, "rmr")
    /\ caller' = [caller EXCEPT ![c].pc = "http"]
    /\ UNCHANGED <<mutex, initialiser, visible, calls, created, external>>

\* The manager handles the request and answers.
HttpPost(c) ==
    /\ At(c, "http")
    /\ Handle(Current(c))
    /\ doubtful' = (doubtful \/ UnderWay)
    /\ Sent(c)
    /\ UNCHANGED <<initialiser, visible, calls, wire, lingering, wanted>>

\* The answer is an error status, which is logged as a success.
HttpRefused(c) ==
    /\ At(c, "http")
    /\ doubtful' = TRUE
    /\ Sent(c)
    /\ UNCHANGED <<initialiser, visible, calls, wire, lingering, manager, wanted>>

\* No answer: an error is returned, and a Reraise ends here.
HttpFail(c) ==
    /\ At(c, "http")
    /\ lingering' \in {lingering, lingering \cup {Current(c)}}
    /\ doubtful' = TRUE
    /\ Return(c)
    /\ UNCHANGED <<initialiser, visible, calls, wire, manager, wanted>>

-------------------------------------------------------------------------------
(* InitRMR. *)

\* The route table cannot be written, or RMR not be initialised.
InitFails ==
    /\ initialiser = "starting"
    /\ initialiser' = "failed"
    /\ UNCHANGED <<mutex, visible, caller, calls, created, external>>

\* r.rmrCtx is set once rmr_ready says so; then r.rmrReady is.
SetContext ==
    /\ initialiser = "starting"
    /\ initialiser' = "connected"
    /\ UNCHANGED <<mutex, visible, caller, calls, created, external>>

SetReady ==
    /\ initialiser = "connected"
    /\ initialiser' = "done"
    /\ UNCHANGED <<mutex, visible, caller, calls, created, external>>

Written == CASE initialiser = "connected" -> {"rmrCtx"}
             [] initialiser = "done"      -> {"rmrCtx", "rmrReady"}
             [] OTHER                     -> {}

\* A data race: the callers see the two writes in either order.
See(w) ==
    /\ w \in Written \ visible
    /\ visible' = visible \cup {w}
    /\ UNCHANGED <<mutex, initialiser, caller, calls, created, external>>

-------------------------------------------------------------------------------
Init ==
    /\ mutex = Free
    /\ initialiser = "starting" /\ visible = {}
    /\ caller = [c \in Callers |-> Resting]
    /\ calls = 0 /\ created = 0
    /\ wire = <<>> /\ lingering = {}
    /\ active = FALSE /\ handled = <<>>
    /\ wanted = FALSE /\ doubtful = FALSE

OverRmr(c)  == RmrSend(c) \/ RmrRetry(c) \/ RmrFail(c)
OverHttp(c) == HttpPost(c) \/ HttpRefused(c) \/ HttpFail(c)

Send(c) == CheckRmr(c) \/ OverRmr(c) \/ OverHttp(c)

InitRMR == InitFails \/ SetContext \/ SetReady \/ \E w \in {"rmrCtx", "rmrReady"} : See(w)

Network == Deliver \/ Drop \/ \E m \in lingering : HandleLate(m)

Quiet == \A c \in Callers : At(c, "idle")

\* Nothing is left to do.
Done == /\ calls = MaxCalls /\ Quiet /\ ~UnderWay
        /\ UNCHANGED libraryVars

Next ==
    \/ \E c \in Callers : (\E op \in Operations : Call(c, op)) \/ Enter(c) \/ Send(c)
    \/ InitRMR \/ Network \/ Done

Spec == Init /\ [][Next]_libraryVars

(***************************************************************************)
(* The scheduler runs a ready goroutine, and the mutex is handed on to one *)
(* that waits for long. RMR may stay unable to send for ever. Nothing is   *)
(* assumed of an HTTP exchange: http.Post has no timeout, and a manager    *)
(* that lives and never answers keeps it open for ever.                    *)
(***************************************************************************)
FairSpec ==
    /\ Spec
    /\ \A c \in Callers :
          SF_libraryVars(Enter(c)) /\ WF_libraryVars(CheckRmr(c) \/ OverRmr(c))

-------------------------------------------------------------------------------
Sendable == [number : Nat, action : {"RAISE", "CLEAR", "CLEARALL"}]

\* What a call may still have to send.
Todo == {<<>>, <<"RAISE">>, <<"CLEAR">>, <<"CLEAR", "RAISE">>, <<"CLEARALL">>}

CallState == [pc : {"idle", "waiting", "checking", "rmr", "http"},
              op : Operations \cup {"none"}, todo : Todo,
              number : Nat, attempts : 0..(MaxAttempts - 1)]

\* Every variable holds a value of its type (the fields of RICAlarm, and what is
\* outside), and rmrSend's counter stays below its bound.
TypeOK ==
    /\ mutex \in Callers \cup {Free}
    /\ initialiser \in {"starting", "connected", "done", "failed"}
    /\ visible \subseteq {"rmrCtx", "rmrReady"}
    /\ caller \in [Callers -> CallState]
    /\ calls \in Nat /\ created \in Nat
    /\ wire \in Seq(Sendable) /\ handled \in Seq(Sendable)
    /\ lingering \subseteq Sendable
    /\ active \in BOOLEAN /\ wanted \in BOOLEAN /\ doubtful \in BOOLEAN

\* A message is handled at most once, in spite of ten attempts and two transports.
HandledOnce ==
    /\ IsInjective(handled)
    /\ ToSet(handled) \cap (ToSet(wire) \cup lingering) = {}
    /\ ToSet(wire) \cap lingering = {}

\* The manager agrees with the last call. When all calls have returned and nothing is
\* under way, the alarm is active iff the last raise, reraise or clear was no clear,
\* unless, in or after that call, a message was lost or given up or HTTP overtook RMR.
LastCallWins == Quiet /\ ~UnderWay /\ ~doubtful => active = wanted

(***************************************************************************)
(* What makes the last two inductive. A message that is being sent has a   *)
(* number that nothing on its way has. The mutex is held by the goroutine  *)
(* that sends. While no raise, clear or reraise is half done, what RMR     *)
(* carries will leave the alarm as it is wanted.                           *)
(***************************************************************************)
Sending(c) == caller[c].pc \in {"checking", "rmr", "http"}

UnderLock == \A c \in Callers : mutex = c <=> Sending(c)

CallShape ==
    \A c \in Callers :
        /\ At(c, "waiting") => caller[c].op \in Operations /\ caller[c].todo = Messages(caller[c].op)
        /\ Sending(c) => \/ caller[c].op \in Operations /\ caller[c].todo = Messages(caller[c].op)
                         \/ caller[c].op = "Reraise" /\ caller[c].todo = <<"RAISE">>

Carried == ToSet(wire) \cup lingering \cup ToSet(handled)

OwnNumbers ==
    /\ IsInjective(wire)
    /\ \A m \in Carried : m.number <= created
    /\ \A c \in Callers : Sending(c) =>
          /\ caller[c].number <= created
          /\ \A m \in Carried : m.number # caller[c].number

\* What RMR carries will make the alarm active, or not.
Outcome(on) ==
    \/ active = on /\ \A i \in DOMAIN wire : wire[i].action = "CLEARALL"
    \/ \E i \in DOMAIN wire :
          /\ wire[i].action = IF on THEN "RAISE" ELSE "CLEAR"
          /\ \A j \in DOMAIN wire : j > i => wire[j].action = "CLEARALL"

Settling(c) == Sending(c) /\ caller[c].op # "ClearAll"

Settled ==
    ~doubtful =>
        /\ lingering = {}
        /\ \A c \in Callers : Settling(c) => wanted = (caller[c].op \in {"Raise", "Reraise"})
        /\ (\A c \in Callers : ~Settling(c)) => Outcome(wanted)

LibraryInv == TypeOK /\ UnderLock /\ CallShape /\ OwnNumbers /\ HandledOnce /\ Settled

\* Every call returns, although RMR may ask for another attempt each time, and although
\* a call waits for others with the mutex, unless one of them is in an HTTP exchange that
\* never ends: an exchange is the only thing a call can wait for without a bound.
Exchanging(c) == At(c, "http")

CallsReturn ==
    \/ \E c \in Callers : <>[]Exchanging(c)
    \/ \A c \in Callers : At(c, "waiting") ~> At(c, "idle")

===============================================================================
