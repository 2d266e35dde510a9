---------------------------- MODULE PerfToolProofs ----------------------------
(***************************************************************************)
(* Theorems about the performance test of the command line tool, for any   *)
(* number of alarms and goroutines.                                        *)
(***************************************************************************)
EXTENDS PerfTool, FiniteSetTheorems, TLAPS

Workers == {a \in Alarms : Running(a)}

\* The counter of the WaitGroup is the number of goroutines at work: main adds to it
\* before it starts one, and none is started but while main is starting them.
Counted ==
    /\ wg = Cardinality(Workers)
    /\ main \in {"definitions", "sending", "objects"} => Started = {}
    /\ MainWaitsForWorkers

\* Nothing is on its way to a goroutine that has not posted.
Fresh ==
    \A a \in Alarms : worker[a] \in {"none", "first"} =>
        last[a] = "none" /\ asleep[a] = {} /\ chn[a] = <<>>

\* A wake-up is in one place at most: asleep, in the channel, or received.
Nowhere(a, w) == w \notin asleep[a] /\ chn[a] # <<w>> /\ worker[a] # w

Somewhere(a, w) ==
    \/ w \in asleep[a] /\ chn[a] # <<w>> /\ worker[a] # w
    \/ w \notin asleep[a] /\ chn[a] = <<w>> /\ worker[a] # w
    \/ w \notin asleep[a] /\ chn[a] # <<w>> /\ worker[a] = w

Opposite(w) == IF w = "RAISE" THEN "CLEAR" ELSE "RAISE"

InTurn ==
    \A a \in Alarms : Running(a) /\ worker[a] # "first" =>
        /\ last[a] # "none"
        /\ Nowhere(a, last[a]) /\ Somewhere(a, Opposite(last[a]))

\* In the peak test a goroutine is told to end when it has ended already, and an alarm
\* is raised at the manager only while its goroutine is at work.
Peak ==
    test = "peak" =>
        /\ \A a \in Alarms : Running(a) => "END" \notin asleep[a] /\ chn[a] # <<"END">>
        /\ \A a \in raised \ lost : Running(a)

Inv == TypeOK /\ Counted /\ Fresh /\ InTurn /\ Peak

-------------------------------------------------------------------------------
\* The steps of the goroutine of one alarm.
Step(a) == StartWorker(a) \/ Work(a) \/ \E wake \in Wakes : wakeUpAfterTime(a, wake)

\* They touch nothing that belongs to another goroutine.
LEMMA OthersUntouched ==
    ASSUME TypeOK, NEW a \in Alarms, Step(a), NEW b \in Alarms \ {a}
    PROVE  /\ worker'[b] = worker[b] /\ chn'[b] = chn[b] /\ asleep'[b] = asleep[b]
           /\ last'[b] = last[b] /\ (b \in raised' <=> b \in raised)
           /\ (b \in lost' <=> b \in lost)
<1> USE DEF TypeOK, goroutines, external, flags
<1>1. CASE StartWorker(a)
  BY <1>1 DEF StartWorker
<1>2. CASE FirstPost(a) \/ RaiseAgain(a) \/ ClearAgain(a)
  BY <1>2 DEF FirstPost, RaiseAgain, ClearAgain, Post, GoOn, WakeMe, Return
<1>3. CASE Receive(a)
  BY <1>3 DEF Receive, GoOn, Return
<1>4. CASE \E wake \in Wakes : wakeUpAfterTime(a, wake)
  BY <1>4 DEF wakeUpAfterTime
<1> QED BY <1>1, <1>2, <1>3, <1>4 DEF Step, Work

\* What a channel of one element holds before and after.
LEMMA Channel ==
    /\ \A w \in Wakes : Append(<<>>, w) = <<w>> /\ <<w>> # <<>>
                        /\ Head(<<w>>) = w /\ Tail(<<w>>) = <<>>
    /\ \A v, w \in Wakes : <<v>> = <<w>> => v = w
OBVIOUS

\* The types, the counter apart.
LEMMA StepTyped ==
    ASSUME Inv, NEW a \in Alarms, Step(a), wg' \in 0..Cardinality(Alarms)
    PROVE  TypeOK'
<1> USE DEF Inv, TypeOK, goroutines, external, flags, Places, Wakes
<1>1. CASE StartWorker(a)
  BY <1>1 DEF StartWorker
<1>2. CASE FirstPost(a) \/ RaiseAgain(a) \/ ClearAgain(a)
  BY <1>2 DEF FirstPost, RaiseAgain, ClearAgain, Post, GoOn, WakeMe, Return
<1>3. CASE Receive(a)
  <2>1. PICK w \in Wakes : chn[a] = <<w>>
    BY <1>3 DEF Receive
  <2>2. Head(chn[a]) = w /\ Tail(chn[a]) = <<>>
    BY <2>1, Channel
  <2>3. chn' \in [Alarms -> {<<>>} \cup {<<v>> : v \in Wakes}]
    BY <1>3, <2>2 DEF Receive
  <2>4. worker' \in [Alarms -> Places]
    BY <1>3, <2>2 DEF Receive, GoOn, Return
  <2> QED BY <1>3, <2>3, <2>4 DEF Receive
<1>4. CASE \E wake \in Wakes : wakeUpAfterTime(a, wake)
  <2>1. PICK w \in Wakes : wakeUpAfterTime(a, w)
    BY <1>4
  <2>2. chn' = [chn EXCEPT ![a] = <<w>>]
    BY <2>1, Channel DEF wakeUpAfterTime
  <2>3. chn' \in [Alarms -> {<<>>} \cup {<<v>> : v \in Wakes}]
    BY <2>2
  <2> QED BY <2>1, <2>3 DEF wakeUpAfterTime
<1> QED BY <1>1, <1>2, <1>3, <1>4 DEF Step, Work

\* A start counts one goroutine more, a return one less.
LEMMA StepCounted ==
    ASSUME Inv, NEW a \in Alarms, Step(a)
    PROVE  Counted' /\ wg' \in 0..Cardinality(Alarms)
<1> USE DEF Inv, TypeOK, Counted, flags, goroutines, external
<1>0. /\ IsFiniteSet(Alarms) /\ IsFiniteSet(Workers) /\ IsFiniteSet(Workers')
      /\ Cardinality(Workers) \in Nat
      /\ Cardinality(Workers') \in 0..Cardinality(Alarms)
  <2>1. Workers \subseteq Alarms /\ Workers' \subseteq Alarms
    BY DEF Workers
  <2>2. IsFiniteSet(Alarms) /\ IsFiniteSet(Workers) /\ IsFiniteSet(Workers')
    BY <2>1, PerfAssumption, FS_Subset
  <2>3. Cardinality(Workers') <= Cardinality(Alarms)
    BY <2>1, <2>2, FS_Subset
  <2> QED BY <2>2, <2>3, FS_CardinalityType
<1>1. \A b \in Alarms \ {a} : worker'[b] = worker[b]
  BY OthersUntouched
<1>2. main' = main
  BY DEF Step, Work, StartWorker, FirstPost, Receive, RaiseAgain, ClearAgain, Post,
     wakeUpAfterTime
<1>3. main # "ended" /\ (main \in {"definitions", "sending", "objects"} => UNCHANGED worker)
  <2>1. CASE StartWorker(a)
    BY <2>1 DEF StartWorker
  <2>2. CASE Work(a)
    <3>1. main # "ended" /\ worker[a] # "none"
      BY <2>2 DEF Work, FirstPost, Receive, RaiseAgain, ClearAgain, At, Alive
    <3> QED BY <3>1 DEF Started
  <2>3. CASE \E wake \in Wakes : wakeUpAfterTime(a, wake)
    BY <2>3 DEF wakeUpAfterTime, Alive
  <2> QED BY <2>1, <2>2, <2>3 DEF Step
<1>4. wg' = Cardinality(Workers')
  <2>1. CASE StartWorker(a)
    <3>1. a \notin Workers /\ Workers' = Workers \cup {a} /\ wg' = wg + 1
      BY <1>1, <2>1 DEF StartWorker, Workers, Running
    <3> QED BY <1>0, <3>1, FS_AddElement
  <2>2. CASE Return(a) /\ worker[a] \in {"select", "CLEAR"}
    <3>1. a \in Workers /\ Workers' = Workers \ {a} /\ wg' = wg - 1
      BY <1>1, <2>2 DEF Return, GoOn, Workers, Running
    <3> QED BY <1>0, <3>1, FS_RemoveElement
  <2>3. CASE /\ UNCHANGED wg
             /\ worker[a] \notin {"none", "done"} /\ worker'[a] \notin {"none", "done"}
    <3>1. Workers' = Workers
      BY <1>1, <2>3 DEF Workers, Running
    <3> QED BY <2>3, <3>1
  <2>4. CASE FirstPost(a) \/ RaiseAgain(a) \/ ClearAgain(a)
    BY <2>2, <2>3, <2>4 DEF FirstPost, RaiseAgain, ClearAgain, At, GoOn
  <2>5. CASE Receive(a)
    <3>1. PICK w \in Wakes : chn[a] = <<w>>
      BY <2>5 DEF Receive
    <3>2. Head(chn[a]) = w
      BY <3>1, Channel
    <3> QED BY <2>2, <2>3, <2>5, <3>2 DEF Receive, At, GoOn, Wakes
  <2>6. CASE \E wake \in Wakes : wakeUpAfterTime(a, wake)
    <3>1. Workers' = Workers /\ wg' = wg
      BY <2>6 DEF wakeUpAfterTime, Workers, Running
    <3> QED BY <3>1
  <2> QED BY <2>1, <2>4, <2>5, <2>6 DEF Step, Work
<1> QED BY <1>0, <1>2, <1>3, <1>4 DEF MainWaitsForWorkers, Started

\* Wake-ups move on, are used up, and are asked for, one at a time.
LEMMA StepInTurn ==
    ASSUME Inv, NEW a \in Alarms, Step(a)
    PROVE  (Fresh /\ InTurn /\ Peak)'
<1> USE DEF Inv, TypeOK, flags, goroutines, external
<1> DEFINE
      FreshAt(b)  == worker[b] \in {"none", "first"} =>
                        last[b] = "none" /\ asleep[b] = {} /\ chn[b] = <<>>
      InTurnAt(b) == Running(b) /\ worker[b] # "first" =>
                        /\ last[b] # "none"
                        /\ Nowhere(b, last[b]) /\ Somewhere(b, Opposite(last[b]))
      PeakAt(b)   == test = "peak" =>
                        /\ Running(b) => "END" \notin asleep[b] /\ chn[b] # <<"END">>
                        /\ b \in raised \ lost => Running(b)
      Good(b)     == FreshAt(b) /\ InTurnAt(b) /\ PeakAt(b)
<1>0. Good(a) /\ test' = test
  BY DEF Fresh, InTurn, Peak, Step, Work, StartWorker, FirstPost, Receive, RaiseAgain,
     ClearAgain, Post, wakeUpAfterTime
<1>1. ASSUME NEW b \in Alarms \ {a} PROVE Good(b)'
  <2>1. Good(b)
    BY DEF Fresh, InTurn, Peak
  <2>2. /\ worker'[b] = worker[b] /\ chn'[b] = chn[b] /\ asleep'[b] = asleep[b]
        /\ last'[b] = last[b] /\ (b \in raised' <=> b \in raised)
        /\ (b \in lost' <=> b \in lost)
    BY OthersUntouched
  <2> QED BY <1>0, <2>1, <2>2 DEF Running, Nowhere, Somewhere
<1>2. SUFFICES Good(a)'
  <2>1. raised' \subseteq Alarms
    BY StepTyped, StepCounted
  <2> QED BY <1>1, <2>1 DEF Fresh, InTurn, Peak
<1>3. CASE StartWorker(a)
  BY <1>0, <1>3 DEF StartWorker, Running
<1>4. CASE FirstPost(a)
  BY <1>0, <1>4 DEF FirstPost, At, Post, GoOn, WakeMe, Running, Nowhere, Somewhere, Opposite
<1>5. CASE Receive(a)
  <2>1. PICK w \in Wakes : chn[a] = <<w>>
    BY <1>5 DEF Receive
  <2>2. Head(chn[a]) = w /\ Tail(chn[a]) = <<>>
    BY <2>1, Channel
  <2> QED BY <1>0, <1>5, <2>1, <2>2, Channel
       DEF Receive, At, GoOn, Return, Running, Nowhere, Somewhere, Opposite, Wakes
<1>6. CASE RaiseAgain(a)
  BY <1>0, <1>6 DEF RaiseAgain, At, Post, GoOn, WakeMe, Running, Nowhere, Somewhere, Opposite
<1>7. CASE ClearAgain(a)
  BY <1>0, <1>7 DEF ClearAgain, At, Post, GoOn, WakeMe, Return, Running, Nowhere, Somewhere,
     Opposite
<1>8. CASE \E wake \in Wakes : wakeUpAfterTime(a, wake)
  <2>1. PICK w \in Wakes : wakeUpAfterTime(a, w)
    BY <1>8
  <2>2. chn' = [chn EXCEPT ![a] = <<w>>]
    BY <2>1, Channel DEF wakeUpAfterTime
  <2> QED BY <1>0, <2>1, <2>2, Channel
       DEF wakeUpAfterTime, Running, Nowhere, Somewhere, Opposite, Wakes
<1> QED BY <1>3, <1>4, <1>5, <1>6, <1>7, <1>8 DEF Step, Work

\* The invariant holds from the start, over main's steps and everybody else's.
LEMMA Invariant == Spec => []Inv
<1>1. Init => Inv
  <2> SUFFICES ASSUME Init PROVE Inv
    OBVIOUS
  <2>1. Workers = {}
    BY DEF Init, Workers, Running
  <2>2. wg = Cardinality(Workers) /\ Cardinality(Alarms) \in Nat
    BY <2>1, PerfAssumption, FS_EmptySet, FS_CardinalityType DEF Init
  <2>3. TypeOK
    BY <2>2 DEF Init, TypeOK, Places
  <2>4. Counted
    BY <2>2 DEF Init, Counted, Started, MainWaitsForWorkers
  <2> QED BY <2>3, <2>4 DEF Init, Inv, Fresh, InTurn, Peak, Running
<1>2. Inv /\ [Next]_vars => Inv'
  <2> SUFFICES ASSUME Inv, [Next]_vars PROVE Inv'
    OBVIOUS
  <2> USE DEF flags, goroutines, external
  <2>1. ASSUME NEW a \in Alarms, Step(a) PROVE Inv'
    BY <2>1, StepTyped, StepCounted, StepInTurn DEF Inv
  <2>2. CASE Main
    <3>1. UNCHANGED <<flags, wg, goroutines, external>>
      BY <2>2 DEF Main, conductperformancetest, Prepare, AllStarted, Wait
    <3>2. main' \in {"definitions", "sending", "objects", "starting", "waiting", "ended"}
      BY <2>2 DEF Main, conductperformancetest, Prepare, ChooseTest, AllStarted, Wait
    <3>3. main' \in {"definitions", "sending", "objects"} => Started = {}
      BY <2>2 DEF Main, conductperformancetest, Prepare, ChooseTest, AllStarted, Wait, Inv,
         Counted
    <3>4. main' = "ended" => Workers = {}
      <4>1. CASE conductperformancetest
        <5>1. Started = {}
          BY <4>1 DEF conductperformancetest, Prepare, Inv, Counted
        <5> QED BY <5>1 DEF Started, Workers, Running
      <4>2. CASE Wait
        <5>1. Cardinality(Workers) = 0
          BY <4>2 DEF Wait, Inv, Counted
        <5>2. IsFiniteSet(Workers)
          BY PerfAssumption, FS_Subset DEF Workers
        <5> QED BY <5>1, <5>2, FS_EmptySet
      <4> QED BY <2>2, <4>1, <4>2 DEF Main, AllStarted
    <3>5. Workers' = Workers /\ Started' = Started
      BY <3>1 DEF Workers, Started, Running
    <3>6. Counted'
      BY <3>1, <3>3, <3>4, <3>5 DEF Inv, Counted, MainWaitsForWorkers, Workers, Running
    <3> QED BY <3>1, <3>2, <3>6 DEF Inv, TypeOK, Fresh, InTurn, Peak, Nowhere, Somewhere,
         Running
  <2>3. ASSUME NEW a \in Alarms, ClientReady(a) PROVE Inv'
    <3>1. UNCHANGED <<flags, main, wg, goroutines, raised, lost, last>>
      BY <2>3 DEF ClientReady
    <3>2. ready' \subseteq Alarms
      BY <2>3 DEF ClientReady, Inv, TypeOK
    <3>3. Workers' = Workers /\ Started' = Started
      BY <3>1 DEF Workers, Started, Running
    <3> QED BY <3>1, <3>2, <3>3 DEF Inv, TypeOK, Counted, MainWaitsForWorkers, Fresh, InTurn,
         Peak, Nowhere, Somewhere, Running
  <2>4. CASE Ended \/ UNCHANGED vars
    <3>1. UNCHANGED vars
      BY <2>4 DEF Ended
    <3>2. Workers' = Workers /\ Started' = Started
      BY <3>1 DEF vars, Workers, Started, Running
    <3> QED BY <3>1, <3>2 DEF vars, Inv, TypeOK, Counted, MainWaitsForWorkers, Fresh, InTurn,
         Peak, Nowhere, Somewhere, Running
  <2> QED BY <2>1, <2>2, <2>3, <2>4 DEF Next, Step
<1> QED BY <1>1, <1>2, PTL DEF Spec

-------------------------------------------------------------------------------
\* Of the types two are no matter of course: the counter of the WaitGroup never falls
\* below 0, which panics, and no goroutine's channel ever holds two wake-ups.
THEOREM TypesHold == Spec => []TypeOK
<1>1. Inv => TypeOK
  BY DEF Inv
<1> QED BY <1>1, Invariant, PTL

\* Main never ends, and takes the process with it, while a goroutine that it started is
\* at work, in whatever order goroutines are started and return.
THEOREM WaitGroupSound == Spec => []MainWaitsForWorkers
<1>1. Inv => MainWaitsForWorkers
  BY DEF Inv, Counted
<1> QED BY <1>1, Invariant, PTL

\* The peak test leaves raised only what a lost post concerns, although each of its
\* goroutines returns with a wake-up still to come.
THEOREM PeakCleansUp == Spec => []PeakLeavesNothing
<1>1. Inv => PeakLeavesNothing
  BY DEF Inv, Counted, MainWaitsForWorkers, Peak, PeakLeavesNothing, TypeOK
<1> QED BY <1>1, Invariant, PTL

\* An alarm is raised and cleared in turn: whatever the wake-ups' order, the one on its
\* way to a goroutine is the opposite of what it posted last.
THEOREM PostsInTurn == Spec => []PostsAlternate
<1>1. Inv => PostsAlternate
  <2> SUFFICES ASSUME Inv, NEW a \in Alarms, Running(a), last[a] # "none"
               PROVE  {w \in {"RAISE", "CLEAR"} :
                          w \in asleep[a] \/ chn[a] = <<w>> \/ worker[a] = w}
                         = {"RAISE", "CLEAR"} \ {last[a]}
    BY DEF PostsAlternate
  <2>1. last[a] \in {"RAISE", "CLEAR"}
    BY DEF Inv, TypeOK
  <2>2. Nowhere(a, last[a]) /\ Somewhere(a, Opposite(last[a]))
    BY DEF Inv, InTurn, Fresh
  <2> QED BY <2>1, <2>2 DEF Nowhere, Somewhere, Opposite
<1> QED BY <1>1, Invariant, PTL

===============================================================================
