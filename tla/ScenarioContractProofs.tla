------------------------ MODULE ScenarioContractProofs ------------------------
(***************************************************************************)
(* For any number of registers, runs, requests and step lists: the scenario *)
(* runner implements the safety part of ScenarioContract, and keeps its     *)
(* types, its promise about stopped devices and what it promises about the  *)
(* steps of a timeline.                                                     *)
(*                                                                          *)
(* Every step of the runner is one of five kinds, and each argument below   *)
(* goes through the five.                                                   *)
(***************************************************************************)
EXTENDS ScenarioRunnerProofs, WellFoundedInduction

(* A run begins, with a step list that was validated when it was stored.    *)
Begun(r) ==
    /\ running = NoRun /\ run[r].pc = "free" /\ running' = r
    /\ \E s \in Scenarios, b \in BOOLEAN :
          /\ ValidateSteps(s)
          /\ run' = [run EXCEPT ![r] = [FreeRun EXCEPT !.pc = "new", !.steps = s, !.raced = b]]
    /\ UNCHANGED injected

(* The registered run is popped and cancelled.                              *)
Popped ==
    /\ running \in Runs /\ running' = NoRun
    /\ run' = [run EXCEPT ![running].pc = "cancelled"]
    /\ UNCHANGED injected

(* The registered run's timeline takes a turn, later than the one before.   *)
Turned(r) ==
    /\ running = r /\ Driving(r)
    /\ \E e \in Nat : (run[r].pc = "new" \/ e > run[r].elapsed) /\ Turn(r, e)

(* A stop cleans up after the run it cancelled.                             *)
CleanedUp(r) ==
    /\ run[r].pc = "cancelled" /\ running' = running
    /\ injected' = Cleared(r)
    /\ run' = [(IF run[r].active = {} THEN run ELSE Disturb(run, r)) EXCEPT ![r] = FreeRun]

(* Nobody's timeline: the injector is left alone, or written by a user or   *)
(* the engine, which the runs note.                                         *)
Wiped ==
    /\ running' = running
    /\ \/ UNCHANGED <<run, injected>>
       \/ /\ run' = Disturb(run, NoRun)
          /\ injected' = [g \in Registers |-> injected'[g]]
          /\ \A g \in Registers : injected'[g] \in {injected[g], None, User}

(* A poll is a turn of the registered run, at a later time.                 *)
LEMMA PollTurns ==
    ASSUME IInv, NEW r \in Runs, Poll(r)
    PROVE  Turned(r)
<1>1. run[r].pc \in {"new", "live"} /\ running = r
  BY DEF Poll, IInv, OneTimeline, Driving
<1>2. run[r].elapsed \in Nat
  BY DEF IInv, Shape, RunRecord
<1>3. \E e \in Nat : (run[r].pc = "new" \/ e > run[r].elapsed) /\ Turn(r, e)
  BY <1>2, ScenarioAssumption DEF Poll, Late, Elapsed
<1>4. QED  BY <1>1, <1>3 DEF Turned, Driving

(* The five kinds cover the steps of the specification.                     *)
LEMMA StepKinds ==
    ASSUME IInv, [Next]_vars
    PROVE  \/ \E r \in Runs : Begun(r) \/ Turned(r) \/ CleanedUp(r)
           \/ Popped \/ Wiped
<1> DEFINE Goal == \/ \E r \in Runs : Begun(r) \/ Turned(r) \/ CleanedUp(r)
                   \/ Popped \/ Wiped
<1>1. DOMAIN injected = Registers /\ running \in Runs \cup {NoRun}
  BY DEF IInv, Shape
<1>2. ASSUME NEW c \in Calls, RequestStart(c) \/ StopDevice(c) \/ CommitStopped(c) PROVE Wiped
  BY <1>1, <1>2 DEF RequestStart, StopDevice, CommitStopped, Wiped
<1>3. ASSUME NEW c \in Calls, Start(c) PROVE Goal
  <2>1. CASE UNCHANGED <<running, run>>
    BY <1>1, <1>3, <2>1 DEF Start, Wiped
  <2>2. CASE running = NoRun
    <3>1. PICK r \in Runs, s \in Scenarios :
              /\ run[r].pc = "free" /\ ValidateSteps(s) /\ running' = r
              /\ run' = [run EXCEPT ![r] = [FreeRun EXCEPT !.pc = "new", !.steps = s,
                                              !.raced = DeviceStopping \/ device = "stopped"]]
      BY <1>3, <2>2 DEF Start, AlreadyRunning
    <3>2. (DeviceStopping \/ device = "stopped") \in BOOLEAN
      BY DEF IInv, Shape, CallRecord, DeviceStopping
    <3>3. UNCHANGED injected
      BY <1>3 DEF Start
    <3>4. Begun(r)
      BY <2>2, <3>1, <3>2, <3>3 DEF Begun
    <3>5. QED  BY <3>4
  <2>3. QED  BY <1>3, <2>1, <2>2 DEF Start, AlreadyRunning
<1>4. ASSUME NEW c \in Calls, RequestStop(c) \/ StopScenario(c) PROVE Popped \/ Wiped
  BY <1>1, <1>4 DEF RequestStop, StopScenario, BeginStop, Popped, Wiped
<1>5. ASSUME NEW c \in Calls, StopResumes(c) PROVE Goal
  <2>1. call[c].run \in Runs /\ run[call[c].run].pc = "cancelled"
    BY <1>5 DEF StopResumes, IInv, Draining
  <2>2. CleanedUp(call[c].run)
    BY <1>5, <2>1 DEF StopResumes, CleanedUp
  <2>3. QED  BY <2>1, <2>2
<1>6. ASSUME NEW c \in Calls, StopEngine(c) PROVE Wiped
  BY <1>1, <1>6 DEF StopEngine, Wiped
<1>7. ASSUME NEW r \in Runs, Poll(r) PROVE Goal
  BY <1>7, PollTurns
<1>8. ASSUME NEW g \in Registers, UserInject(g) \/ UserRemove(g) PROVE Wiped
  BY <1>1, <1>8 DEF UserInject, UserRemove, Wiped
<1>9. CASE ClearAnomalies
  BY <1>9 DEF ClearAnomalies, Wiped
<1>10. CASE StartDevice \/ DeviceFails \/ ImportSystem \/ UNCHANGED vars
  BY <1>1, <1>10 DEF StartDevice, DeviceFails, ImportSystem, vars, Wiped
<1>11. ASSUME NEW c \in Calls, CallStep(c) PROVE Goal
  BY <1>2, <1>3, <1>4, <1>5, <1>6, <1>11 DEF CallStep
<1>12. QED
  BY <1>2, <1>4, <1>7, <1>8, <1>9, <1>10, <1>11 DEF Next

(* A turn either completes its run or leaves it live, with the time and the *)
(* triggered steps brought up to date.                                      *)
LEMMA TurnOutcome ==
    ASSUME IInv, NEW r \in Runs, Driving(r), NEW e \in Nat, Turn(r, e)
    PROVE  /\ \A q \in Runs \ {r} : run'[q] = run[q]
           /\ \/ running' = NoRun /\ run'[r] = FreeRun
              \/ /\ running' = running
                 /\ run'[r].pc = "live" /\ run'[r].elapsed = e
                 /\ run'[r].triggered = run[r].triggered \cup Due(r, e)
                 /\ run'[r].steps = run[r].steps
                 /\ run'[r].clean = run[r].clean /\ run'[r].raced = run[r].raced
<1> DEFINE s == run[r].steps
           active == run[r].active \cup {s[i].reg : i \in Due(r, e)}
           triggered == run[r].triggered \cup Due(r, e)
           over == {s[i].reg : i \in {j \in triggered : IsOver(s[j], e)}} \cap active
           done == e >= TotalDuration(s) /\ active \ over = {}
           next == [run[r] EXCEPT !.pc = "live", !.elapsed = e,
                                  !.triggered = triggered, !.active = active \ over]
<1>1. run[r] \in RunRecord /\ run \in [Runs -> RunRecord]
  BY DEF IInv, Shape
<1>2. /\ run' = [run EXCEPT ![r] = IF done THEN FreeRun ELSE next]
      /\ running' = IF done THEN NoRun ELSE running
  BY DEF Turn
<1>3. /\ next.pc = "live" /\ next.elapsed = e /\ next.triggered = triggered
      /\ next.steps = s /\ next.clean = run[r].clean /\ next.raced = run[r].raced
  BY <1>1 DEF RunRecord
<1> HIDE DEF next, done
<1>4. QED  BY <1>1, <1>2, <1>3 DEF triggered, s

-----------------------------------------------------------------------------
(* The refinement.  An anomaly no scenario injected names no run, and one a *)
(* scenario injected names its run: the marks of the contract are the runs  *)
(* that are answerable for what a register shows.                           *)
Marked == \A g \in Registers : injected[g].kind # "step" => injected[g].by = NoRun

(* No run's mark at first.                                                  *)
LEMMA InitMarked == Init => Marked
BY DEF Init, Marked, None

(* Every step keeps the marks right.                                        *)
LEMMA StepMarked ==
    ASSUME IInv, Marked, [Next]_vars
    PROVE  Marked'
<1>1. ASSUME NEW r \in Runs, Begun(r) PROVE Marked'
  BY <1>1 DEF Begun, Marked
<1>2. ASSUME NEW r \in Runs, Turned(r) PROVE Marked'
  BY <1>2 DEF Turned, Turn, Marked, None, FromStep
<1>3. ASSUME NEW r \in Runs, CleanedUp(r) PROVE Marked'
  BY <1>3 DEF CleanedUp, Cleared, Marked, None
<1>4. CASE Popped
  BY <1>4 DEF Popped, Marked
<1>5. CASE Wiped
  BY <1>5 DEF Wiped, Marked, None, User
<1>6. QED  BY <1>1, <1>2, <1>3, <1>4, <1>5, StepKinds

(* What a mark says of the register's anomaly.                              *)
LEMMA MarkOf ==
    ASSUME IInv, Marked, NEW g \in Registers, injected[g].by # NoRun
    PROVE  /\ injected[g].by \in Runs /\ g \in run[injected[g].by].active
           /\ run[injected[g].by].pc \in {"live", "cancelled"}
BY DEF IInv, NoLeakedAnomaly, Marked

(* The initial state of the runner is one of the contract.                  *)
LEMMA InitContract == Init => Contract!Init
BY RestTypes DEF Init, Contract!Init, None, FreeRun

(* A run that begins is owed nothing and has no anomalies yet.              *)
LEMMA BegunBegins ==
    ASSUME IInv, Marked, NEW r \in Runs, Begun(r)
    PROVE  Contract!Begin(r)
<1>1. PICK s \in Scenarios, b \in BOOLEAN :
          run' = [run EXCEPT ![r] = [FreeRun EXCEPT !.pc = "new", !.steps = s, !.raced = b]]
  BY DEF Begun
<1>2. run'[r].pc = "new" /\ \A q \in Runs \ {r} : run'[q] = run[q]
  BY <1>1 DEF FreeRun, IInv, Shape
<1>3. {q \in Runs : run'[q].pc = "cancelled"} = {q \in Runs : run[q].pc = "cancelled"}
  BY <1>2 DEF Begun
<1>4. \A g \in Registers : injected[g].by # r
  BY MarkOf, ScenarioAssumption DEF Begun
<1>5. running = NoRun /\ running' = r /\ injected' = injected /\ run[r].pc = "free"
  BY DEF Begun
<1>6. QED  BY <1>3, <1>4, <1>5 DEF Contract!Begin, Contract!Unmarked

(* A cancelled run becomes the one that is owed its clean-up.               *)
LEMMA PoppedCancels ==
    ASSUME IInv, Popped
    PROVE  Contract!Cancel
<1>1. run[running] \in RunRecord /\ run \in [Runs -> RunRecord]
  BY DEF IInv, Shape, Popped
<1>2. run'[running].pc = "cancelled" /\ \A q \in Runs \ {running} : run'[q] = run[q]
  BY <1>1 DEF Popped, RunRecord
<1>3. {q \in Runs : run'[q].pc = "cancelled"}
          = {q \in Runs : run[q].pc = "cancelled"} \cup {running}
  BY <1>2 DEF Popped
<1>4. running # NoRun /\ running' = NoRun /\ injected' = injected
  BY ScenarioAssumption DEF Popped
<1>5. QED  BY <1>3, <1>4 DEF Contract!Cancel

(* A turn of the timeline drives the scenario or completes it; when it      *)
(* completes, nothing of it is left on a register.                          *)
LEMMA TurnedDrives ==
    ASSUME IInv, Marked, NEW r \in Runs, Turned(r), IInv', Marked'
    PROVE  Contract!Drive \/ Contract!Complete
<1>1. running = r /\ r # NoRun /\ run[r] \in RunRecord /\ run \in [Runs -> RunRecord]
  BY ScenarioAssumption DEF Turned, IInv, Shape
<1>2. \A g \in Registers : injected'[g].by \in {injected[g].by, NoRun, r}
  BY DEF Turned, Turn, None, FromStep
<1>3. /\ \A q \in Runs \ {r} : run'[q] = run[q]
      /\ run'[r].pc \in {"free", "live"} /\ (run'[r].pc = "free" <=> running' # r)
      /\ running' \in {running, NoRun}
  BY <1>1, TurnOutcome, RestTypes DEF Turned
<1>4. {q \in Runs : run'[q].pc = "cancelled"} = {q \in Runs : run[q].pc = "cancelled"}
  BY <1>3 DEF Turned, Driving
<1>5. CASE running' = running
  BY <1>1, <1>2, <1>4, <1>5 DEF Contract!Drive, Contract!MarksOnlyBy
<1>6. CASE running' # running
  <2>1. \A g \in Registers : injected'[g].by # r
    BY <1>1, <1>3, <1>6 DEF IInv, NoLeakedAnomaly, Marked
  <2>2. QED
    BY <1>1, <1>2, <1>3, <1>4, <1>6, <2>1
    DEF Contract!Complete, Contract!MarksOnlyBy, Contract!Unmarked
<1>7. QED  BY <1>5, <1>6

(* The stop that cancelled a run pays its debt.                             *)
LEMMA CleanedUpPays ==
    ASSUME IInv, Marked, NEW r \in Runs, CleanedUp(r)
    PROVE  Contract!CleanUp(r)
<1> DEFINE f == IF run[r].active = {} THEN run ELSE Disturb(run, r)
<1>1. f \in [Runs -> RunRecord] /\ \A q \in Runs : f[q].pc = run[q].pc
  BY DisturbKeeps DEF IInv, Shape
<1>2. run' = [f EXCEPT ![r] = FreeRun]
  BY DEF CleanedUp
<1>3. run'[r].pc = "free" /\ \A q \in Runs \ {r} : run'[q].pc = run[q].pc
  BY <1>1, <1>2, RestTypes
<1>4. {q \in Runs : run'[q].pc = "cancelled"} = {q \in Runs : run[q].pc = "cancelled"} \ {r}
  BY <1>3
<1>5. \A g \in Registers : injected'[g].by \in {injected[g].by, NoRun}
  BY DEF CleanedUp, Cleared, None
<1>6. \A g \in Registers : injected'[g].by # r
  BY MarkOf, ScenarioAssumption DEF CleanedUp, Cleared, None
<1>7. run[r].pc = "cancelled" /\ running' = running
  BY DEF CleanedUp
<1>8. QED
  BY <1>4, <1>5, <1>6, <1>7 DEF Contract!CleanUp, Contract!MarksOnlyBy, Contract!Unmarked

(* The others only take marks away.                                         *)
LEMMA WipedWipes ==
    ASSUME IInv, Wiped
    PROVE  Contract!Wipe
<1>1. \A q \in Runs : run'[q].pc = run[q].pc
  BY DisturbKeeps DEF Wiped, IInv, Shape
<1>2. {q \in Runs : run'[q].pc = "cancelled"} = {q \in Runs : run[q].pc = "cancelled"}
  BY <1>1
<1>3. \A g \in Registers : injected'[g].by \in {injected[g].by, NoRun}
  BY DEF Wiped, None, User
<1>4. QED  BY <1>2, <1>3 DEF Wiped, Contract!Wipe, Contract!MarksOnlyBy

(* Every step of the runner is a step of the contract.                      *)
LEMMA StepContract ==
    ASSUME IInv, Marked, [Next]_vars
    PROVE  Contract!Next
<1>1. IInv' /\ Marked'
  BY StepIInv, StepMarked
<1>2. ASSUME NEW r \in Runs, Begun(r) PROVE Contract!Next
  BY <1>2, BegunBegins DEF Contract!Next
<1>3. ASSUME NEW r \in Runs, Turned(r) PROVE Contract!Next
  BY <1>1, <1>3, TurnedDrives DEF Contract!Next
<1>4. ASSUME NEW r \in Runs, CleanedUp(r) PROVE Contract!Next
  BY <1>4, CleanedUpPays DEF Contract!Next
<1>5. CASE Popped \/ Wiped
  BY <1>5, PoppedCancels, WipedWipes DEF Contract!Next
<1>6. QED  BY <1>2, <1>3, <1>4, <1>5, StepKinds

(* The scenario runner, whatever the requests, users and engine do to the   *)
(* device's anomalies, never does what the contract forbids: only the run   *)
(* in charge injects, and a cancelled one is gone from every register when  *)
(* its stop ends.                                                           *)
THEOREM RunnerKeepsContract == Spec => Contract!Safety
<1>1. Init => IInv /\ Marked
  BY InitIInv, InitMarked
<1>2. IInv /\ Marked /\ [Next]_vars => (IInv /\ Marked)'
  BY StepIInv, StepMarked
<1>3. IInv /\ Marked /\ [Next]_vars => [Contract!Next]_(Contract!contractVars)
  BY StepContract
<1>4. QED
  BY <1>1, <1>2, <1>3, InitContract, PTL DEF Spec, Contract!Safety

-----------------------------------------------------------------------------
(* Induction, in the only form the provers take: a set of naturals that is  *)
(* not empty has a least element, and a bounded one a greatest.             *)
LEMMA Least ==
    ASSUME NEW S \in SUBSET Nat, S # {}
    PROVE  \E m \in S : \A n \in S : m <= n
<1> DEFINE R == OpToRel(<, Nat)
<1>1. IsWellFoundedOn(R, Nat)
  BY NatLessThanWellFounded
<1>2. \A x, y \in Nat : <<x, y>> \in R <=> x < y
  BY DEF OpToRel
<1> HIDE DEF R
<1>3. PICK x \in S : \A y \in S : ~(<<y, x>> \in R)
  BY <1>1, WFMin
<1>4. \A y \in S : x <= y
  <2> SUFFICES ASSUME NEW y \in S PROVE x <= y
    OBVIOUS
  <2>1. x \in Nat /\ y \in Nat /\ ~(y < x)
    BY <1>2, <1>3, Zenon
  <2>2. QED  BY <2>1
<1>5. QED  BY <1>4

(* Max finds the greatest position of a set of positions.                   *)
LEMMA Greatest ==
    ASSUME NEW n \in Nat, NEW S \in SUBSET (1..n), S # {}
    PROVE  Max(S) \in S /\ \A x \in S : Max(S) >= x
<1> DEFINE T == {n - x : x \in S}
<1>1. T \in SUBSET Nat
  OBVIOUS
<1>2. T # {}
  OBVIOUS
<1>3. PICK m \in T : \A k \in T : m <= k
  BY <1>1, <1>2, Least
<1>4. PICK x \in S : m = n - x
  BY <1>3
<1>5. \A y \in S : x >= y
  <2> SUFFICES ASSUME NEW y \in S PROVE x >= y
    OBVIOUS
  <2>1. n - y \in T
    OBVIOUS
  <2>2. QED  BY <1>3, <1>4, <2>1
<1>6. QED  BY <1>5 DEF Max

(* A step list is a sequence of steps.                                      *)
LEMMA StepListType ==
    ASSUME NEW s \in Scenarios \cup {<<>>}
    PROVE  /\ Len(s) \in Nat /\ DOMAIN s = 1..Len(s)
           /\ \A i \in DOMAIN s : s[i] \in Step
<1>1. s \in Seq(Step)
  <2>1. CASE s \in Scenarios  BY <2>1, ScenarioAssumption
  <2>2. CASE s = <<>>  BY <2>2
  <2>3. QED  BY <2>1, <2>2
<1>2. QED  BY <1>1

-----------------------------------------------------------------------------
(* Types.  The one hard part is the step a turn records on a register.      *)
Anomaly == [kind : {"none", "user", "step"}, by : Runs \cup {NoRun}, step : Nat]

(* What is stored on a register is an anomaly. *)
LEMMA AnomalyTypes ==
    /\ None \in Anomaly /\ User \in Anomaly
    /\ \A r \in Runs, i \in Nat : FromStep(r, i) \in Anomaly
BY DEF None, User, FromStep, Anomaly

(* The types hold at first.                                                 *)
LEMMA InitTypes == Init => TypeOK
BY InitIInv, AnomalyTypes DEF Init, TypeOK, IInv, Shape, Anomaly

(* Every step keeps them.                                                   *)
LEMMA StepTypes ==
    ASSUME IInv, TypeOK, [Next]_vars
    PROVE  TypeOK'
<1>1. Shape'
  BY StepIInv DEF IInv
<1>2. device' \in {"stopped", "running", "error"}
  <2>1. device' \in {device, "stopped", "running", "error"}
    <3>1. ASSUME NEW c \in Calls,
                 \/ RequestStart(c) \/ RequestStop(c) \/ StopDevice(c) \/ CallStep(c)
          PROVE  device' \in {device, "stopped"}
      BY <3>1 DEF RequestStart, RequestStop, StopDevice, CallStep, Start, StopScenario,
                  StopResumes, StopEngine, CommitStopped
    <3>2. ASSUME NEW r \in Runs, Poll(r) PROVE device' = device
      BY <3>2 DEF Poll, Turn
    <3>3. ASSUME NEW g \in Registers, UserInject(g) \/ UserRemove(g) PROVE device' = device
      BY <3>3 DEF UserInject, UserRemove
    <3>4. QED
      BY <3>1, <3>2, <3>3 DEF Next, vars, ClearAnomalies, StartDevice, DeviceFails, ImportSystem
  <2>2. QED  BY <2>1 DEF TypeOK
<1>3. injected \in [Registers -> Anomaly]
  BY DEF TypeOK, Anomaly
<1>4. injected' \in [Registers -> Anomaly]
  <2>1. ASSUME NEW r \in Runs, Begun(r) PROVE injected' \in [Registers -> Anomaly]
    BY <1>3, <2>1 DEF Begun
  <2>2. ASSUME NEW r \in Runs, Turned(r) PROVE injected' \in [Registers -> Anomaly]
    <3>1. PICK e \in Nat : Turn(r, e)
      BY <2>2 DEF Turned
    <3> DEFINE s == run[r].steps
               onto(g) == {i \in Due(r, e) : s[i].reg = g}
    <3>2. s \in Scenarios \cup {<<>>}
      BY DEF TypeOK, RunRecord
    <3>3. Len(s) \in Nat /\ \A g \in Registers : onto(g) \in SUBSET (1..Len(s))
      BY <3>2, StepListType DEF Due
    <3>4. \A g \in Registers : onto(g) # {} => Max(onto(g)) \in Nat
      <4> SUFFICES ASSUME NEW g \in Registers, onto(g) # {} PROVE Max(onto(g)) \in Nat
        OBVIOUS
      <4>1. onto(g) \in SUBSET (1..Len(s)) /\ Len(s) \in Nat
        BY <3>3
      <4> HIDE DEF onto, s
      <4>2. Max(onto(g)) \in onto(g)
        BY <4>1, Greatest
      <4>3. QED  BY <4>1, <4>2
    <3>5. \A g \in Registers : onto(g) # {} => FromStep(r, Max(onto(g))) \in Anomaly
      BY <3>4, AnomalyTypes
    <3>6. /\ DOMAIN injected' = Registers
          /\ injected' = [g \in Registers |-> injected'[g]]
          /\ \A g \in Registers : \/ injected'[g] \in {None, injected[g]}
                                  \/ onto(g) # {} /\ injected'[g] = FromStep(r, Max(onto(g)))
      BY <3>1 DEF Turn
    <3>7. \A g \in Registers : injected'[g] \in Anomaly
      BY <1>3, <3>5, <3>6, AnomalyTypes
    <3>8. QED  BY <3>6, <3>7
  <2>3. ASSUME NEW r \in Runs, CleanedUp(r) PROVE injected' \in [Registers -> Anomaly]
    BY <1>3, <2>3, AnomalyTypes DEF CleanedUp, Cleared
  <2>4. CASE Popped
    BY <1>3, <2>4 DEF Popped
  <2>5. CASE Wiped
    <3>1. CASE UNCHANGED injected
      BY <1>3, <3>1
    <3>2. CASE ~UNCHANGED injected
      <4>1. injected' = [g \in Registers |-> injected'[g]]
        BY <2>5, <3>2 DEF Wiped
      <4>2. \A g \in Registers : injected'[g] \in Anomaly
        BY <1>3, <2>5, <3>2, AnomalyTypes DEF Wiped
      <4>3. QED  BY <4>1, <4>2
    <3>3. QED  BY <3>1, <3>2
  <2>6. QED  BY <2>1, <2>2, <2>3, <2>4, <2>5, StepKinds
<1>5. imported' \in BOOLEAN
  <2>1. imported' \in {imported, TRUE, FALSE}
    <3>1. ASSUME NEW c \in Calls,
                 \/ RequestStart(c) \/ RequestStop(c) \/ StopDevice(c) \/ CallStep(c)
          PROVE  imported' \in {imported, FALSE}
      BY <3>1 DEF RequestStart, RequestStop, StopDevice, CallStep, Start, StopScenario,
                  StopResumes, StopEngine, CommitStopped
    <3>2. ASSUME NEW r \in Runs, Poll(r) PROVE imported' = imported
      BY <3>2 DEF Poll, Turn
    <3>3. ASSUME NEW g \in Registers, UserInject(g) \/ UserRemove(g) PROVE imported' = imported
      BY <3>3 DEF UserInject, UserRemove
    <3>4. QED
      BY <3>1, <3>2, <3>3
      DEF Next, vars, ClearAnomalies, StartDevice, DeviceFails, ImportSystem
  <2>2. QED  BY <2>1 DEF TypeOK
<1>6. QED  BY <1>1, <1>2, <1>4, <1>5 DEF TypeOK, Shape, Anomaly

(* Runs, requests and anomalies keep their types, whatever the constants.   *)
THEOREM RunnerTypes == Spec => []TypeOK
<1>1. IInv /\ TypeOK /\ [Next]_vars => (IInv /\ TypeOK)'
  BY StepIInv, StepTypes
<1>2. QED  BY InitIInv, InitTypes, <1>1, PTL DEF Spec

-----------------------------------------------------------------------------
(* Stopped devices.  The promise is not inductive: what a start has to see  *)
(* is a stop in progress, between its look at the scenario and its commit.  *)
RacedKnown ==
    DeviceStopping \/ (device = "stopped" /\ ~imported)
        => running = NoRun \/ run[running].raced

(* The history bits survive what others write to the injector.              *)
LEMMA DisturbKeepsRaced ==
    ASSUME NEW f \in [Runs -> RunRecord], NEW q, NEW r \in Runs
    PROVE  Disturb(f, q)[r].raced = f[r].raced
BY DEF Disturb, RunRecord

(* Every step keeps it: a request that gets past the scenario leaves none   *)
(* running, and the starts that come after it know.                         *)
LEMMA StepRaced ==
    ASSUME IInv, RacedKnown, [Next]_vars
    PROVE  RacedKnown'
<1>1. run \in [Runs -> RunRecord] /\ call \in [Calls -> CallRecord]
      /\ running \in Runs \cup {NoRun}
  BY DEF IInv, Shape
<1>2. ASSUME NEW c \in Calls, RequestStart(c) \/ StopDevice(c) PROVE RacedKnown'
  <2>1. DeviceStopping' => DeviceStopping
    BY <1>1, <1>2 DEF RequestStart, StopDevice, DeviceStopping, CallRecord
  <2>2. QED  BY <1>2, <2>1 DEF RequestStart, StopDevice, RacedKnown
<1>3. ASSUME NEW c \in Calls, Start(c) PROVE RacedKnown'
  <2>1. DeviceStopping' => DeviceStopping
    BY <1>1, <1>3 DEF Start, DeviceStopping, IdleCall
  <2>2. CASE UNCHANGED <<running, run>>
    BY <1>3, <2>1, <2>2 DEF Start, RacedKnown
  <2>3. CASE ~AlreadyRunning
    <3>1. PICK r \in Runs, s \in Scenarios :
              /\ running' = r
              /\ run' = [run EXCEPT ![r] = [FreeRun EXCEPT !.pc = "new", !.steps = s,
                                              !.raced = DeviceStopping \/ device = "stopped"]]
      BY <1>3, <2>3 DEF Start
    <3>2. run'[running'].raced = (DeviceStopping \/ device = "stopped")
      BY <1>1, <3>1 DEF FreeRun
    <3>3. QED  BY <1>3, <2>1, <3>2 DEF Start, RacedKnown
  <2>4. QED  BY <1>3, <2>2, <2>3 DEF Start
<1>4. ASSUME NEW c \in Calls, RequestStop(c) PROVE RacedKnown'
  BY <1>4 DEF RequestStop, BeginStop, RacedKnown
<1>5. ASSUME NEW c \in Calls, StopScenario(c) PROVE RacedKnown'
  BY <1>5 DEF StopScenario, BeginStop, RacedKnown
<1>6. ASSUME NEW c \in Calls, StopResumes(c) PROVE RacedKnown'
  <2> DEFINE r == call[c].run
  <2>1. r \in Runs /\ run[r].pc = "cancelled" /\ running # r
    BY <1>6 DEF StopResumes, IInv, Draining, OneTimeline, Driving
  <2>2. running # NoRun => run'[running].raced = run[running].raced
    BY <1>1, <1>6, <2>1, DisturbKeepsRaced, DisturbKeeps DEF StopResumes
  <2>3. DeviceStopping' => DeviceStopping
    BY <1>1, <1>6 DEF StopResumes, DeviceStopping, IdleCall, CallRecord
  <2>4. QED  BY <1>6, <2>2, <2>3 DEF StopResumes, RacedKnown
<1>7. ASSUME NEW c \in Calls, StopEngine(c) PROVE RacedKnown'
  <2>1. running # NoRun => run'[running].raced = run[running].raced
    BY <1>1, <1>7, DisturbKeepsRaced DEF StopEngine
  <2>2. DeviceStopping
    BY <1>7 DEF StopEngine, DeviceStopping
  <2>3. QED  BY <1>7, <2>1, <2>2 DEF StopEngine, RacedKnown
<1>8. ASSUME NEW c \in Calls, CommitStopped(c) PROVE RacedKnown'
  BY <1>8 DEF CommitStopped, DeviceStopping, RacedKnown
<1>9. ASSUME NEW r \in Runs, Poll(r) PROVE RacedKnown'
  <2>1. PICK e : Turn(r, e)
    BY <1>9 DEF Poll
  <2>2. UNCHANGED <<call, device, imported>>
    BY <2>1 DEF Turn
  <2>3. running' # NoRun => running' = running /\ run'[running].raced = run[running].raced
    <3>1. PICK d \in Nat : Turn(r, d) /\ running = r /\ Driving(r)
      BY <1>9, PollTurns DEF Turned
    <3>2. QED  BY <3>1, TurnOutcome
  <2>4. QED  BY <2>2, <2>3 DEF RacedKnown, DeviceStopping
<1>10. ASSUME NEW g \in Registers, UserInject(g) \/ UserRemove(g) PROVE RacedKnown'
  BY <1>1, <1>10, DisturbKeepsRaced DEF UserInject, UserRemove, RacedKnown, DeviceStopping
<1>11. CASE ClearAnomalies
  BY <1>1, <1>11, DisturbKeepsRaced DEF ClearAnomalies, RacedKnown, DeviceStopping
<1>12. CASE StartDevice \/ DeviceFails \/ ImportSystem \/ UNCHANGED vars
  BY <1>12 DEF StartDevice, DeviceFails, ImportSystem, vars, RacedKnown, DeviceStopping
<1>13. QED
  BY <1>2, <1>3, <1>4, <1>5, <1>6, <1>7, <1>8, <1>9, <1>10, <1>11, <1>12 DEF Next, CallStep

(* A device that stop_device stopped has no scenario, however its stop      *)
(* interleaves with requests, imports and the engine, unless the scenario's *)
(* start had passed its check by then.                                      *)
THEOREM StoppedDevicesRest == Spec => []NoScenarioOnStoppedDevice
<1>1. Init => IInv /\ RacedKnown
  BY InitIInv DEF Init, RacedKnown
<1>2. IInv /\ RacedKnown /\ [Next]_vars => (IInv /\ RacedKnown)'
  BY StepIInv, StepRaced
<1>3. RacedKnown => NoScenarioOnStoppedDevice
  BY DEF RacedKnown, NoScenarioOnStoppedDevice
<1>4. QED  BY <1>1, <1>2, <1>3, PTL DEF Spec

-----------------------------------------------------------------------------
(* What _validate_steps, which only compares neighbours, says of any two    *)
(* steps of a register.  Were there a later step that begins too early,     *)
(* take the first one: its predecessor is no such step and begins, at the   *)
(* latest, when it does.                                                    *)
LEMMA NeighboursSuffice ==
    ASSUME NEW s \in Scenarios, ValidateSteps(s),
           NEW i \in DOMAIN s, NEW j \in DOMAIN s, Before(s, i, j)
    PROVE  End(s[i]) <= s[j].trigger
<1> SUFFICES ASSUME ~(End(s[i]) <= s[j].trigger) PROVE FALSE
  OBVIOUS
<1> DEFINE Early == {k \in DOMAIN s : Before(s, i, k) /\ ~(End(s[i]) <= s[k].trigger)}
           Times == {s[k].trigger : k \in Early}
<1>1. /\ DOMAIN s \in SUBSET Nat
      /\ \A k \in DOMAIN s : s[k].trigger \in Nat /\ End(s[k]) \in Nat
  BY StepListType DEF Step, End
<1>2. j \in Early /\ Early \in SUBSET DOMAIN s
  OBVIOUS
<1>3. Times \in SUBSET Nat /\ s[j].trigger \in Times
  BY <1>1, <1>2
<1> HIDE DEF Times
<1>4. PICK t \in Times : \A u \in Times : t <= u
  BY <1>3, Least
<1> DEFINE First == {k \in Early : s[k].trigger = t}
<1>5. First \in SUBSET Nat /\ First # {}
  BY <1>1, <1>2, <1>4 DEF Times
<1> HIDE DEF First
<1>6. PICK k \in First : \A m \in First : k <= m
  BY <1>5, Least
<1>7. /\ k \in DOMAIN s /\ Before(s, i, k) /\ ~(End(s[i]) <= s[k].trigger)
      /\ s[k].trigger = t
  BY <1>6 DEF First
<1>8. ASSUME NEW m \in DOMAIN s, Before(s, i, m), Before(s, m, k) PROVE FALSE
  <2>1. m \in Nat /\ k \in Nat /\ s[m].trigger \in Nat /\ s[k].trigger \in Nat
    BY <1>1, <1>7, <1>8
  <2>2. s[m].trigger <= s[k].trigger
    BY <1>8, <2>1 DEF Before
  <2>3. m \in Early
    <3>1. End(s[i]) \in Nat
      BY <1>1
    <3>2. ~(End(s[i]) <= s[m].trigger)
      BY <1>7, <2>1, <2>2, <3>1
    <3>3. QED  BY <1>8, <3>2
  <2>4. s[m].trigger = t
    BY <1>4, <1>7, <2>1, <2>2, <2>3 DEF Times
  <2>5. m \in First
    BY <2>3, <2>4 DEF First
  <2>6. m < k
    BY <1>7, <1>8, <2>1, <2>4 DEF Before
  <2>7. QED  BY <1>6, <2>1, <2>5, <2>6
<1>9. End(s[i]) <= s[k].trigger
  BY <1>7, <1>8 DEF ValidateSteps
<1>10. QED  BY <1>7, <1>9

(* Any two steps of a register have an order.                               *)
LEMMA ValidatedApart ==
    ASSUME NEW s \in Scenarios, ValidateSteps(s),
           NEW i \in DOMAIN s, NEW j \in DOMAIN s, i # j, s[i].reg = s[j].reg
    PROVE  End(s[i]) <= s[j].trigger \/ End(s[j]) <= s[i].trigger
<1>1. i \in Nat /\ j \in Nat /\ s[i].trigger \in Nat /\ s[j].trigger \in Nat
  BY StepListType DEF Step
<1>2. Before(s, i, j) \/ Before(s, j, i)
  BY <1>1 DEF Before
<1>3. QED  BY <1>2, NeighboursSuffice

(* Every run that is not free runs a validated scenario.                    *)
Validated ==
    \A r \in Runs : run[r].pc # "free" =>
        run[r].steps \in Scenarios /\ ValidateSteps(run[r].steps)

(* What others write to the injector keeps everything but the clean bit.    *)
LEMMA DisturbKeepsTimeline ==
    ASSUME NEW f \in [Runs -> RunRecord], NEW q, NEW r \in Runs
    PROVE  /\ Disturb(f, q)[r].pc = f[r].pc /\ Disturb(f, q)[r].steps = f[r].steps
           /\ Disturb(f, q)[r].triggered = f[r].triggered
           /\ Disturb(f, q)[r].elapsed = f[r].elapsed
           /\ Disturb(f, q)[r].active = f[r].active
           /\ r # q /\ f[r].pc # "free" => Disturb(f, q)[r].clean = FALSE
BY DEF Disturb, RunRecord

(* Only a start gives a run its steps.                                      *)
LEMMA StepValidated ==
    ASSUME IInv, Validated, [Next]_vars
    PROVE  Validated'
<1>1. run \in [Runs -> RunRecord]
  BY DEF IInv, Shape
<1>2. ASSUME NEW r \in Runs, Begun(r) PROVE Validated'
  <2>1. PICK s \in Scenarios, b \in BOOLEAN :
            /\ ValidateSteps(s)
            /\ run' = [run EXCEPT ![r] = [FreeRun EXCEPT !.pc = "new", !.steps = s, !.raced = b]]
    BY <1>2 DEF Begun
  <2>2. run'[r].steps = s /\ \A q \in Runs \ {r} : run'[q] = run[q]
    BY <1>1, <2>1 DEF FreeRun
  <2>3. QED  BY <2>1, <2>2 DEF Validated
<1>3. ASSUME NEW r \in Runs, Turned(r) PROVE Validated'
  <2>1. PICK e \in Nat : Turn(r, e)
    BY <1>3 DEF Turned
  <2>2. run[r].pc # "free" /\ Driving(r)
    BY <1>3 DEF Turned, Driving
  <2>3. QED  BY <2>1, <2>2, TurnOutcome, RestTypes DEF Validated
<1>4. ASSUME NEW r \in Runs, CleanedUp(r) PROVE Validated'
  <2> DEFINE f == IF run[r].active = {} THEN run ELSE Disturb(run, r)
  <2>1. /\ f \in [Runs -> RunRecord]
        /\ \A q \in Runs : f[q].pc = run[q].pc /\ f[q].steps = run[q].steps
    BY ZenonT(30), <1>1, DisturbKeeps, DisturbKeepsTimeline
  <2>2. run' = [f EXCEPT ![r] = FreeRun]
    BY <1>4 DEF CleanedUp
  <2> HIDE DEF f
  <2>3. run'[r].pc = "free" /\ \A q \in Runs \ {r} : run'[q] = f[q]
    BY <2>1, <2>2, RestTypes
  <2>4. QED  BY <2>1, <2>3 DEF Validated
<1>5. CASE Popped
  <2>1. run'[running].steps = run[running].steps /\ run[running].pc # "free"
    BY <1>1, <1>5 DEF Popped, RunRecord, IInv, OneTimeline, Driving
  <2>2. \A q \in Runs \ {running} : run'[q] = run[q]
    BY <1>1, <1>5 DEF Popped
  <2>3. QED  BY <2>1, <2>2 DEF Validated
<1>6. CASE Wiped
  <2>1. \A q \in Runs : run'[q].pc = run[q].pc /\ run'[q].steps = run[q].steps
    <3>1. CASE UNCHANGED run
      BY <3>1
    <3>2. CASE run' = Disturb(run, NoRun)
      BY <1>1, <3>2, DisturbKeepsTimeline
    <3>3. QED  BY <1>6, <3>1, <3>2 DEF Wiped
  <2>2. QED  BY <2>1 DEF Validated
<1>7. QED  BY <1>2, <1>3, <1>4, <1>5, <1>6, StepKinds

(* No scenario has two steps on one register at the same time: what         *)
(* _validate_steps checks of neighbours holds of all of them, so get_status *)
(* never reports two anomalies on one register.                             *)
THEOREM StepsDoNotOverlap == Spec => []OneActiveStepPerRegister
<1>1. Init => IInv /\ Validated
  BY InitIInv, RestTypes DEF Init, Validated
<1>2. IInv /\ Validated /\ [Next]_vars => (IInv /\ Validated)'
  BY StepIInv, StepValidated
<1>3. Validated => OneActiveStepPerRegister
  BY ValidatedApart DEF Validated, OneActiveStepPerRegister, Driving
<1>4. QED  BY <1>1, <1>2, <1>3, PTL DEF Spec

-----------------------------------------------------------------------------
(* The timeline.  A live run has triggered exactly the steps whose time has *)
(* come; one that has its register to itself holds the register active for  *)
(* its window, and while nobody else writes, its anomaly is there.          *)
Alone(r, i) ==
    \A j \in DOMAIN run[r].steps \ {i} : run[r].steps[j].reg # run[r].steps[i].reg

OnTime(r) ==
    /\ run[r].pc = "new" => run[r].triggered = {} /\ run[r].active = {}
    /\ run[r].pc = "live" =>
          /\ run[r].triggered =
                {i \in DOMAIN run[r].steps : run[r].steps[i].trigger <= run[r].elapsed}
          /\ \A i \in DOMAIN run[r].steps : Alone(r, i) =>
                /\ run[r].steps[i].reg \in run[r].active <=> InWindow(r, i)
                /\ run[r].clean /\ InWindow(r, i)
                      => injected[run[r].steps[i].reg] = FromStep(r, i)

Timeline == \A r \in Runs : OnTime(r)

(* A run that nobody touched, on registers nobody touched, stays on time.   *)
LEMMA OnTimeKept ==
    ASSUME NEW r \in Runs, OnTime(r),
           run'[r].pc = run[r].pc \/ run'[r].pc \notin {"new", "live"},
           run'[r].steps = run[r].steps, run'[r].triggered = run[r].triggered,
           run'[r].elapsed = run[r].elapsed, run'[r].active = run[r].active,
           run'[r].clean => run[r].clean /\ injected' = injected
    PROVE  OnTime(r)'
<1>1. \A i : Alone(r, i)' <=> Alone(r, i)
  BY DEF Alone
<1>2. \A i : InWindow(r, i)' <=> InWindow(r, i)
  BY DEF InWindow
<1>3. QED  BY <1>1, <1>2 DEF OnTime

(* The turn of the timeline, the heart of the argument.                     *)
LEMMA TurnOnTime ==
    ASSUME IInv, Validated, Timeline, NEW r \in Runs, Turned(r)
    PROVE  OnTime(r)'
<1>1. PICK e \in Nat : (run[r].pc = "new" \/ e > run[r].elapsed) /\ Turn(r, e)
  BY DEF Turned
<1> DEFINE s == run[r].steps
           due == Due(r, e)
           triggered == run[r].triggered \cup due
           active == run[r].active \cup {s[i].reg : i \in due}
           over == {s[i].reg : i \in {j \in triggered : IsOver(s[j], e)}} \cap active
           onto(g) == {i \in due : s[i].reg = g}
           done == e >= TotalDuration(s) /\ active \ over = {}
           next == [run[r] EXCEPT !.pc = "live", !.elapsed = e,
                                  !.triggered = triggered, !.active = active \ over]
<1>2. /\ run[r] \in RunRecord /\ run \in [Runs -> RunRecord]
      /\ run[r].pc \in {"new", "live"} /\ OnTime(r) /\ s \in Scenarios
      /\ run[r].elapsed \in Nat
  BY DEF IInv, Shape, Turned, Driving, Timeline, Validated, RunRecord
<1>3. /\ run' = [run EXCEPT ![r] = IF done THEN FreeRun ELSE next]
      /\ injected' = [g \in Registers |->
                        CASE g \in over -> None
                          [] g \notin over /\ onto(g) # {} -> FromStep(r, Max(onto(g)))
                          [] OTHER -> injected[g]]
  BY <1>1 DEF Turn
<1>4. CASE done
  <2>1. run'[r].pc = "free"
    BY <1>2, <1>3, <1>4, RestTypes
  <2>2. QED  BY <2>1 DEF OnTime
<1>5. CASE ~done
  <2>1. run'[r] = next
    BY <1>2, <1>3, <1>5
  <2>2. /\ next.pc = "live" /\ next.elapsed = e /\ next.triggered = triggered
        /\ next.active = active \ over /\ next.steps = s /\ next.clean = run[r].clean
    BY <1>2 DEF RunRecord
  <2> HIDE DEF next, done
  <2>3. /\ run'[r].pc = "live" /\ run'[r].elapsed = e /\ run'[r].triggered = triggered
        /\ run'[r].active = active \ over /\ run'[r].steps = s
        /\ run'[r].clean = run[r].clean
    BY <2>1, <2>2
  <2>4. \A i \in DOMAIN s : /\ s[i].trigger \in Nat /\ End(s[i]) \in Nat
                             /\ s[i].reg \in Registers /\ s[i].trigger < End(s[i])
    BY <1>2, StepListType DEF Step, End
  <2>5. triggered = {i \in DOMAIN s : s[i].trigger <= e}
    <3>1. due = {i \in DOMAIN s \ run[r].triggered : s[i].trigger <= e}
      BY <2>4 DEF Due
    <3>2. run[r].triggered \in SUBSET {i \in DOMAIN s : s[i].trigger <= e}
      BY <1>1, <1>2, <2>4 DEF OnTime
    <3>3. QED  BY <3>1, <3>2
  <2>6. ASSUME NEW i \in DOMAIN s, Alone(r, i)
        PROVE  /\ s[i].reg \in active \ over <=> s[i].trigger <= e /\ e < End(s[i])
               /\ run[r].clean /\ s[i].trigger <= e /\ e < End(s[i])
                     => injected'[s[i].reg] = FromStep(r, i)
    <3> DEFINE g == s[i].reg
    <3>1. \A j \in DOMAIN s : s[j].reg = g => j = i
      BY <2>6 DEF Alone
    <3>2. due \in SUBSET DOMAIN s /\ triggered \in SUBSET DOMAIN s
      BY <2>5 DEF Due
    <3>3. g \in over <=> g \in active /\ s[i].trigger <= e /\ e >= End(s[i])
      BY <2>5, <3>1, <3>2 DEF IsOver
    <3>4. g \in active <=> g \in run[r].active \/ i \in due
      BY <3>1, <3>2
    <3>5. g \in run[r].active <=> /\ run[r].pc = "live"
                                  /\ s[i].trigger <= run[r].elapsed
                                  /\ run[r].elapsed < End(s[i])
      BY <1>2, <2>6 DEF OnTime, InWindow
    <3>6. i \in due <=> s[i].trigger <= e /\ i \notin run[r].triggered
      BY <2>4 DEF Due
    <3>7. i \in run[r].triggered <=> run[r].pc = "live" /\ s[i].trigger <= run[r].elapsed
      BY <1>2 DEF OnTime
    <3> DEFINE x == s[i].trigger
               y == End(s[i])
    <3>8. x \in Nat /\ y \in Nat /\ g \in Registers /\ x < y
      BY <2>4
    <3>9. g \in active \ over <=> x <= e /\ e < y
      <4> HIDE DEF x, y, g, active, over, due
      <4>1. CASE x <= e /\ e < y
        <5>1. g \in active
          BY <1>1, <1>2, <3>4, <3>5, <3>6, <3>7, <3>8, <4>1 DEF x, y, g
        <5>2. QED  BY <1>1, <3>3, <3>8, <4>1, <5>1 DEF x, y
      <4>2. ASSUME g \in active, g \notin over PROVE x <= e /\ e < y
        BY <1>1, <1>2, <3>3, <3>4, <3>5, <3>6, <3>8, <4>2 DEF x, y
      <4>3. QED  BY <4>1, <4>2
    <3>10. ASSUME run[r].clean, x <= e, e < y PROVE injected'[g] = FromStep(r, i)
      <4>1. g \notin over
        BY <3>9, <3>10
      <4>2. CASE i \in due
        <5>1. onto(g) = {i}
          BY <3>1, <3>2, <4>2
        <5>2. injected'[g] = FromStep(r, Max(onto(g)))
          BY <1>3, <3>8, <4>1, <5>1
        <5>3. Max({i}) = i
          <6>1. i \in Nat
            BY <1>2, StepListType
          <6>2. QED  BY <6>1 DEF Max
        <5>4. QED  BY <5>1, <5>2, <5>3
      <4>3. CASE i \notin due
        <5>1. onto(g) = {}
          BY <3>1, <3>2, <4>3
        <5>2. injected'[g] = injected[g]
          BY <1>3, <3>8, <4>1, <5>1
        <5>3. run[r].pc = "live" /\ x <= run[r].elapsed /\ run[r].elapsed < y
          BY <1>1, <1>2, <3>6, <3>7, <3>8, <3>10, <4>3
        <5>4. injected[g] = FromStep(r, i)
          BY <1>2, <2>6, <3>10, <5>3 DEF OnTime, InWindow
        <5>5. QED  BY <5>2, <5>4
      <4>4. QED  BY <4>2, <4>3
    <3>11. QED  BY <3>9, <3>10
  <2>7. \A i : Alone(r, i)' <=> Alone(r, i)
    BY <2>3 DEF Alone
  <2>8. \A i : InWindow(r, i)' <=> s[i].trigger <= e /\ e < End(s[i])
    BY <2>3 DEF InWindow
  <2>9. QED
    <3> HIDE DEF s, triggered, active, over
    <3>1. run'[r].triggered = {i \in DOMAIN s : s[i].trigger <= e}
      BY <2>3, <2>5
    <3>2. QED  BY <2>3, <2>6, <2>7, <2>8, <3>1 DEF OnTime
<1>6. QED  BY <1>4, <1>5

(* Every step keeps every run on time.                                      *)
LEMMA StepTimeline ==
    ASSUME IInv, Validated, Timeline, [Next]_vars
    PROVE  Timeline'
<1>1. run \in [Runs -> RunRecord]
  BY DEF IInv, Shape
<1>2. ASSUME NEW r \in Runs, Begun(r) PROVE Timeline'
  <2>1. PICK s \in Scenarios, b \in BOOLEAN :
            run' = [run EXCEPT ![r] = [FreeRun EXCEPT !.pc = "new", !.steps = s, !.raced = b]]
    BY <1>2 DEF Begun
  <2>2. /\ run'[r].pc = "new" /\ run'[r].triggered = {} /\ run'[r].active = {}
        /\ \A q \in Runs \ {r} : run'[q] = run[q]
    BY <1>1, <2>1 DEF FreeRun
  <2>3. OnTime(r)'
    BY <2>2 DEF OnTime
  <2>4. \A q \in Runs \ {r} : OnTime(q)'
    BY <1>2, <2>2, OnTimeKept DEF Begun, Timeline
  <2>5. QED  BY <2>3, <2>4 DEF Timeline
<1>3. ASSUME NEW r \in Runs, Turned(r) PROVE Timeline'
  <2>1. OnTime(r)'
    BY <1>3, TurnOnTime
  <2>2. PICK e \in Nat : Turn(r, e)
    BY <1>3 DEF Turned
  <2>3. \A q \in Runs \ {r} : run'[q] = run[q] /\ run[q].pc \notin {"new", "live"}
    BY <1>3, <2>2, TurnOutcome DEF Turned, IInv, OneTimeline, Driving
  <2>4. \A q \in Runs \ {r} : OnTime(q)'
    BY <2>3 DEF OnTime
  <2>5. QED  BY <2>1, <2>4 DEF Timeline
<1>4. ASSUME NEW r \in Runs, CleanedUp(r) PROVE Timeline'
  <2> SUFFICES ASSUME NEW q \in Runs PROVE OnTime(q)'
    BY DEF Timeline
  <2> DEFINE f == IF run[r].active = {} THEN run ELSE Disturb(run, r)
  <2>1. f \in [Runs -> RunRecord] /\ run' = [f EXCEPT ![r] = FreeRun]
    BY <1>1, <1>4, DisturbKeeps DEF CleanedUp
  <2>2. CASE q = r
    <3>1. run'[q].pc = "free"
      BY <2>1, <2>2, RestTypes
    <3>2. QED  BY <3>1 DEF OnTime
  <2>3. CASE q # r /\ run[q].pc = "free"
    <3>1. f[q].pc = run[q].pc
      BY <1>1, DisturbKeepsTimeline
    <3>2. run'[q].pc = "free"
      BY <2>1, <2>3, <3>1
    <3>3. QED  BY <3>2 DEF OnTime
  <2>4. CASE q # r /\ run[q].pc # "free" /\ run[r].active # {}
    <3>1. run'[q] = Disturb(run, r)[q]
      BY <2>1, <2>4
    <3>2. /\ run'[q].pc = run[q].pc /\ run'[q].steps = run[q].steps
          /\ run'[q].triggered = run[q].triggered /\ run'[q].elapsed = run[q].elapsed
          /\ run'[q].active = run[q].active /\ run'[q].clean = FALSE
      <4> DEFINE h == Disturb(run, r)
      <4>1. /\ h[q].pc = run[q].pc /\ h[q].steps = run[q].steps
            /\ h[q].triggered = run[q].triggered /\ h[q].elapsed = run[q].elapsed
            /\ h[q].active = run[q].active /\ h[q].clean = FALSE
        BY ZenonT(30), <1>1, <2>4, DisturbKeepsTimeline
      <4>2. QED  BY <3>1, <4>1
    <3>3. QED  BY <3>2, OnTimeKept DEF Timeline
  <2>5. CASE q # r /\ run[r].active = {}
    <3>1. run'[q] = run[q]
      BY <2>1, <2>5
    <3>2. \A g \in Registers : injected'[g] = injected[g]
      BY <1>4, <2>5 DEF CleanedUp, Cleared
    <3>3. run[q].pc = "live" => \A i \in DOMAIN run[q].steps : run[q].steps[i].reg \in Registers
      BY <1>1, StepLists DEF RunRecord
    <3>4. (\A i : Alone(q, i)' <=> Alone(q, i)) /\ (\A i : InWindow(q, i)' <=> InWindow(q, i))
      BY <3>1 DEF Alone, InWindow
    <3>5. QED  BY <3>1, <3>2, <3>3, <3>4 DEF OnTime, Timeline
  <2>6. QED  BY <2>2, <2>3, <2>4, <2>5
<1>5. CASE Popped
  <2>1. run'[running].pc = "cancelled" /\ \A q \in Runs \ {running} : run'[q] = run[q]
    BY <1>1, <1>5 DEF Popped, RunRecord
  <2>2. \A q \in Runs \ {running} : OnTime(q)'
    BY <1>5, <2>1, OnTimeKept DEF Popped, Timeline
  <2>3. ASSUME NEW q \in Runs, q = running PROVE OnTime(q)'
    <3>1. run'[q].pc = "cancelled"
      BY <2>1, <2>3
    <3>2. QED  BY <3>1 DEF OnTime
  <2>4. QED  BY <2>2, <2>3 DEF Timeline
<1>6. CASE Wiped
  <2>1. CASE UNCHANGED <<run, injected>>
    BY <2>1, OnTimeKept DEF Timeline
  <2>2. CASE run' = Disturb(run, NoRun)
    <3> SUFFICES ASSUME NEW q \in Runs PROVE OnTime(q)'
      BY DEF Timeline
    <3>1. CASE run[q].pc = "free"
      <4>1. run'[q].pc = "free"
        BY <1>1, <2>2, <3>1, DisturbKeepsTimeline
      <4>2. QED  BY <4>1 DEF OnTime
    <3>2. CASE run[q].pc # "free"
      <4>1. /\ run'[q].pc = run[q].pc /\ run'[q].steps = run[q].steps
            /\ run'[q].triggered = run[q].triggered /\ run'[q].elapsed = run[q].elapsed
            /\ run'[q].active = run[q].active /\ run'[q].clean = FALSE
        <5> DEFINE h == Disturb(run, NoRun)
        <5>1. q # NoRun
          BY ScenarioAssumption
        <5>2. /\ h[q].pc = run[q].pc /\ h[q].steps = run[q].steps
              /\ h[q].triggered = run[q].triggered /\ h[q].elapsed = run[q].elapsed
              /\ h[q].active = run[q].active /\ h[q].clean = FALSE
          BY <1>1, <3>2, <5>1, DisturbKeepsTimeline
        <5>3. QED  BY <2>2, <5>2
      <4>2. QED  BY <4>1, OnTimeKept DEF Timeline
    <3>3. QED  BY <3>1, <3>2
  <2>3. QED  BY <1>6, <2>1, <2>2 DEF Wiped
<1>7. QED  BY <1>2, <1>3, <1>4, <1>5, <1>6, StepKinds

(* On a register of its own a step is injected during its window and at no  *)
(* other time, whatever the polls' delays, as long as nobody else writes    *)
(* the injector.                                                            *)
THEOREM LoneStepsHold == Spec => []LoneStepHolds
<1>1. Init => IInv /\ Validated /\ Timeline
  BY InitIInv, RestTypes DEF Init, Validated, Timeline, OnTime, FreeRun
<1>2. IInv /\ Validated /\ Timeline /\ [Next]_vars => (IInv /\ Validated /\ Timeline)'
  BY StepIInv, StepValidated, StepTimeline
<1>3. IInv /\ Timeline => LoneStepHolds
  <2> SUFFICES ASSUME IInv, Timeline, NEW r \in Runs, run[r].pc = "live", run[r].clean,
                      NEW i \in DOMAIN run[r].steps, Alone(r, i)
               PROVE  InWindow(r, i) <=> injected[run[r].steps[i].reg] = FromStep(r, i)
    BY DEF LoneStepHolds, Alone
  <2> DEFINE g == run[r].steps[i].reg
  <2>1. g \in Registers
    BY StepLists DEF IInv, Shape, RunRecord
  <2>2. g \in run[r].active <=> InWindow(r, i)
    BY DEF Timeline, OnTime
  <2>3. InWindow(r, i) => injected[g] = FromStep(r, i)
    BY DEF Timeline, OnTime
  <2>4. injected[g] = FromStep(r, i) => g \in run[r].active
    BY <2>1 DEF IInv, NoLeakedAnomaly, FromStep
  <2>5. QED  BY <2>2, <2>3, <2>4
<1>4. QED  BY <1>1, <1>2, <1>3, PTL DEF Spec
=============================================================================
