------------------------- MODULE ScenarioRunnerProofs -------------------------
(***************************************************************************)
(* For any number of registers, requests and step lists: a device has one   *)
(* timeline, and an anomaly a scenario injected never outlives it.          *)
(*                                                                          *)
(* Neither is inductive alone.  A stop that resumes frees the run it popped,*)
(* so that run must still be the cancelled one: every cancelled run is      *)
(* awaited by exactly the request that popped it.                           *)
(***************************************************************************)
EXTENDS ScenarioRunner, TLAPS

(* The part of the type that the argument needs.                            *)
Shape ==
    /\ running \in Runs \cup {NoRun}
    /\ run \in [Runs -> RunRecord]
    /\ call \in [Calls -> CallRecord]
    /\ DOMAIN injected = Registers

(* A request that awaits a run awaits a cancelled one, and alone.           *)
Draining ==
    \A c \in Calls : call[c].pc = "draining" =>
        /\ call[c].run \in Runs /\ run[call[c].run].pc = "cancelled"
        /\ \A o \in Calls : call[o].pc = "draining" /\ call[o].run = call[c].run => o = c

IInv == Shape /\ Draining /\ OneTimeline /\ NoLeakedAnomaly

-----------------------------------------------------------------------------
(* The resting records.                                                     *)
LEMMA RestTypes ==
    /\ FreeRun \in RunRecord /\ FreeRun.pc = "free"
    /\ IdleCall \in CallRecord /\ IdleCall.pc = "idle"
    /\ [IdleCall EXCEPT !.pc = "engine"] \in CallRecord
    /\ [IdleCall EXCEPT !.pc = "engine"].pc = "engine"
BY DEF FreeRun, IdleCall, RunRecord, CallRecord

(* A step list names the device's registers at natural positions.           *)
LEMMA StepLists ==
    ASSUME NEW s \in Scenarios \cup {<<>>}
    PROVE  DOMAIN s \subseteq Nat /\ \A i \in DOMAIN s : s[i].reg \in Registers
<1>1. s \in Seq(Step)
  <2>1. CASE s \in Scenarios  BY <2>1, ScenarioAssumption
  <2>2. CASE s = <<>>  BY <2>2
  <2>3. QED  BY <2>1, <2>2
<1>2. DOMAIN s = 1..Len(s) /\ Len(s) \in Nat
  BY <1>1
<1>3. \A i \in DOMAIN s : s[i] \in Step
  BY <1>1
<1>4. QED  BY <1>2, <1>3 DEF Step

(* The history bit of the other runs does not change their phase.           *)
LEMMA DisturbKeeps ==
    ASSUME NEW f \in [Runs -> RunRecord], NEW q
    PROVE  /\ Disturb(f, q) \in [Runs -> RunRecord]
           /\ \A r \in Runs : /\ Disturb(f, q)[r].pc = f[r].pc
                              /\ Disturb(f, q)[r].active = f[r].active
<1>1. \A x \in RunRecord : LET y == [x EXCEPT !.clean = FALSE] IN
          y \in RunRecord /\ y.pc = x.pc /\ y.active = x.active
  BY DEF RunRecord
<1>2. QED  BY <1>1 DEF Disturb

(* Another phase keeps the rest of a request's record.                      *)
LEMMA CallPhase ==
    ASSUME NEW x \in CallRecord, NEW p \in {"checked", "stopping", "engine", "commit"}
    PROVE  [x EXCEPT !.pc = p] \in CallRecord /\ [x EXCEPT !.pc = p].pc = p
BY DEF CallRecord

-----------------------------------------------------------------------------
(* No scenario at first.                                                    *)
LEMMA InitIInv == Init => IInv
<1> SUFFICES ASSUME Init PROVE IInv
  OBVIOUS
<1>1. Shape
  BY RestTypes DEF Init, Shape
<1>2. Draining
  BY RestTypes DEF Init, Draining
<1>3. OneTimeline
  BY RestTypes, ScenarioAssumption DEF Init, OneTimeline, Driving
<1>4. NoLeakedAnomaly
  BY DEF Init, NoLeakedAnomaly, None
<1>5. QED  BY <1>1, <1>2, <1>3, <1>4 DEF IInv

(* Moves of a request that awaits nothing, before or after.                 *)
LEMMA CallMoves ==
    ASSUME IInv, NEW c \in Calls, call[c].pc # "draining",
           NEW x \in CallRecord, x.pc # "draining", call' = [call EXCEPT ![c] = x],
           UNCHANGED <<running, run, injected>>
    PROVE  IInv'
<1>1. call \in [Calls -> CallRecord] /\ call' \in [Calls -> CallRecord]
  BY DEF IInv, Shape
<1>2. call'[c].pc # "draining" /\ \A o \in Calls \ {c} : call'[o] = call[o]
  BY <1>1
<1>3. Shape'
  BY <1>1 DEF IInv, Shape
<1>4. Draining' /\ OneTimeline'
  BY <1>2 DEF IInv, Draining, OneTimeline, Driving
<1>5. NoLeakedAnomaly'
  BY <1>2 DEF IInv, NoLeakedAnomaly
<1>6. QED  BY <1>3, <1>4, <1>5 DEF IInv

(* Somebody else writes the injector; the runs only note it.                *)
LEMMA OutsideWrite ==
    ASSUME IInv, run' = Disturb(run, NoRun) \/ UNCHANGED run, UNCHANGED <<running, call>>,
           DOMAIN injected' = Registers,
           \A g \in Registers : injected'[g] = injected[g] \/ injected'[g].kind # "step"
    PROVE  IInv'
<1>1. /\ run' \in [Runs -> RunRecord]
      /\ \A r \in Runs : run'[r].pc = run[r].pc /\ run'[r].active = run[r].active
  BY DisturbKeeps DEF IInv, Shape
<1>2. Shape'
  BY <1>1 DEF IInv, Shape
<1>3. Draining' /\ OneTimeline'
  BY <1>1 DEF IInv, Draining, OneTimeline, Driving
<1>4. NoLeakedAnomaly'
  BY <1>1 DEF IInv, NoLeakedAnomaly
<1>5. QED  BY <1>2, <1>3, <1>4 DEF IInv

(* A start registers a free run, and only when none is registered.          *)
LEMMA StartIInv ==
    ASSUME IInv, NEW c \in Calls, Start(c)
    PROVE  IInv'
<1>1. CASE UNCHANGED <<running, run>>
  BY <1>1, CallMoves, RestTypes DEF Start, AlreadyRunning
<1>2. CASE running = NoRun
  <2>1. PICK r \in Runs, s \in Scenarios :
            /\ run[r].pc = "free" /\ running' = r
            /\ run' = [run EXCEPT ![r] = [FreeRun EXCEPT !.pc = "new", !.steps = s,
                                            !.raced = DeviceStopping \/ device = "stopped"]]
    BY <1>2 DEF Start, AlreadyRunning
  <2> DEFINE x == [FreeRun EXCEPT !.pc = "new", !.steps = s,
                                  !.raced = DeviceStopping \/ device = "stopped"]
  <2>2. (DeviceStopping \/ device = "stopped") \in BOOLEAN
    BY DEF IInv, Shape, CallRecord, DeviceStopping
  <2>3. x \in RunRecord /\ x.pc = "new"
    BY <2>2 DEF FreeRun, RunRecord
  <2>4. /\ run' \in [Runs -> RunRecord] /\ run'[r].pc = "new"
        /\ \A q \in Runs \ {r} : run'[q] = run[q]
    BY <2>1, <2>3 DEF IInv, Shape
  <2>5. /\ call' \in [Calls -> CallRecord] /\ call'[c].pc = "idle" /\ call[c].pc = "checked"
        /\ \A o \in Calls \ {c} : call'[o] = call[o]
    BY RestTypes DEF Start, AlreadyRunning, IInv, Shape
  <2>6. UNCHANGED injected
    BY DEF Start, AlreadyRunning
  <2>7. Shape'
    BY <2>1, <2>4, <2>5, <2>6 DEF IInv, Shape
  <2>8. Draining'
    BY <2>1, <2>4, <2>5 DEF IInv, Draining
  <2>9. OneTimeline'
    BY <1>2, <2>1, <2>4, ScenarioAssumption DEF IInv, OneTimeline, Driving
  <2>10. NoLeakedAnomaly'
    BY <2>1, <2>4, <2>5, <2>6 DEF IInv, NoLeakedAnomaly
  <2>11. QED  BY <2>7, <2>8, <2>9, <2>10 DEF IInv
<1>3. QED  BY <1>1, <1>2 DEF Start, AlreadyRunning

(* A stop pops the registered run and cancels its timeline.                 *)
LEMMA BeginStopIInv ==
    ASSUME IInv, NEW c \in Calls, NEW b \in BOOLEAN, running # NoRun,
           call[c].pc # "draining", BeginStop(c, b), UNCHANGED injected
    PROVE  IInv'
<1>1. running \in Runs /\ run[running].pc \in {"new", "live"} /\ running' = NoRun
  BY DEF IInv, Shape, OneTimeline, Driving, BeginStop
<1>2. /\ run' \in [Runs -> RunRecord]
      /\ run'[running].pc = "cancelled" /\ run'[running].active = run[running].active
      /\ \A q \in Runs \ {running} : run'[q] = run[q]
  <2>1. run[running] \in RunRecord /\ run \in [Runs -> RunRecord]
    BY <1>1 DEF IInv, Shape
  <2>2. LET y == [run[running] EXCEPT !.pc = "cancelled"] IN
            y \in RunRecord /\ y.pc = "cancelled" /\ y.active = run[running].active
    BY <2>1 DEF RunRecord
  <2>3. QED  BY <1>1, <2>1, <2>2 DEF BeginStop
<1>3. /\ call' \in [Calls -> CallRecord]
      /\ call'[c].pc = "draining" /\ call'[c].run = running
      /\ \A o \in Calls \ {c} : call'[o] = call[o]
  BY <1>1 DEF BeginStop, IInv, Shape, CallRecord
<1>4. Shape'
  BY <1>1, <1>2, <1>3 DEF IInv, Shape
<1>5. Draining'
  BY <1>1, <1>2, <1>3 DEF IInv, Draining
<1>6. OneTimeline'
  BY <1>1, <1>2, ScenarioAssumption DEF IInv, OneTimeline, Driving
<1>7. NoLeakedAnomaly'
  BY <1>1, <1>2, <1>3 DEF IInv, NoLeakedAnomaly
<1>8. QED  BY <1>4, <1>5, <1>6, <1>7 DEF IInv

(* The stop resumes: the run it awaited is nobody else's, and everything    *)
(* the run had injected is on its active registers.                         *)
LEMMA StopResumesIInv ==
    ASSUME IInv, NEW c \in Calls, StopResumes(c)
    PROVE  IInv'
<1> DEFINE r == call[c].run
           f == IF run[r].active = {} THEN run ELSE Disturb(run, r)
<1>1. /\ r \in Runs /\ run[r].pc = "cancelled" /\ call[c].pc = "draining"
      /\ \A o \in Calls : call[o].pc = "draining" /\ call[o].run = r => o = c
  BY DEF IInv, Draining, StopResumes, Cleared
<1>2. /\ f \in [Runs -> RunRecord]
      /\ \A q \in Runs : f[q].pc = run[q].pc /\ f[q].active = run[q].active
  BY DisturbKeeps DEF IInv, Shape
<1>3. run' = [f EXCEPT ![r] = FreeRun]
  BY DEF StopResumes, Cleared
<1>4. /\ run' \in [Runs -> RunRecord] /\ run'[r].pc = "free"
      /\ \A q \in Runs \ {r} : run'[q].pc = run[q].pc /\ run'[q].active = run[q].active
  BY <1>1, <1>2, <1>3, RestTypes
<1>5. /\ call' \in [Calls -> CallRecord] /\ call'[c].pc # "draining"
      /\ \A o \in Calls \ {c} : call'[o] = call[o]
  BY RestTypes DEF StopResumes, Cleared, IInv, Shape
<1>6. /\ DOMAIN injected' = Registers /\ running' = running
      /\ \A g \in Registers : injected'[g] = IF g \in run[r].active THEN None ELSE injected[g]
  BY DEF StopResumes, Cleared
<1>7. Shape'
  BY <1>4, <1>5, <1>6 DEF IInv, Shape
<1>8. Draining'
  BY <1>1, <1>4, <1>5 DEF IInv, Draining
<1>9. OneTimeline'
  BY <1>1, <1>4, <1>6 DEF IInv, OneTimeline, Driving
<1>10. NoLeakedAnomaly'
  <2> SUFFICES ASSUME NEW g \in Registers, injected'[g].kind = "step"
               PROVE  /\ injected'[g].by \in Runs
                      /\ \/ run'[injected'[g].by].pc = "live"
                         \/ run'[injected'[g].by].pc = "cancelled" /\ \E o \in Calls :
                              call'[o].pc = "draining" /\ call'[o].run = injected'[g].by
                      /\ g \in run'[injected'[g].by].active
    BY DEF NoLeakedAnomaly
  <2>1. g \notin run[r].active /\ injected'[g] = injected[g]
    BY <1>6 DEF None
  <2>2. injected[g].by \in Runs \ {r}
    BY <2>1 DEF IInv, NoLeakedAnomaly
  <2>3. QED  BY <1>1, <1>4, <1>5, <2>1, <2>2 DEF IInv, NoLeakedAnomaly
<1>11. QED  BY <1>7, <1>8, <1>9, <1>10 DEF IInv

(* One turn of the timeline: what it injects is active or over, and it      *)
(* completes only when nothing is active.                                   *)
LEMMA TurnIInv ==
    ASSUME IInv, NEW r \in Runs, run[r].pc \in {"new", "live"}, NEW e \in Nat, Turn(r, e)
    PROVE  IInv'
<1> DEFINE s == run[r].steps
           triggered == run[r].triggered \cup Due(r, e)
           active == run[r].active \cup {s[i].reg : i \in Due(r, e)}
           over == {s[i].reg : i \in {j \in triggered : IsOver(s[j], e)}} \cap active
           onto(g) == {i \in Due(r, e) : s[i].reg = g}
           done == e >= TotalDuration(s) /\ active \ over = {}
           next == [run[r] EXCEPT !.pc = "live", !.elapsed = e,
                                  !.triggered = triggered, !.active = active \ over]
<1>1. run[r] \in RunRecord /\ run \in [Runs -> RunRecord] /\ running = r
  BY DEF IInv, Shape, OneTimeline, Driving
<1>2. /\ Due(r, e) \subseteq Nat
      /\ \A i \in Due(r, e) : s[i].reg \in Registers
  <2>1. s \in Scenarios \cup {<<>>}
    BY <1>1 DEF RunRecord
  <2>2. Due(r, e) \subseteq DOMAIN s
    BY DEF Due
  <2>3. QED  BY <2>1, <2>2, StepLists
<1>3. triggered \in SUBSET Nat /\ active \in SUBSET Registers
  BY <1>1, <1>2 DEF RunRecord
<1>4. next \in RunRecord /\ next.pc = "live" /\ next.active = active \ over
  BY <1>1, <1>3 DEF RunRecord
<1>5. /\ run' = [run EXCEPT ![r] = IF done THEN FreeRun ELSE next]
      /\ running' = IF done THEN NoRun ELSE running
      /\ injected' = [g \in Registers |->
                        CASE g \in over -> None
                          [] g \notin over /\ onto(g) # {} -> FromStep(r, Max(onto(g)))
                          [] OTHER -> injected[g]]
      /\ UNCHANGED call
  BY DEF Turn
<1>6. /\ run' \in [Runs -> RunRecord]
      /\ run'[r] = IF done THEN FreeRun ELSE next
      /\ \A q \in Runs \ {r} : run'[q] = run[q]
  BY <1>1, <1>4, <1>5, RestTypes
<1>7. Shape'
  BY <1>5, <1>6 DEF IInv, Shape
<1>8. Draining'
  BY <1>5, <1>6 DEF IInv, Draining
<1>9. OneTimeline'
  BY <1>1, <1>4, <1>5, <1>6, RestTypes, ScenarioAssumption DEF IInv, OneTimeline, Driving
<1>10. NoLeakedAnomaly'
  <2> SUFFICES ASSUME NEW g \in Registers, injected'[g].kind = "step"
               PROVE  /\ injected'[g].by \in Runs
                      /\ \/ run'[injected'[g].by].pc = "live"
                         \/ run'[injected'[g].by].pc = "cancelled" /\ \E o \in Calls :
                              call'[o].pc = "draining" /\ call'[o].run = injected'[g].by
                      /\ g \in run'[injected'[g].by].active
    BY DEF NoLeakedAnomaly
  <2>1. g \notin over
    BY <1>5 DEF None
  <2>2. CASE onto(g) # {}
    <3>1. injected'[g].by = r
      BY <1>5, <2>1, <2>2 DEF FromStep
    <3>2. g \in active \ over
      BY <2>1, <2>2
    <3>3. run'[r] = next
      BY <1>6, <3>2
    <3>4. QED  BY <1>4, <3>1, <3>2, <3>3
  <2>3. CASE onto(g) = {}
    <3>1. injected'[g] = injected[g]
      BY <1>5, <2>1, <2>3
    <3>2. CASE injected[g].by = r
      <4>1. g \in active \ over
        BY <2>1, <3>1, <3>2 DEF IInv, NoLeakedAnomaly
      <4>2. run'[r] = next
        BY <1>6, <4>1
      <4>3. QED  BY <1>4, <3>1, <3>2, <4>1, <4>2
    <3>3. CASE injected[g].by # r
      <4> DEFINE q == injected[g].by
      <4>1. /\ q \in Runs /\ g \in run[q].active
            /\ \/ run[q].pc = "live"
               \/ run[q].pc = "cancelled" /\ \E o \in Calls :
                    call[o].pc = "draining" /\ call[o].run = q
        BY <3>1 DEF IInv, NoLeakedAnomaly
      <4>2. run'[q] = run[q] /\ injected'[g].by = q /\ call' = call
        BY <1>5, <1>6, <3>1, <3>3, <4>1
      <4> HIDE DEF q
      <4>3. QED  BY <4>1, <4>2
    <3>4. QED  BY <3>2, <3>3
  <2>4. QED  BY <2>2, <2>3
<1>11. QED  BY <1>7, <1>8, <1>9, <1>10 DEF IInv

(* Every step keeps the invariant.                                          *)
LEMMA StepIInv == IInv /\ [Next]_vars => IInv'
<1> SUFFICES ASSUME IInv, [Next]_vars PROVE IInv'
  OBVIOUS
<1>1. ASSUME NEW c \in Calls,
             \/ RequestStart(c) \/ StopDevice(c) \/ CommitStopped(c)
             \/ StopScenario(c) /\ running = NoRun
      PROVE  IInv'
  <2>1. call[c] \in CallRecord /\ call \in [Calls -> CallRecord]
    BY DEF IInv, Shape
  <2>2. CASE RequestStart(c)
    BY <2>1, <2>2, CallMoves, CallPhase DEF RequestStart
  <2>3. CASE StopDevice(c)
    BY <2>1, <2>3, CallMoves, CallPhase DEF StopDevice
  <2>4. CASE CommitStopped(c)
    BY <2>4, CallMoves, RestTypes DEF CommitStopped
  <2>5. CASE StopScenario(c) /\ running = NoRun
    BY <2>1, <2>5, CallMoves, CallPhase DEF StopScenario
  <2>6. QED  BY <1>1, <2>2, <2>3, <2>4, <2>5
<1>2. ASSUME NEW c \in Calls, StopScenario(c), running # NoRun PROVE IInv'
  BY <1>2, BeginStopIInv DEF StopScenario
<1>3. ASSUME NEW c \in Calls, StopEngine(c) PROVE IInv'
  <2>1. call[c] \in CallRecord /\ call[c].pc = "engine"
    BY <1>3 DEF IInv, Shape, StopEngine
  <2> DEFINE x == [call[c] EXCEPT !.pc = "commit"]
  <2>2. x \in CallRecord /\ x.pc = "commit"
    BY <2>1, CallPhase
  <2>3. /\ call' \in [Calls -> CallRecord] /\ call'[c].pc = "commit"
        /\ \A o \in Calls \ {c} : call'[o] = call[o]
    BY <1>3, <2>2 DEF StopEngine, IInv, Shape
  <2>4. /\ run' \in [Runs -> RunRecord]
        /\ \A r \in Runs : run'[r].pc = run[r].pc /\ run'[r].active = run[r].active
    BY <1>3, DisturbKeeps DEF StopEngine, IInv, Shape
  <2>5. /\ DOMAIN injected' = Registers /\ running' = running
        /\ \A g \in Registers : injected'[g] = injected[g] \/ injected'[g].kind # "step"
    BY <1>3 DEF StopEngine, IInv, Shape, None
  <2>6. Shape'
    BY <2>3, <2>4, <2>5 DEF IInv, Shape
  <2>7. Draining' /\ OneTimeline'
    BY <2>1, <2>3, <2>4, <2>5 DEF IInv, Draining, OneTimeline, Driving
  <2>8. NoLeakedAnomaly'
    BY <2>1, <2>3, <2>4, <2>5 DEF IInv, NoLeakedAnomaly
  <2>9. QED  BY <2>6, <2>7, <2>8 DEF IInv
<1>4. ASSUME NEW c \in Calls, CallStep(c) PROVE IInv'
  BY <1>1, <1>2, <1>3, <1>4, StartIInv, StopResumesIInv DEF CallStep
<1>5. ASSUME NEW r \in Runs, Poll(r) PROVE IInv'
  <2>1. run[r] \in RunRecord
    BY DEF IInv, Shape
  <2>2. \E e \in Nat : run[r].pc \in {"new", "live"} /\ Turn(r, e)
    BY <1>5, <2>1, ScenarioAssumption DEF Poll, Late, Elapsed, RunRecord
  <2>3. QED  BY <2>2, TurnIInv
<1>6. ASSUME NEW g \in Registers, UserInject(g) \/ UserRemove(g) PROVE IInv'
  BY <1>6, OutsideWrite DEF UserInject, UserRemove, IInv, Shape, User, None
<1>7. CASE ClearAnomalies
  BY <1>7, OutsideWrite DEF ClearAnomalies, None
<1>8. CASE StartDevice \/ DeviceFails \/ ImportSystem \/ UNCHANGED vars
  BY <1>8, OutsideWrite DEF StartDevice, DeviceFails, ImportSystem, vars, IInv, Shape
<1>9. ASSUME NEW c \in Calls, RequestStart(c) \/ RequestStop(c) \/ StopDevice(c) \/ CallStep(c)
      PROVE  IInv'
  <2>1. CASE RequestStart(c) \/ StopDevice(c)  BY <1>1, <2>1
  <2>2. CASE RequestStop(c)  BY <2>2, BeginStopIInv DEF RequestStop
  <2>3. CASE CallStep(c)  BY <1>4, <2>3
  <2>4. QED  BY <1>9, <2>1, <2>2, <2>3
<1>10. CASE Next
  BY <1>5, <1>6, <1>7, <1>8, <1>9, <1>10 DEF Next
<1>11. QED  BY <1>8, <1>10

-----------------------------------------------------------------------------
(* ScenarioRunner keeps one timeline per device: the registered run is the  *)
(* one that polls, however starts, stops and completions interleave.        *)
THEOREM OneTimelinePerDevice == Spec => []OneTimeline
<1>1. IInv => OneTimeline  BY DEF IInv
<1>2. QED  BY InitIInv, StepIInv, <1>1, PTL DEF Spec

(* Whatever a scenario injects, its timeline or the stop that cancelled it  *)
(* still remembers as active: no anomaly outlives its scenario.             *)
THEOREM AnomaliesAreCleanedUp == Spec => []NoLeakedAnomaly
<1>1. IInv => NoLeakedAnomaly  BY DEF IInv
<1>2. QED  BY InitIInv, StepIInv, <1>1, PTL DEF Spec
=============================================================================
