--------------------------- MODULE ScenarioContract ---------------------------
(***************************************************************************)
(* What the scenario runner promises the other users of a device's         *)
(* anomalies, without time, steps or requests: one scenario at a time is   *)
(* in charge of the device, only that one puts anomalies on registers, and *)
(* one that is cancelled takes everything it put there away before it is   *)
(* done.  ScenarioRunner implements it.                                    *)
(***************************************************************************)
CONSTANTS Registers, Runs, NoRun

VARIABLES
    slot,      \* the run in charge, or NoRun
    owed,      \* cancelled runs that have yet to clean up
    marks      \* per register, the run whose anomaly it shows, or NoRun

contractVars == <<slot, owed, marks>>

Init ==
    /\ slot = NoRun
    /\ owed = {}
    /\ marks = [g \in Registers |-> NoRun]

Unmarked(r) == \A g \in Registers : marks'[g] # r

\* Marks may only go away, or become those of a run of the given set.
MarksOnlyBy(S) == \A g \in Registers : marks'[g] \in {marks[g], NoRun} \cup S

Begin(r) ==
    /\ slot = NoRun /\ r \notin owed
    /\ slot' = r
    /\ UNCHANGED <<owed, marks>>
    /\ Unmarked(r)

\* The run in charge injects and removes.
Drive ==
    /\ slot # NoRun
    /\ MarksOnlyBy({slot})
    /\ UNCHANGED <<slot, owed>>

\* It completes: nothing of it is left.
Complete ==
    /\ slot # NoRun
    /\ MarksOnlyBy({}) /\ Unmarked(slot)
    /\ slot' = NoRun
    /\ UNCHANGED owed

\* It is cancelled, and owes the clean-up.
Cancel ==
    /\ slot # NoRun
    /\ slot' = NoRun
    /\ owed' = owed \cup {slot}
    /\ UNCHANGED marks

CleanUp(r) ==
    /\ r \in owed
    /\ MarksOnlyBy({}) /\ Unmarked(r)
    /\ owed' = owed \ {r}
    /\ UNCHANGED slot

\* A user or the engine takes anomalies away or puts others in their place.
Wipe ==
    /\ MarksOnlyBy({})
    /\ UNCHANGED <<slot, owed>>

Next ==
    \/ \E r \in Runs : Begin(r) \/ CleanUp(r)
    \/ Drive \/ Complete \/ Cancel \/ Wipe

\* Nobody stays in charge for ever, and every debt is paid.
Live ==
    \A r \in Runs : /\ slot = r ~> slot # r
                    /\ r \in owed ~> r \notin owed

\* The part of the contract that says what may never happen.
Safety == Init /\ [][Next]_contractVars

Spec == Safety /\ Live
=============================================================================
