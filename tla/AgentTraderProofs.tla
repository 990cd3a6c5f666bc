-------------------------- MODULE AgentTraderProofs --------------------------
(***************************************************************************)
(* What holds of AgentTrader for any markets, costs, caps, limits of the   *)
(* killswitch, size of the pool and number of cycles, starts and faults.   *)
(***************************************************************************)
EXTENDS AgentTrader, TLAPS, FiniteSetTheorems

\* The cycles are numbered as they are opened.
Numbered == Opened = 1..Last /\ Last \in 0..MaxCycles

\* A cycle under way has a row that says so.
UnderWay == cyc.stage # "idle" => cyc.id \in Opened /\ row[cyc.id] = "running"

\* There are workers in the pool stage only, each on a market.
Pooled ==
    /\ cyc.stage # "pool" => wk = NoWorker
    /\ \A s \in Picks : wk[s].at \notin {"none", "done"} => work[s] \in Tickers

-----------------------------------------------------------------------------
(* Types.                                                                  *)

LEMMA Limits ==
  /\ MaxCycles \in Nat /\ MaxFaults \in Nat /\ MaxFinds \in Nat /\ MaxStarts \in Nat
  /\ MaxPicks \in Nat /\ MaxApiCycles \in Nat
  /\ Nobody \notin Tickers
  BY AgentAssumption

LEMMA Initials ==
  NoErrors \in Switch /\ NoCycle \in CycleState /\ NoWork \in Names /\ NoWorker \in Workers
  BY Limits DEF NoErrors, NoCycle, NoWork, NoWorker, Switch, CycleState, Names, Workers, Stages,
                WorkerStates

LEMMA Notes ==
  ASSUME NEW k \in Switch, NEW n \in Nat, NEW b \in BOOLEAN
  PROVE  NoteError(k, n) \in Switch /\ NoteCycle(k, b) \in Switch /\ NoteAnswer(k, b) \in Switch
  BY DEF NoteError, NoteCycle, NoteAnswer, Switch

LEMMA FaultIs == ASSUME TypeOK, Fault PROVE faults' \in 0..MaxFaults
  BY Limits DEF TypeOK, Fault

\* Numbering.
LEMMA NextNumber ==
  ASSUME TypeOK, Numbered, Last < MaxCycles
  PROVE  Last + 1 \in Cycles /\ row[Last + 1] = "none"
  BY Limits DEF Numbered, Opened, Cycles, TypeOK

LEMMA SinceIs == ASSUME Numbered PROVE Last + 1 \in 1..MaxCycles + 1
  BY Limits DEF Numbered

LEMMA TypeInit == Init => TypeOK
<1>. SUFFICES ASSUME Init PROVE TypeOK
  OBVIOUS
<1>1. row \in Rows /\ log \in Logs
  BY DEF Init, Rows, Logs
<1>. QED
  BY <1>1, Limits, Initials DEF Init, TypeOK

\* run_cycle ends.
LEMMA TypeLeave ==
  ASSUME TypeOK, NEW rows \in Rows, Leave(rows), ks' \in Switch, troubled' \subseteq Cycles,
         faults' \in 0..MaxFaults
  PROVE  TypeOK'
<1>1. /\ row' \in Rows /\ cyc' \in CycleState /\ work' \in Names /\ wk' \in Workers
      /\ UNCHANGED <<proc, since, halt, finds, starts, log, booked, refl, orders>>
  BY Initials DEF Leave, process
<1>. QED
  BY <1>1 DEF TypeOK

LEMMA TypeCloseAs ==
  ASSUME TypeOK, NEW status \in CloseStatus, CloseAs(status), ks' \in Switch,
         troubled' \subseteq Cycles, faults' \in 0..MaxFaults
  PROVE  TypeOK'
<1>1. [row EXCEPT ![cyc.id] = status] \in Rows
  BY DEF TypeOK, Rows
<1>. QED
  BY <1>1, TypeLeave DEF CloseAs

LEMMA TypeFail ==
  ASSUME TypeOK, UnderWay, cyc.stage # "idle", Fail
  PROVE  TypeOK'
<1>1. PICK n \in 0..ks.errs : ks' = NoteCycle(NoteError(ks, n), TRUE)
  BY DEF Fail
<1>2. ks \in Switch /\ ks.errs \in Nat
  BY DEF TypeOK, Switch
<1>3. ks' \in Switch
  <2>1. n \in Nat
    BY <1>2
  <2>2. NoteError(ks, n) \in Switch
    BY <1>2, <2>1, Notes
  <2>. QED
    BY <1>1, <2>2, Notes
<1>4. troubled' \subseteq Cycles
  BY DEF Fail, TypeOK, UnderWay, Opened
<1>5. CloseAs("aborted") /\ faults' \in 0..MaxFaults
  BY FaultIs DEF Fail
<1>. QED
  BY <1>3, <1>4, <1>5, TypeCloseAs DEF CloseStatus

LEMMA TypeNothingToDo == ASSUME TypeOK, NothingToDo PROVE TypeOK'
<1>1. ks' \in Switch
  BY Notes DEF NothingToDo, TypeOK, CycleState
<1>2. CloseAs("ok") /\ troubled' \subseteq Cycles /\ faults' \in 0..MaxFaults
  BY DEF NothingToDo, TypeOK
<1>. QED
  BY <1>1, <1>2, TypeCloseAs DEF CloseStatus

\* A step that leaves the process, the database and the rest of them alone.
LEMMA TypeQuiet ==
  ASSUME TypeOK, Quiet, cyc' \in CycleState, work' \in Names, wk' \in Workers,
         ks' \in Switch, faults' \in 0..MaxFaults
  PROVE  TypeOK'
  BY DEF Quiet, process, db, TypeOK

LEMMA TypeCycle == ASSUME TypeOK, UnderWay, CycleStep PROVE TypeOK'
<1>. USE DEF InCycle
<1>0. /\ cyc \in CycleState /\ ks \in Switch /\ work \in Names /\ wk \in Workers
      /\ faults \in 0..MaxFaults /\ troubled \subseteq Cycles
      /\ \A st \in Stages : [cyc EXCEPT !.stage = st] \in CycleState
      /\ \A b \in BOOLEAN : [cyc EXCEPT !.errors = b] \in CycleState
      /\ \A b \in BOOLEAN : [ks EXCEPT !.tripped = b] \in Switch
  BY DEF TypeOK, CycleState, Switch
<1>1. ASSUME Reconcile PROVE TypeOK'
  <2>1. Quiet /\ UNCHANGED <<work, wk, ks, faults>> /\ cyc' = [cyc EXCEPT !.stage = "discover"]
    BY <1>1 DEF Reconcile, pool
  <2>. QED
    BY <1>0, <2>1, TypeQuiet DEF Stages
<1>2. ASSUME ReconcileFails \/ DiscoverFails PROVE TypeOK'
  BY <1>2, TypeFail DEF ReconcileFails, DiscoverFails
<1>3. ASSUME NEW poor \in BOOLEAN, Trip(poor) PROVE TypeOK'
  <2>1. CloseAs("killswitch") /\ UNCHANGED troubled /\ ks' = [ks EXCEPT !.tripped = TRUE]
    BY <1>3 DEF Trip
  <2>2. faults' \in 0..MaxFaults
    BY <1>0, <1>3, FaultIs DEF Trip
  <2>. QED
    BY <1>0, <2>1, <2>2, TypeCloseAs DEF CloseStatus
<1>4. ASSUME Discover PROVE TypeOK'
  <2>1. PICK found \in SUBSET Tickers \ {{}} :
            cyc' = [cyc EXCEPT !.stage = "filter", !.eligible = found]
    BY <1>4 DEF Discover
  <2>2. cyc' \in CycleState
    BY <1>0, <2>1, ZenonT(60) DEF CycleState, Stages
  <2>3. finds' \in 0..MaxFinds
    BY <1>4, Limits DEF Discover, TypeOK
  <2>. QED
    BY <1>4, <2>2, <2>3 DEF Discover, pool, db, TypeOK
<1>5. ASSUME DiscoverNone \/ CoarseFilterNone PROVE TypeOK'
  BY <1>5, TypeNothingToDo DEF DiscoverNone, CoarseFilterNone
<1>6. ASSUME CoarseFilter PROVE TypeOK'
  <2>1. PICK kept \in SUBSET cyc.eligible, cost \in FilterCosts :
            cyc' = [cyc EXCEPT !.stage = "triage", !.eligible = kept, !.spent = @ + cost]
    BY <1>6 DEF CoarseFilter
  <2>2. kept \subseteq Tickers /\ cyc.spent + cost \in Nat
    BY <1>0, AgentAssumption DEF CycleState
  <2>3. cyc' \in CycleState
    BY <1>0, <2>1, <2>2, ZenonT(60) DEF CycleState, Stages
  <2>. QED
    BY <1>0, <1>6, <2>3, TypeQuiet DEF CoarseFilter, pool
<1>7. ASSUME CoarseFilterRaises PROVE TypeOK'
  <2>1. Quiet /\ UNCHANGED <<work, wk, ks>> /\ cyc' = [cyc EXCEPT !.stage = "triage"]
    BY <1>7 DEF CoarseFilterRaises, pool
  <2>2. faults' \in 0..MaxFaults
    BY <1>0, <1>7, FaultIs DEF CoarseFilterRaises
  <2>. QED
    BY <1>0, <2>1, <2>2, TypeQuiet DEF Stages
<1>8. ASSUME Triage PROVE TypeOK'
  <2>1. PICK names \in [Picks -> cyc.eligible \cup {Nobody}], cost \in Costs :
            work' = names /\ cyc' = [cyc EXCEPT !.stage = "submit", !.spent = @ + cost]
    BY <1>8 DEF Triage
  <2>2. names \in Names /\ cyc.spent + cost \in Nat
    BY <1>0, AgentAssumption DEF CycleState, Names
  <2>3. cyc' \in CycleState
    BY <1>0, <2>1, <2>2, ZenonT(60) DEF CycleState, Stages
  <2>4. ks' \in Switch
    BY <1>0, <1>8, Notes DEF Triage
  <2>. QED
    BY <1>0, <1>8, <2>1, <2>2, <2>3, <2>4, TypeQuiet DEF Triage
<1>9. ASSUME TriageAborts PROVE TypeOK'
  <2>1. cyc.errors \in BOOLEAN /\ NoteAnswer(ks, TRUE) \in Switch
    BY <1>0, Notes DEF CycleState
  <2>2. ks' \in Switch /\ faults' \in 0..MaxFaults
    BY <1>0, <1>9, <2>1, Notes, FaultIs DEF TriageAborts
  <2>. QED
    BY <1>0, <1>9, <2>2, TypeCloseAs DEF TriageAborts, CloseStatus
<1>10. ASSUME TriageRaises \/ SubmitRaises PROVE TypeOK'
  <2>1. row \in Rows /\ Leave(row) /\ UNCHANGED <<ks, troubled>> /\ faults' \in 0..MaxFaults
    BY <1>0, <1>10, FaultIs DEF TriageRaises, SubmitRaises, TypeOK
  <2>. QED
    BY <1>0, <2>1, TypeLeave
<1>11. ASSUME Submit PROVE TypeOK'
  <2>1. wk' \in Workers
    BY <1>11 DEF Submit, Workers, WorkerStates
  <2>. QED
    BY <1>0, <1>11, <2>1, TypeQuiet DEF Submit, Stages
<1>12. ASSUME NEW s \in Picks, Collect(s) PROVE TypeOK'
  <2>1. wk' \in Workers
    BY <1>0, <1>12 DEF Collect, Workers, WorkerStates
  <2>2. PICK n \in 0..ks.errs : ks' = NoteError(ks, n)
    BY <1>12 DEF Collect
  <2>3. n \in Nat
    BY <1>0 DEF Switch
  <2>4. ks' \in Switch
    BY <1>0, <2>2, <2>3, Notes
  <2>. QED
    BY <1>0, <1>12, <2>1, <2>4 DEF Collect, process, db, TypeOK
<1>13. ASSUME Close PROVE TypeOK'
  <2>1. ks' \in Switch
    BY <1>0, <1>13, Notes DEF Close, CycleState
  <2>. QED
    BY <1>0, <1>13, <2>1, TypeCloseAs DEF Close, CloseStatus
<1>. QED
  BY <1>1, <1>2, <1>3, <1>4, <1>5, <1>6, <1>7, <1>8, <1>9, <1>10, <1>11, <1>12, <1>13
     DEF CycleStep

LEMMA TypeWorker ==
  ASSUME TypeOK, UnderWay, Pooled, NEW s \in Picks, WorkerStep(s)
  PROVE  TypeOK'
<1>. USE DEF Beside, process
<1>0. /\ cyc \in CycleState /\ ks \in Switch /\ wk \in Workers /\ work \in Names
      /\ log \in Logs /\ faults \in 0..MaxFaults
      /\ booked \subseteq OrderIds /\ orders \subseteq OrderIds
      /\ wk[s] \in [at : WorkerStates, spent : Nat]
      /\ Finished \in [at : WorkerStates, spent : Nat]
  BY DEF TypeOK, Workers, Finished, WorkerStates
<1>1. cyc.id \in Cycles /\ work[s] \in Tickers
  <2>1. cyc.stage = "pool" /\ wk[s].at \notin {"none", "done"}
    BY DEF WorkerStep, Begin, OutOfBudget, Plan, Framework, Research, Decide, Answered,
           Malformed, Raises, NoOrder, Post, Record, Worker, InCycle
  <2>. QED
    BY <2>1 DEF UnderWay, Opened, Pooled
<1>2. ASSUME NEW step \in Steps, Note(s, step) PROVE log' \in Logs
  BY <1>0, <1>1, <1>2 DEF Note, Logs
<1>3. \A st \in WorkerStates : [wk[s] EXCEPT !.at = st] \in [at : WorkerStates, spent : Nat]
  BY <1>0
<1>4. \A st \in WorkerStates, cost \in Costs :
          [at |-> st, spent |-> wk[s].spent + cost] \in [at : WorkerStates, spent : Nat]
  BY <1>0, AgentAssumption
<1>5. \A w \in [at : WorkerStates, spent : Nat] : [wk EXCEPT ![s] = w] \in Workers
  BY <1>0 DEF Workers
<1>6. OrderId(s) \in OrderIds
  BY <1>1 DEF OrderId, OrderIds
<1>7. ASSUME wk' \in Workers, ks' \in Switch, log' \in Logs, booked' \subseteq OrderIds,
             orders' \subseteq OrderIds, troubled' \subseteq Cycles, faults' \in 0..MaxFaults,
             Beside
      PROVE TypeOK'
  BY <1>7 DEF TypeOK
<1>8. ASSUME Begin(s) PROVE TypeOK'
  <2>1. wk' \in Workers
    <3>. DEFINE w == [wk[s] EXCEPT !.at = "plan"]
    <3>1. wk' = [wk EXCEPT ![s] = w]
      BY <1>8 DEF Begin
    <3>2. w \in [at : WorkerStates, spent : Nat]
      BY <1>3 DEF WorkerStates
    <3>. HIDE DEF w
    <3>. QED
      BY <1>5, <3>1, <3>2
  <2>2. log' \in Logs
    BY <1>2, <1>8 DEF Begin, Steps
  <2>. QED
    BY <1>0, <1>8, <2>1, <2>2 DEF Begin, TypeOK
<1>9. ASSUME OutOfBudget(s) PROVE TypeOK'
  BY <1>0, <1>5, <1>9 DEF OutOfBudget, TypeOK
<1>10. ASSUME NEW at \in WorkerStates, NEW step \in Steps, NEW next \in WorkerStates,
              Answered(s, at, step, next)
       PROVE TypeOK'
  <2>1. wk' \in Workers
    <3>1. PICK cost \in Costs : wk' = [wk EXCEPT ![s] = [at |-> next, spent |-> wk[s].spent + cost]]
      BY <1>10 DEF Answered
    <3>. QED
      BY <1>4, <1>5, <3>1
  <2>2. log' \in Logs /\ ks' \in Switch
    BY <1>0, <1>2, <1>10, Notes DEF Answered
  <2>. QED
    BY <1>0, <1>10, <2>1, <2>2 DEF Answered, TypeOK
<1>11. ASSUME Plan(s) \/ Framework(s) \/ Research(s) \/ Decide(s) PROVE TypeOK'
  <2>1. ASSUME Research(s) PROVE TypeOK'
    <3>1. PICK next \in {"decide", "done"} : Answered(s, "research", "findings", next)
      BY <2>1 DEF Research
    <3>. QED
      BY <1>10, <3>1 DEF WorkerStates, Steps
  <2>. QED
    BY <1>10, <1>11, <2>1 DEF Plan, Framework, Decide, WorkerStates, Steps
<1>12. ASSUME Malformed(s) PROVE TypeOK'
  <2>1. PICK cost \in Costs : wk' = [wk EXCEPT ![s] = [at |-> "done", spent |-> wk[s].spent + cost]]
    BY <1>12 DEF Malformed
  <2>2. wk' \in Workers
    BY <1>4, <1>5, <2>1 DEF WorkerStates
  <2>3. ks' \in Switch /\ faults' \in 0..MaxFaults
    BY <1>0, <1>12, Notes, FaultIs DEF Malformed
  <2>. QED
    BY <1>0, <1>12, <2>2, <2>3 DEF Malformed, TypeOK
<1>13. ASSUME Raises(s) PROVE TypeOK'
  <2>1. wk' \in Workers
    BY <1>5, <1>13 DEF Raises, WorkerStates
  <2>2. troubled' \subseteq Cycles /\ faults' \in 0..MaxFaults
    BY <1>1, <1>13, FaultIs DEF Raises, TypeOK
  <2>. QED
    BY <1>0, <1>13, <2>1, <2>2 DEF Raises, TypeOK
<1>14. ASSUME NoOrder(s) PROVE TypeOK'
  <2>1. wk' \in Workers /\ log' \in Logs
    BY <1>0, <1>2, <1>5, <1>14 DEF NoOrder, Steps
  <2>. QED
    BY <1>0, <1>14, <2>1 DEF NoOrder, TypeOK
<1>15. ASSUME Post(s) PROVE TypeOK'
  <2>1. wk' \in Workers
    <3>. DEFINE w == [wk[s] EXCEPT !.at = "sent"]
    <3>1. wk' = [wk EXCEPT ![s] = w]
      BY <1>15 DEF Post
    <3>2. w \in [at : WorkerStates, spent : Nat]
      BY <1>3 DEF WorkerStates
    <3>. HIDE DEF w
    <3>. QED
      BY <1>5, <3>1, <3>2
  <2>2. orders' \subseteq OrderIds
    BY <1>0, <1>6, <1>15 DEF Post
  <2>. QED
    BY <1>0, <1>15, <2>1, <2>2 DEF Post, TypeOK
<1>16. ASSUME Record(s) PROVE TypeOK'
  <2>1. wk' \in Workers /\ log' \in Logs
    BY <1>0, <1>2, <1>5, <1>16 DEF Record, Steps
  <2>2. booked' \subseteq OrderIds
    BY <1>0, <1>6, <1>16 DEF Record
  <2>. QED
    BY <1>0, <1>16, <2>1, <2>2 DEF Record, TypeOK
<1>. QED
  BY <1>8, <1>9, <1>11, <1>12, <1>13, <1>14, <1>15, <1>16 DEF WorkerStep

LEMMA TypeStep == TypeOK /\ Numbered /\ UnderWay /\ Pooled /\ [Next]_vars => TypeOK'
<1>. SUFFICES ASSUME TypeOK, Numbered, UnderWay, Pooled, [Next]_vars PROVE TypeOK'
  OBVIOUS
<1>. USE DEF process, pool, db
<1>1. ASSUME Fire PROVE TypeOK'
  <2>1. Last + 1 \in Cycles
    BY <1>1, NextNumber DEF Fire
  <2>2. row' \in Rows
    BY <1>1, <2>1 DEF Fire, TypeOK, Rows
  <2>3. cyc' \in CycleState
    <3>1. cyc' = [id |-> Last + 1, stage |-> "reconcile", eligible |-> {},
                  spent |-> 0, errors |-> FALSE]
      BY <1>1 DEF Fire, NoCycle
    <3>2. Last + 1 \in 0..MaxCycles
      BY <2>1, Limits DEF Cycles
    <3>. QED
      BY <3>1, <3>2 DEF CycleState, Stages
  <2>. QED
    BY <1>1, <2>2, <2>3 DEF Fire, TypeOK
<1>2. ASSUME Reflect \/ ReflectAnswer PROVE TypeOK'
  <2>1. ks' \in Switch /\ faults' \in 0..MaxFaults
    BY <1>2, Notes, FaultIs DEF Reflect, ReflectAnswer, TypeOK
  <2>. QED
    BY <1>2, <2>1 DEF Reflect, ReflectAnswer, TypeOK
<1>3. ASSUME Start PROVE TypeOK'
  <2>1. starts' \in 0..MaxStarts /\ since' \in 1..MaxCycles + 1
    BY <1>3, Limits, SinceIs DEF Start, TypeOK
  <2>. QED
    BY <1>3, <2>1, Initials DEF Start, TypeOK
<1>4. ASSUME Signal PROVE TypeOK'
  BY <1>4 DEF Signal, TypeOK
<1>5. ASSUME Exit \/ Crash PROVE TypeOK'
  BY <1>5, Initials DEF Exit, Crash, Gone, TypeOK
<1>6. ASSUME Halt PROVE TypeOK'
  BY <1>6, Limits DEF Halt, Numbered, TypeOK
<1>7. ASSUME UNCHANGED vars PROVE TypeOK'
  BY <1>7 DEF vars, TypeOK
<1>. QED
  BY <1>1, <1>2, <1>3, <1>4, <1>5, <1>6, <1>7, TypeCycle, TypeWorker DEF Next

-----------------------------------------------------------------------------
(* Numbers, rows and workers.                                              *)

\* A step opens a cycle, ends the cycle under way, ends the process, or keeps the cycle.
Ends == cyc.stage # "idle" /\ (Leave(row) \/ \E status \in CloseStatus : CloseAs(status))
Stays == /\ row' = row /\ cyc'.id = cyc.id
         /\ cyc'.stage = "idle" <=> cyc.stage = "idle"

LEMMA WorkerStays ==
  ASSUME TypeOK, NEW s \in Picks, WorkerStep(s)
  PROVE  Stays /\ UNCHANGED <<cyc, work>> /\ cyc.stage = "pool"
  BY DEF Stays, WorkerStep, Begin, OutOfBudget, Plan, Framework, Research, Decide, Answered,
         Malformed, Raises, NoOrder, Post, Record, Worker, InCycle, Beside, process

LEMMA Kinds ==
  ASSUME TypeOK, [Next]_vars
  PROVE  Fire \/ Ends \/ Gone \/ Stays
<1>0. cyc \in CycleState
  BY DEF TypeOK
<1>1. ASSUME CycleStep PROVE Ends \/ Stays
  <2>1. ASSUME ReconcileFails \/ DiscoverFails \/ DiscoverNone \/ CoarseFilterNone
               \/ TriageAborts \/ TriageRaises \/ SubmitRaises \/ Close
               \/ \E poor \in BOOLEAN : Trip(poor)
        PROVE Ends
    BY <2>1 DEF Ends, CloseStatus, ReconcileFails, DiscoverFails, DiscoverNone,
                CoarseFilterNone, TriageAborts, TriageRaises, SubmitRaises, Close, Trip, Fail,
                NothingToDo, InCycle
  <2>2. ASSUME Reconcile \/ Discover \/ CoarseFilter \/ CoarseFilterRaises \/ Triage \/ Submit
        PROVE Stays
    BY <1>0, <2>2 DEF Stays, Reconcile, Discover, CoarseFilter, CoarseFilterRaises, Triage,
                Submit, InCycle, Quiet, db, CycleState
  <2>3. ASSUME NEW s \in Picks, Collect(s) PROVE Stays
    BY <1>0, <2>3 DEF Stays, Collect, InCycle, db, CycleState
  <2>. QED
    BY <1>1, <2>1, <2>2, <2>3 DEF CycleStep
<1>2. ASSUME Reflect \/ ReflectAnswer \/ Start \/ Signal \/ Halt \/ UNCHANGED vars PROVE Stays
  BY <1>2 DEF Stays, Reflect, ReflectAnswer, Start, Signal, Halt, vars, db
<1>. QED
  BY <1>1, <1>2, WorkerStays DEF Next, Exit, Crash

LEMMA FiredIs ==
  ASSUME TypeOK, Numbered, Fire
  PROVE  /\ Last + 1 \in Cycles /\ row[Last + 1] = "none"
         /\ row' = [row EXCEPT ![Last + 1] = "running"]
         /\ cyc'.id = Last + 1 /\ cyc'.stage = "reconcile" /\ cyc.stage = "idle"
         /\ cyc'.errors = FALSE /\ cyc'.spent = 0
<1>1. Last + 1 \in Cycles /\ row[Last + 1] = "none"
  BY NextNumber DEF Fire
<1>2. cyc' = [id |-> Last + 1, stage |-> "reconcile", eligible |-> {},
              spent |-> 0, errors |-> FALSE]
  BY DEF Fire, NoCycle
<1>3. /\ cyc'.id = Last + 1 /\ cyc'.stage = "reconcile" /\ cyc'.errors = FALSE
      /\ cyc'.spent = 0
  BY <1>2
<1>4. row' = [row EXCEPT ![Last + 1] = "running"] /\ cyc.stage = "idle"
  BY DEF Fire
<1>. QED
  BY <1>1, <1>3, <1>4

LEMMA UnderWayStep == TypeOK /\ Numbered /\ UnderWay /\ [Next]_vars => UnderWay'
<1>. SUFFICES ASSUME TypeOK, Numbered, UnderWay, [Next]_vars PROVE UnderWay'
  OBVIOUS
<1>1. CASE Fire
  <2>1. cyc'.id \in Cycles /\ row'[cyc'.id] = "running"
    BY <1>1, FiredIs DEF TypeOK, Rows
  <2>. QED
    BY <2>1 DEF UnderWay, Opened
<1>2. CASE Ends \/ Gone
  <2>1. cyc'.stage = "idle"
    BY <1>2 DEF Ends, Gone, Leave, CloseAs, NoCycle
  <2>. QED
    BY <2>1 DEF UnderWay
<1>3. CASE Stays
  BY <1>3 DEF Stays, UnderWay, Opened
<1>. QED
  BY <1>1, <1>2, <1>3, Kinds

LEMMA OpenedStep ==
  ASSUME TypeOK, Numbered, UnderWay, [Next]_vars
  PROVE  Opened' = Opened \/ (Fire /\ Opened' = Opened \cup {Last + 1})
<1>1. CASE Fire
  BY <1>1, FiredIs DEF Opened, TypeOK, Rows
<1>2. CASE Ends
  <2>1. ASSUME NEW status \in CloseStatus, CloseAs(status) PROVE Opened' = Opened
    <3>1. cyc.id \in Cycles /\ row[cyc.id] = "running"
      BY <1>2 DEF Ends, UnderWay, Opened
    <3>2. row' = [row EXCEPT ![cyc.id] = status] /\ status # "none"
      BY <2>1 DEF CloseAs, Leave, CloseStatus
    <3>. QED
      BY <3>1, <3>2 DEF Opened, TypeOK, Rows
  <2>2. ASSUME Leave(row) PROVE Opened' = Opened
    BY <2>2 DEF Leave, Opened
  <2>. QED
    BY <1>2, <2>1, <2>2 DEF Ends
<1>3. CASE Gone \/ Stays
  BY <1>3 DEF Gone, Stays, Opened, db
<1>. QED
  BY <1>1, <1>2, <1>3, Kinds

LEMMA NumberedInit == Init => Numbered
<1>. SUFFICES ASSUME Init PROVE Numbered
  OBVIOUS
<1>1. Opened = {}
  BY DEF Init, Opened
<1>2. Last = 0
  BY <1>1, FS_EmptySet DEF Last
<1>. QED
  BY <1>1, <1>2, Limits DEF Numbered

LEMMA NumberedStep == TypeOK /\ Numbered /\ UnderWay /\ [Next]_vars => Numbered'
<1>. SUFFICES ASSUME TypeOK, Numbered, UnderWay, [Next]_vars PROVE Numbered'
  OBVIOUS
<1>1. CASE Opened' = Opened
  BY <1>1 DEF Numbered, Last
<1>2. CASE Fire /\ Opened' = Opened \cup {Last + 1}
  <2>1. Last \in Nat /\ Last + 1 \in 0..MaxCycles /\ Opened' = 1..Last + 1
    BY <1>2, FiredIs, Limits DEF Numbered, Cycles
  <2>2. Last' = Last + 1
    BY <2>1, FS_Interval DEF Last
  <2>. QED
    BY <2>1, <2>2 DEF Numbered
<1>. QED
  BY <1>1, <1>2, OpenedStep

LEMMA PooledStep == TypeOK /\ Pooled /\ [Next]_vars => Pooled'
<1>. SUFFICES ASSUME TypeOK, Pooled, [Next]_vars PROVE Pooled'
  OBVIOUS
<1>0. cyc \in CycleState /\ wk \in Workers /\ work \in Names
  BY DEF TypeOK
<1>1. ASSUME NEW s \in Picks, WorkerStep(s) PROVE Pooled'
  <2>1. cyc' = cyc /\ work' = work /\ cyc.stage = "pool"
    BY <1>1, WorkerStays
  <2>2. wk[s].at \notin {"none", "done"} /\ \A r \in Picks \ {s} : wk'[r] = wk[r]
    BY <1>0, <1>1 DEF WorkerStep, Begin, OutOfBudget, Plan, Framework, Research, Decide,
                      Answered, Malformed, Raises, NoOrder, Post, Record, Worker, Workers
  <2>. QED
    BY <2>1, <2>2 DEF Pooled
<1>2. ASSUME NEW s \in Picks, Collect(s) PROVE Pooled'
  <2>1. cyc'.stage = "pool" /\ work' = work
    BY <1>0, <1>2 DEF Collect, InCycle, CycleState
  <2>2. wk'[s].at = "done" /\ \A r \in Picks \ {s} : wk'[r] = wk[r]
    BY <1>0, <1>2 DEF Collect, Workers
  <2>. QED
    BY <2>1, <2>2 DEF Pooled
<1>3. ASSUME Submit PROVE Pooled'
  <2>1. cyc'.stage = "pool" /\ work' = work
    BY <1>0, <1>3 DEF Submit, InCycle, CycleState
  <2>2. \A s \in Picks : wk'[s].at # "done" => work[s] \in Tickers
    BY <1>0, <1>3 DEF Submit, Names
  <2>. QED
    BY <2>1, <2>2 DEF Pooled
<1>4. ASSUME wk' = NoWorker PROVE Pooled'
  BY <1>4 DEF Pooled, NoWorker
<1>5. ASSUME UNCHANGED <<wk, work>>, cyc'.stage = "pool" <=> cyc.stage = "pool" PROVE Pooled'
  BY <1>5 DEF Pooled
<1>6. ASSUME Ends \/ Gone PROVE Pooled'
  BY <1>4, <1>6 DEF Ends, Gone, Leave, CloseAs
<1>7. ASSUME CycleStep, ~Ends PROVE Pooled'
  <2>1. ASSUME Reconcile \/ Discover \/ CoarseFilter \/ CoarseFilterRaises PROVE Pooled'
    <3>1. UNCHANGED <<wk, work>> /\ cyc.stage # "pool" /\ cyc'.stage # "pool"
      BY <1>0, <2>1 DEF Reconcile, Discover, CoarseFilter, CoarseFilterRaises, InCycle, pool,
                        CycleState
    <3>. QED
      BY <1>5, <3>1
  <2>2. ASSUME Triage PROVE Pooled'
    <3>1. cyc.stage # "pool" /\ wk' = wk
      BY <2>2 DEF Triage, InCycle
    <3>. QED
      BY <1>4, <3>1 DEF Pooled
  <2>3. ASSUME ReconcileFails \/ DiscoverFails \/ DiscoverNone \/ CoarseFilterNone
               \/ TriageAborts \/ TriageRaises \/ SubmitRaises \/ Close
               \/ \E poor \in BOOLEAN : Trip(poor)
        PROVE FALSE
    BY <1>7, <2>3 DEF Ends, CloseStatus, ReconcileFails, DiscoverFails, DiscoverNone,
                CoarseFilterNone, TriageAborts, TriageRaises, SubmitRaises, Close, Trip, Fail,
                NothingToDo, InCycle
  <2>. QED
    BY <1>2, <1>3, <1>7, <2>1, <2>2, <2>3 DEF CycleStep
<1>8. ASSUME Fire \/ Reflect \/ ReflectAnswer \/ Start \/ Signal \/ Halt \/ UNCHANGED vars
      PROVE Pooled'
  <2>1. UNCHANGED <<wk, work>> /\ (cyc'.stage = "pool" <=> cyc.stage = "pool")
    BY <1>0, <1>8 DEF Fire, NoCycle, Reflect, ReflectAnswer, Start, Signal, Halt, vars, pool
  <2>. QED
    BY <1>5, <2>1
<1>. QED
  BY <1>1, <1>6, <1>7, <1>8 DEF Next, Exit, Crash

\* What the rest of the proofs build on.
Core == TypeOK /\ Numbered /\ UnderWay /\ Pooled

LEMMA CoreInit == Init => Core
<1>. SUFFICES ASSUME Init PROVE Core
  OBVIOUS
<1>1. UnderWay /\ Pooled
  BY DEF Init, UnderWay, Pooled, NoCycle, NoWorker
<1>. QED
  BY <1>1, TypeInit, NumberedInit DEF Core

LEMMA CoreStep == Core /\ [Next]_vars => Core'
  BY TypeStep, NumberedStep, UnderWayStep, PooledStep DEF Core

\* Every variable keeps its type.
THEOREM AgentTypeCorrect == Spec => []TypeOK
<1>1. Core => TypeOK
  BY DEF Core
<1>. QED
  BY <1>1, CoreInit, CoreStep, PTL DEF Spec

-----------------------------------------------------------------------------
(* The budgets.                                                            *)

\* A worker's step charges it with at most one call that the budget allowed.
LEMMA Charged ==
  ASSUME TypeOK, NEW s \in Picks, WorkerStep(s)
  PROVE  /\ \A r \in Picks \ {s} : wk'[r] = wk[r]
         /\ \/ wk'[s].spent = 0
            \/ wk'[s].spent = wk[s].spent
            \/ WithinBudget(s) /\ \E cost \in Costs : wk'[s].spent = wk[s].spent + cost
<1>0. wk \in Workers
  BY DEF TypeOK
<1>1. ASSUME OutOfBudget(s) \/ Raises(s) \/ NoOrder(s) \/ Record(s)
      PROVE  wk'[s].spent = 0 /\ \A r \in Picks \ {s} : wk'[r] = wk[r]
  BY <1>0, <1>1 DEF OutOfBudget, Raises, NoOrder, Record, Finished, Workers
<1>2. ASSUME Begin(s) \/ Post(s)
      PROVE  wk'[s].spent = wk[s].spent /\ \A r \in Picks \ {s} : wk'[r] = wk[r]
  BY <1>0, <1>2 DEF Begin, Post, Workers
<1>3. ASSUME Malformed(s)
      PROVE  /\ \A r \in Picks \ {s} : wk'[r] = wk[r]
             /\ WithinBudget(s) /\ \E cost \in Costs : wk'[s].spent = wk[s].spent + cost
  BY <1>0, <1>3 DEF Malformed, Workers
<1>4. ASSUME NEW at, NEW step, NEW next, Answered(s, at, step, next)
      PROVE  /\ \A r \in Picks \ {s} : wk'[r] = wk[r]
             /\ WithinBudget(s) /\ \E cost \in Costs : wk'[s].spent = wk[s].spent + cost
  BY <1>0, <1>4 DEF Answered, Workers
<1>5. CASE Plan(s) \/ Framework(s) \/ Research(s) \/ Decide(s)
  BY <1>4, <1>5 DEF Plan, Framework, Research, Decide
<1>. QED
  BY <1>1, <1>2, <1>3, <1>5 DEF WorkerStep

\* Steps that are no worker's leave what the workers have spent, or nobody has spent.
LEMMA Uncharged ==
  ASSUME Core, [Next]_vars, \A s \in Picks : ~WorkerStep(s)
  PROVE  \/ \A s \in Picks : wk'[s].spent = 0
         \/ cyc'.spent = cyc.spent /\ \A s \in Picks : wk'[s].spent = wk[s].spent
<1>0. cyc \in CycleState /\ wk \in Workers
  BY DEF Core, TypeOK
<1>1. CASE wk' = NoWorker
  BY <1>1 DEF NoWorker
<1>2. CASE cyc.stage # "pool" /\ wk' = wk
  BY <1>1, <1>2 DEF Core, Pooled
<1>3. ASSUME NEW s \in Picks, Collect(s)
      PROVE  cyc'.spent = cyc.spent /\ \A r \in Picks : wk'[r].spent = wk[r].spent
  BY <1>0, <1>3 DEF Collect, CycleState, Workers
<1>4. CASE Submit
  BY <1>4 DEF Submit
<1>5. CASE Ends \/ Gone
  BY <1>1, <1>5 DEF Ends, Gone, Leave, CloseAs
<1>6. CASE Fire \/ Reconcile \/ Discover \/ CoarseFilter \/ CoarseFilterRaises \/ Triage
  BY <1>2, <1>6 DEF Fire, Reconcile, Discover, CoarseFilter, CoarseFilterRaises, Triage,
                    InCycle, pool
<1>7. CASE Reflect \/ ReflectAnswer \/ Start \/ Signal \/ Halt \/ UNCHANGED vars
  BY <1>7 DEF Reflect, ReflectAnswer, Start, Signal, Halt, vars, pool
<1>8. CASE ReconcileFails \/ DiscoverFails \/ DiscoverNone \/ CoarseFilterNone
           \/ TriageAborts \/ TriageRaises \/ SubmitRaises \/ Close
           \/ \E poor \in BOOLEAN : Trip(poor)
  BY <1>5, <1>8 DEF Ends, CloseStatus, ReconcileFails, DiscoverFails, DiscoverNone,
              CoarseFilterNone, TriageAborts, TriageRaises, SubmitRaises, Close, Trip, Fail,
              NothingToDo, InCycle
<1>. QED
  BY <1>3, <1>4, <1>5, <1>6, <1>7, <1>8 DEF Next, CycleStep, Exit, Crash

LEMMA SpendStep == Core /\ SpendWithinCaps /\ [Next]_vars => SpendWithinCaps'
<1>. SUFFICES ASSUME Core, SpendWithinCaps, [Next]_vars, NEW s \in Picks, wk'[s].spent > 0
              PROVE \E cost \in Costs : /\ wk'[s].spent - cost <= MarketCap
                                        /\ cyc'.spent + wk'[s].spent - cost <= CycleCap
  BY DEF SpendWithinCaps
<1>0. wk[s].spent \in Nat /\ cyc.spent \in Nat /\ MarketCap \in Nat /\ CycleCap \in Nat
      /\ Costs \subseteq Nat
  BY AgentAssumption DEF Core, TypeOK, Workers, CycleState
<1>1. CASE wk'[s].spent = wk[s].spent /\ cyc'.spent = cyc.spent
  BY <1>1 DEF SpendWithinCaps
<1>2. ASSUME NEW r \in Picks, WorkerStep(r)
      PROVE \E cost \in Costs : /\ wk'[s].spent - cost <= MarketCap
                                /\ cyc'.spent + wk'[s].spent - cost <= CycleCap
  <2>1. cyc' = cyc /\ TypeOK
    BY <1>2, WorkerStays DEF Core
  <2>2. CASE wk'[s] = wk[s]
    BY <1>1, <2>1, <2>2
  <2>3. CASE r = s /\ WithinBudget(s) /\ \E cost \in Costs : wk'[s].spent = wk[s].spent + cost
    <3>1. PICK cost \in Costs : wk'[s].spent = wk[s].spent + cost
      BY <2>3
    <3>2. wk'[s].spent - cost <= MarketCap /\ cyc'.spent + wk'[s].spent - cost <= CycleCap
      BY <1>0, <2>1, <2>3, <3>1 DEF WithinBudget
    <3>. QED
      BY <3>2
  <2>. QED
    BY <1>0, <1>1, <1>2, <2>1, <2>2, <2>3, Charged
<1>3. CASE \A r \in Picks : ~WorkerStep(r)
  BY <1>0, <1>1, <1>3, Uncharged
<1>. QED
  BY <1>2, <1>3

\* Whatever the workers spend beside each other, each is over its market's cap, and over
\* the cycle's as the cycle stood when it was submitted, by less than its last call.
THEOREM SoftCeiling == Spec => []SpendWithinCaps
<1>1. Init => SpendWithinCaps
  BY DEF Init, SpendWithinCaps, NoWorker
<1>. QED
  BY <1>1, CoreInit, CoreStep, SpendStep, PTL DEF Spec

-----------------------------------------------------------------------------
(* The orders.                                                             *)

\* What a worker has logged by the time it comes to a stage.
LoggedBy(at) ==
    CASE at \in {"none", "queued", "raised", "done"} -> {}
      [] at = "plan" -> {"triage"}
      [] at = "framework" -> {"triage", "plan"}
      [] at = "research" -> {"triage", "plan", "framework"}
      [] at = "decide" -> Prerequisites
      [] at \in {"post", "sent"} -> Prerequisites \cup {"decision"}

\* The chain log keeps up with the workers, and has every order's steps.
Logged ==
    /\ \A s \in Picks : LoggedBy(wk[s].at) # {} =>
            LoggedBy(wk[s].at) \subseteq log[cyc.id][work[s]]
    /\ OrdersAreExplained

\* An order is of a cycle that was opened, and not in the orders table only while the
\* worker that sent it is about to book it, or its cycle was cut short.
Booked ==
    \A o \in orders :
        /\ o[1] \in Opened
        /\ \/ o \in booked
           \/ /\ row[o[1]] = "running"
              /\ cyc.stage # "idle" /\ cyc.id = o[1] =>
                    \E s \in Picks : wk[s].at = "sent" /\ o = OrderId(s)

\* The steps in the log stay there.
LEMMA LogGrows ==
  ASSUME Core, [Next]_vars, NEW c \in Cycles, NEW t \in Tickers
  PROVE  log[c][t] \subseteq log'[c][t]
<1>0. log \in Logs
  BY DEF Core, TypeOK
<1>1. CASE log' = log
  BY <1>1
<1>2. ASSUME NEW s \in Picks, NEW step, Note(s, step) PROVE log[c][t] \subseteq log'[c][t]
  BY <1>0, <1>2 DEF Note, Logs
<1>3. ASSUME NEW s \in Picks, WorkerStep(s) PROVE log[c][t] \subseteq log'[c][t]
  BY <1>1, <1>2, <1>3 DEF WorkerStep, Begin, OutOfBudget, Plan, Framework, Research, Decide,
        Answered, Malformed, Raises, NoOrder, Post, Record
<1>4. CASE CycleStep
  BY <1>1, <1>4 DEF CycleStep, Reconcile, ReconcileFails, Trip, Discover, DiscoverNone,
        DiscoverFails, CoarseFilter, CoarseFilterNone, CoarseFilterRaises, Triage,
        TriageAborts, TriageRaises, Submit, SubmitRaises, Collect, Close, Fail, NothingToDo,
        CloseAs, Leave, Quiet, db
<1>5. CASE Fire \/ Reflect \/ ReflectAnswer \/ Start \/ Signal \/ Exit \/ Crash \/ Halt
           \/ UNCHANGED vars
  BY <1>1, <1>5 DEF Fire, Reflect, ReflectAnswer, Start, Signal, Exit, Crash, Gone, Halt,
        vars, db
<1>. QED
  BY <1>3, <1>4, <1>5 DEF Next

\* Orders come from a worker's POST only, and what is booked stays so.
LEMMA OrdersFrom ==
  ASSUME Core, [Next]_vars
  PROVE  /\ booked \subseteq booked'
         /\ \/ orders' = orders
            \/ \E s \in Picks : Post(s) /\ orders' = orders \cup {OrderId(s)}
<1>1. ASSUME NEW s \in Picks, WorkerStep(s)
      PROVE  booked \subseteq booked' /\ (orders' = orders
                \/ (Post(s) /\ orders' = orders \cup {OrderId(s)}))
  BY <1>1 DEF WorkerStep, Begin, OutOfBudget, Plan, Framework, Research, Decide,
        Answered, Malformed, Raises, NoOrder, Post, Record
<1>2. CASE CycleStep
  BY <1>2 DEF CycleStep, Reconcile, ReconcileFails, Trip, Discover, DiscoverNone,
        DiscoverFails, CoarseFilter, CoarseFilterNone, CoarseFilterRaises, Triage,
        TriageAborts, TriageRaises, Submit, SubmitRaises, Collect, Close, Fail, NothingToDo,
        CloseAs, Leave, Quiet, db
<1>3. CASE Fire \/ Reflect \/ ReflectAnswer \/ Start \/ Signal \/ Exit \/ Crash \/ Halt
           \/ UNCHANGED vars
  BY <1>3 DEF Fire, Reflect, ReflectAnswer, Start, Signal, Exit, Crash, Gone, Halt, vars, db
<1>. QED
  BY <1>1, <1>2, <1>3 DEF Next

LEMMA PostIs ==
  ASSUME Core, NEW s \in Picks, Post(s)
  PROVE  /\ cyc.stage = "pool" /\ cyc.id \in Opened /\ cyc.id \in Cycles
         /\ row[cyc.id] = "running" /\ work[s] \in Tickers /\ wk[s].at = "post"
         /\ UNCHANGED <<cyc, work, row, log, booked>>
         /\ wk'[s].at = "sent" /\ \A r \in Picks \ {s} : wk'[r] = wk[r]
<1>1. cyc.stage = "pool" /\ wk[s].at = "post" /\ UNCHANGED <<cyc, work, row, log, booked>>
  BY DEF Post, Worker, InCycle, Beside
<1>2. cyc.id \in Opened /\ cyc.id \in Cycles /\ row[cyc.id] = "running" /\ work[s] \in Tickers
  BY <1>1 DEF Core, UnderWay, Pooled, Opened
<1>3. wk'[s].at = "sent" /\ \A r \in Picks \ {s} : wk'[r] = wk[r]
  BY DEF Post, Core, TypeOK, Workers
<1>. QED
  BY <1>1, <1>2, <1>3

\* A worker's step from stage to stage, with what it logs on the way.
LEMMA WorkerLogs ==
  ASSUME Core, NEW s \in Picks, WorkerStep(s)
  PROVE  /\ \A r \in Picks \ {s} : wk'[r] = wk[r]
         /\ cyc.id \in Cycles /\ work[s] \in Tickers
         /\ LoggedBy(wk[s].at) \subseteq log[cyc.id][work[s]] =>
                LoggedBy(wk'[s].at) \subseteq log'[cyc.id][work[s]]
<1>0. wk \in Workers /\ log \in Logs /\ TypeOK
  BY DEF Core, TypeOK
<1>1. cyc.id \in Cycles /\ work[s] \in Tickers
  <2>1. cyc.stage = "pool" /\ wk[s].at \notin {"none", "done"}
    BY DEF WorkerStep, Begin, OutOfBudget, Plan, Framework, Research, Decide, Answered,
           Malformed, Raises, NoOrder, Post, Record, Worker, InCycle
  <2>. QED
    BY <2>1 DEF Core, UnderWay, Opened, Pooled
<1>2. \A r \in Picks \ {s} : wk'[r] = wk[r]
  BY <1>0, Charged
<1>3. ASSUME NEW step, Note(s, step)
      PROVE  log'[cyc.id][work[s]] = log[cyc.id][work[s]] \cup {step}
  BY <1>0, <1>1, <1>3 DEF Note, Logs
<1>4. CASE Begin(s)
  <2>1. wk'[s].at = "plan"
    BY <1>0, <1>4 DEF Begin, Workers
  <2>. QED
    BY <1>1, <1>2, <1>3, <1>4, <2>1 DEF Begin, LoggedBy
<1>5. ASSUME NEW at, NEW step, NEW next, Answered(s, at, step, next)
      PROVE  wk[s].at = at /\ wk'[s].at = next
             /\ log'[cyc.id][work[s]] = log[cyc.id][work[s]] \cup {step}
  BY <1>0, <1>3, <1>5 DEF Answered, Worker, Workers
<1>6. CASE Plan(s)
  BY <1>1, <1>2, <1>5, <1>6 DEF Plan, LoggedBy
<1>7. CASE Framework(s)
  BY <1>1, <1>2, <1>5, <1>7 DEF Framework, LoggedBy
<1>8. CASE Research(s)
  BY <1>1, <1>2, <1>5, <1>8 DEF Research, LoggedBy, Prerequisites
<1>9. CASE Decide(s)
  BY <1>1, <1>2, <1>5, <1>9 DEF Decide, LoggedBy
<1>10. CASE Post(s)
  <2>1. wk[s].at = "post" /\ wk'[s].at = "sent" /\ log' = log
    BY <1>10, PostIs
  <2>. QED
    BY <1>1, <1>2, <2>1 DEF LoggedBy
<1>11. CASE OutOfBudget(s) \/ Malformed(s) \/ Raises(s) \/ NoOrder(s) \/ Record(s)
  <2>1. wk'[s].at \in {"raised", "done"}
    <3>1. CASE OutOfBudget(s) \/ NoOrder(s) \/ Record(s)
      BY <1>0, <3>1 DEF OutOfBudget, NoOrder, Record, Finished, Workers
    <3>2. CASE Malformed(s)
      BY <1>0, <3>2 DEF Malformed, Workers
    <3>3. CASE Raises(s)
      BY <1>0, <3>3 DEF Raises, Workers
    <3>. QED
      BY <1>11, <3>1, <3>2, <3>3
  <2>. QED
    BY <1>1, <1>2, <2>1 DEF LoggedBy
<1>. QED
  BY <1>4, <1>6, <1>7, <1>8, <1>9, <1>10, <1>11 DEF WorkerStep

\* Steps that are no worker's: no worker comes further in its market.
LEMMA NoFurther ==
  ASSUME Core, [Next]_vars, \A s \in Picks : ~WorkerStep(s)
  PROVE  /\ orders' = orders /\ booked' = booked /\ log' = log
         /\ \/ \A s \in Picks : LoggedBy(wk'[s].at) = {}
            \/ /\ cyc'.id = cyc.id /\ work' = work
               /\ \A s \in Picks : LoggedBy(wk'[s].at) # {} => wk'[s].at = wk[s].at
<1>0. cyc \in CycleState /\ wk \in Workers
  BY DEF Core, TypeOK
<1>1. orders' = orders /\ booked' = booked /\ log' = log
  <2>1. CASE CycleStep
    BY <2>1 DEF CycleStep, Reconcile, ReconcileFails, Trip, Discover, DiscoverNone,
          DiscoverFails, CoarseFilter, CoarseFilterNone, CoarseFilterRaises, Triage,
          TriageAborts, TriageRaises, Submit, SubmitRaises, Collect, Close, Fail, NothingToDo,
          CloseAs, Leave, Quiet, db
  <2>2. CASE Fire \/ Reflect \/ ReflectAnswer \/ Start \/ Signal \/ Exit \/ Crash \/ Halt
             \/ UNCHANGED vars
    BY <2>2 DEF Fire, Reflect, ReflectAnswer, Start, Signal, Exit, Crash, Gone, Halt, vars, db
  <2>. QED
    BY <2>1, <2>2 DEF Next
<1>2. CASE wk' = NoWorker
  BY <1>1, <1>2 DEF NoWorker, LoggedBy
<1>3. CASE cyc.stage # "pool" /\ wk' = wk
  BY <1>2, <1>3 DEF Core, Pooled
<1>4. ASSUME NEW s \in Picks, Collect(s)
      PROVE  /\ cyc'.id = cyc.id /\ work' = work
             /\ \A r \in Picks : LoggedBy(wk'[r].at) # {} => wk'[r].at = wk[r].at
  <2>1. wk'[s].at = "done" /\ \A r \in Picks \ {s} : wk'[r] = wk[r]
    BY <1>0, <1>4 DEF Collect, Workers
  <2>2. cyc'.id = cyc.id /\ work' = work
    BY <1>0, <1>4 DEF Collect, CycleState
  <2>. QED
    BY <2>1, <2>2 DEF LoggedBy
<1>5. CASE Submit
  <2>1. \A s \in Picks : wk'[s].at \in {"done", "queued"}
    BY <1>5 DEF Submit
  <2>. QED
    BY <1>1, <2>1 DEF LoggedBy
<1>6. CASE Ends \/ Gone
  BY <1>2, <1>6 DEF Ends, Gone, Leave, CloseAs
<1>7. CASE Fire \/ Reconcile \/ Discover \/ CoarseFilter \/ CoarseFilterRaises \/ Triage
  BY <1>3, <1>7 DEF Fire, Reconcile, Discover, CoarseFilter, CoarseFilterRaises, Triage,
                    InCycle, pool
<1>8. CASE Reflect \/ ReflectAnswer \/ Start \/ Signal \/ Halt \/ UNCHANGED vars
  BY <1>1, <1>8 DEF Reflect, ReflectAnswer, Start, Signal, Halt, vars, pool
<1>9. CASE ReconcileFails \/ DiscoverFails \/ DiscoverNone \/ CoarseFilterNone
           \/ TriageAborts \/ TriageRaises \/ SubmitRaises \/ Close
           \/ \E poor \in BOOLEAN : Trip(poor)
  BY <1>6, <1>9 DEF Ends, CloseStatus, ReconcileFails, DiscoverFails, DiscoverNone,
              CoarseFilterNone, TriageAborts, TriageRaises, SubmitRaises, Close, Trip, Fail,
              NothingToDo, InCycle
<1>. QED
  BY <1>1, <1>4, <1>5, <1>6, <1>7, <1>8, <1>9 DEF Next, CycleStep, Exit, Crash

LEMMA WorkingInPool ==
  ASSUME Core, NEW s \in Picks, LoggedBy(wk[s].at) # {}
  PROVE  cyc.id \in Cycles /\ work[s] \in Tickers /\ cyc.stage = "pool"
<1>1. wk[s].at \notin {"none", "done"}
  BY DEF LoggedBy
<1>2. cyc.stage = "pool"
  BY <1>1 DEF Core, Pooled, NoWorker
<1>. QED
  BY <1>1, <1>2 DEF Core, Pooled, UnderWay, Opened

LEMMA LoggedStep == Core /\ Logged /\ [Next]_vars => Logged'
<1>. SUFFICES ASSUME Core, Logged, [Next]_vars PROVE Logged'
  OBVIOUS
<1>0. Core'
  BY CoreStep
<1>1. ASSUME NEW s \in Picks, LoggedBy(wk'[s].at) # {}
      PROVE  LoggedBy(wk'[s].at) \subseteq log'[cyc'.id][work'[s]]
  <2>1. ASSUME NEW r \in Picks, WorkerStep(r)
        PROVE  LoggedBy(wk'[s].at) \subseteq log'[cyc'.id][work'[s]]
    <3>1. cyc' = cyc /\ work' = work
      BY <2>1, WorkerStays DEF Core
    <3>2. CASE s = r
      <4>1. LoggedBy(wk[r].at) \subseteq log[cyc.id][work[r]]
        BY DEF Logged
      <4>. QED
        BY <2>1, <3>1, <3>2, <4>1, WorkerLogs
    <3>3. CASE s # r
      <4>1. wk'[s] = wk[s]
        BY <2>1, <3>3, WorkerLogs
      <4>2. cyc.id \in Cycles /\ work[s] \in Tickers
        BY <1>1, <4>1, WorkingInPool
      <4>3. LoggedBy(wk[s].at) \subseteq log[cyc.id][work[s]]
        BY <1>1, <4>1 DEF Logged
      <4>4. log[cyc.id][work[s]] \subseteq log'[cyc.id][work[s]]
        BY <4>2, LogGrows
      <4>. QED
        BY <3>1, <4>1, <4>3, <4>4
    <3>. QED
      BY <3>2, <3>3
  <2>2. CASE \A r \in Picks : ~WorkerStep(r)
    <3>1. /\ log' = log /\ cyc'.id = cyc.id /\ work' = work /\ wk'[s].at = wk[s].at
      BY <1>1, <2>2, NoFurther
    <3>. QED
      BY <1>1, <3>1 DEF Logged
  <2>. QED
    BY <2>1, <2>2
<1>2. ASSUME NEW o \in orders'
      PROVE  Prerequisites \cup {"decision"} \subseteq log'[o[1]][o[2]]
  <2>1. CASE o \in orders
    <3>1. Prerequisites \cup {"decision"} \subseteq log[o[1]][o[2]]
      BY <2>1 DEF Logged, OrdersAreExplained
    <3>2. o[1] \in Cycles /\ o[2] \in Tickers
      BY <2>1 DEF Core, TypeOK, OrderIds
    <3>3. log[o[1]][o[2]] \subseteq log'[o[1]][o[2]]
      BY <3>2, LogGrows
    <3>. QED
      BY <3>1, <3>3
  <2>2. ASSUME NEW s \in Picks, Post(s), o = OrderId(s)
        PROVE  Prerequisites \cup {"decision"} \subseteq log'[o[1]][o[2]]
    <3>1. wk[s].at = "post" /\ log' = log
      BY <2>2, PostIs
    <3>2. Prerequisites \cup {"decision"} \subseteq log[cyc.id][work[s]]
      <4>1. LoggedBy(wk[s].at) = Prerequisites \cup {"decision"}
        BY <3>1 DEF LoggedBy
      <4>. QED
        BY <4>1 DEF Logged
    <3>3. o[1] = cyc.id /\ o[2] = work[s]
      BY <2>2 DEF OrderId
    <3>. QED
      BY <3>1, <3>2, <3>3
  <2>. QED
    BY <2>1, <2>2, OrdersFrom
<1>. QED
  BY <1>1, <1>2 DEF Logged, OrdersAreExplained

\* An order at Kalshi can be traced to its triage, plan, framework, findings and decision.
THEOREM OrdersExplained == Spec => []OrdersAreExplained
<1>1. Init => Logged
  BY DEF Init, Logged, LoggedBy, NoWorker, OrdersAreExplained
<1>2. Logged => OrdersAreExplained
  BY DEF Logged
<1>. QED
  BY <1>1, <1>2, CoreInit, CoreStep, LoggedStep, PTL DEF Spec

\* While a worker is between its POST and its rows, only a worker that raised is collected.
LEMMA SentIsPool ==
  ASSUME Core, CycleStep, NEW s \in Picks, wk[s].at = "sent"
  PROVE  /\ row' = row /\ cyc'.id = cyc.id /\ cyc'.stage = "pool"
         /\ work' = work /\ wk'[s] = wk[s]
<1>1. cyc.stage = "pool"
  BY DEF Core, Pooled, NoWorker
<1>2. ~Close
  BY DEF Close
<1>3. PICK r \in Picks : Collect(r)
  BY <1>1, <1>2 DEF CycleStep, Reconcile, ReconcileFails, Trip, Discover, DiscoverNone,
        DiscoverFails, CoarseFilter, CoarseFilterNone, CoarseFilterRaises, Triage,
        TriageAborts, TriageRaises, Submit, SubmitRaises, InCycle
<1>4. wk[r].at = "raised" /\ wk' = [wk EXCEPT ![r].at = "done"]
      /\ cyc' = [cyc EXCEPT !.errors = TRUE] /\ row' = row /\ work' = work
  BY <1>3 DEF Collect, db
<1>5. r # s
  BY <1>4
<1>6. wk \in Workers /\ cyc \in CycleState
  BY DEF Core, TypeOK
<1>. QED
  BY <1>1, <1>4, <1>5, <1>6 DEF Workers, CycleState

\* A worker leaves its POST by booking it.
LEMMA SentRecords ==
  ASSUME NEW s \in Picks, WorkerStep(s), wk[s].at = "sent"
  PROVE  OrderId(s) \in booked'
  BY DEF WorkerStep, Begin, OutOfBudget, Plan, Framework, Research, Decide, Answered,
         Malformed, Raises, NoOrder, Post, Record, Worker

LEMMA BookedStep == Core /\ Booked /\ [Next]_vars => Booked'
<1>. SUFFICES ASSUME Core, Booked, [Next]_vars, NEW o \in orders'
              PROVE  /\ o[1] \in Opened'
                     /\ \/ o \in booked'
                        \/ /\ row'[o[1]] = "running"
                           /\ cyc'.stage # "idle" /\ cyc'.id = o[1] =>
                                 \E s \in Picks : wk'[s].at = "sent" /\ o = OrderId(s)'
  BY DEF Booked
<1>. DEFINE Fine == \/ o \in booked'
                    \/ /\ row'[o[1]] = "running"
                       /\ cyc'.stage # "idle" /\ cyc'.id = o[1] =>
                             \E s \in Picks : wk'[s].at = "sent" /\ o = OrderId(s)'
<1>0. TypeOK /\ Numbered /\ UnderWay /\ row \in Rows /\ Opened \subseteq Opened'
  BY OpenedStep DEF Core, TypeOK
<1>1. ASSUME NEW s \in Picks, Post(s), o = OrderId(s)
      PROVE  o[1] \in Opened' /\ Fine
  <2>1. o[1] = cyc.id /\ o = OrderId(s)'
    BY <1>1, PostIs DEF OrderId
  <2>. QED
    BY <1>0, <1>1, <2>1, PostIs
<1>2. ASSUME o \in orders PROVE o[1] \in Opened' /\ Fine
  <2>1. o[1] \in Opened' /\ o[1] \in Opened
    BY <1>0, <1>2 DEF Booked
  <2>2. CASE o \in booked
    BY <2>1, <2>2, OrdersFrom
  <2>3. CASE o \notin booked
    <3>0. /\ row[o[1]] = "running" /\ o[1] \in Cycles
          /\ cyc.stage # "idle" /\ cyc.id = o[1] =>
                \E s \in Picks : wk[s].at = "sent" /\ o = OrderId(s)
      BY <1>2, <2>1, <2>3 DEF Booked, Opened
    <3>1. ASSUME NEW r \in Picks, WorkerStep(r) PROVE Fine
      <4>1. row' = row /\ cyc' = cyc /\ work' = work
        BY <1>0, <3>1, WorkerStays DEF Stays
      <4>2. CASE cyc.id # o[1] \/ cyc.stage = "idle"
        BY <3>0, <4>1, <4>2
      <4>3. ASSUME NEW s \in Picks, wk[s].at = "sent", o = OrderId(s) PROVE Fine
        <5>1. CASE s = r
          BY <3>1, <4>3, <5>1, SentRecords
        <5>2. CASE s # r
          <6>1. wk'[s] = wk[s] /\ o = OrderId(s)'
            BY <3>1, <4>1, <4>3, <5>2, WorkerLogs DEF OrderId
          <6>. QED
            BY <3>0, <4>1, <4>3, <6>1
        <5>. QED
          BY <5>1, <5>2
      <4>. QED
        BY <3>0, <4>2, <4>3
    <3>2. ASSUME Fire PROVE Fine
      <4>1. o[1] # Last + 1
        BY <1>0, <3>0, <3>2, FiredIs
      <4>2. row'[o[1]] = row[o[1]] /\ cyc'.id = Last + 1
        BY <1>0, <3>0, <3>2, <4>1, FiredIs DEF Rows
      <4>. QED
        BY <3>0, <4>1, <4>2
    <3>3. ASSUME CycleStep PROVE Fine
      <4>1. ASSUME NEW s \in Picks, wk[s].at = "sent", o = OrderId(s) PROVE Fine
        <5>1. row' = row /\ wk'[s].at = "sent" /\ o = OrderId(s)'
          BY <3>3, <4>1, SentIsPool DEF OrderId
        <5>. QED
          BY <3>0, <5>1
      <4>2. CASE cyc.id # o[1]
        <5>1. cyc.stage # "idle"
          BY <3>3 DEF CycleStep, Reconcile, ReconcileFails, Trip, Discover, DiscoverNone,
                DiscoverFails, CoarseFilter, CoarseFilterNone, CoarseFilterRaises, Triage,
                TriageAborts, TriageRaises, Submit, SubmitRaises, Collect, Close, InCycle
        <5>2. CASE Ends
          <6>1. cyc'.stage = "idle" /\ row'[o[1]] = row[o[1]]
            BY <1>0, <3>0, <4>2, <5>2 DEF Ends, CloseAs, Leave, NoCycle, Rows
          <6>. QED
            BY <3>0, <6>1
        <5>3. CASE Stays \/ Gone
          BY <3>0, <4>2, <5>3 DEF Stays, Gone, NoCycle, db
        <5>4. ~Fire
          BY <5>1 DEF Fire
        <5>. QED
          BY <1>0, <5>2, <5>3, <5>4, Kinds
      <4>3. cyc.stage # "idle"
        BY <3>3 DEF CycleStep, Reconcile, ReconcileFails, Trip, Discover, DiscoverNone,
              DiscoverFails, CoarseFilter, CoarseFilterNone, CoarseFilterRaises, Triage,
              TriageAborts, TriageRaises, Submit, SubmitRaises, Collect, Close, InCycle
      <4>. QED
        BY <3>0, <4>1, <4>2, <4>3
    <3>4. ASSUME Exit \/ Crash PROVE Fine
      BY <3>0, <3>4 DEF Exit, Crash, Gone, NoCycle, db
    <3>5. ASSUME Reflect \/ ReflectAnswer \/ Start \/ Signal \/ Halt \/ UNCHANGED vars
          PROVE Fine
      <4>1. UNCHANGED <<row, cyc, work, wk>>
        BY <3>5 DEF Reflect, ReflectAnswer, Start, Signal, Halt, vars, db, pool
      <4>. QED
        BY <3>0, <4>1 DEF OrderId
    <3>. QED
      BY <2>1, <3>1, <3>2, <3>3, <3>4, <3>5 DEF Next
  <2>. QED
    BY <2>2, <2>3
<1>. QED
  BY <1>1, <1>2, OrdersFrom

LEMMA BookedInit == Init => Booked
  BY DEF Init, Booked

\* When a cycle's row is closed, its orders are all in the orders table.
THEOREM ClosedBooked == Spec => []ClosedIsBooked
<1>1. Booked => ClosedIsBooked
  BY DEF Booked, ClosedIsBooked
<1>. QED
  BY <1>1, CoreInit, CoreStep, BookedInit, BookedStep, PTL DEF Spec

-----------------------------------------------------------------------------
(* The halt file and the killswitch.                                       *)

\* The halt file binds the cycles that had not passed the check when it came.
Heeded ==
    /\ cyc.stage \notin {"idle", "reconcile"} /\ halt # 0 => cyc.id <= halt
    /\ HaltIsHeeded

LEMMA HeededStep == Core /\ Booked /\ Heeded /\ [Next]_vars => Heeded'
<1>. SUFFICES ASSUME Core, Booked, Heeded, [Next]_vars PROVE Heeded'
  OBVIOUS
<1>0. /\ TypeOK /\ Numbered /\ UnderWay /\ cyc \in CycleState /\ Last \in Int
      /\ \A c \in Opened : c <= Last
  BY Limits DEF Core, Numbered, TypeOK
<1>1. CASE Halt
  <2>1. halt' = Last /\ UNCHANGED <<cyc, orders>>
    BY <1>1 DEF Halt
  <2>2. \A o \in orders : o[1] <= Last
    BY <1>0 DEF Booked
  <2>3. cyc.stage # "idle" => cyc.id <= Last
    BY <1>0 DEF UnderWay
  <2>. QED
    BY <2>1, <2>2, <2>3 DEF Heeded, HaltIsHeeded
<1>2. CASE ~Halt
  <2>1. halt' = halt
    BY <1>2 DEF Next, Fire, CycleStep, Reconcile, ReconcileFails, Trip, Discover, DiscoverNone,
          DiscoverFails, CoarseFilter, CoarseFilterNone, CoarseFilterRaises, Triage,
          TriageAborts, TriageRaises, Submit, SubmitRaises, Collect, Close, Fail, NothingToDo,
          CloseAs, Leave, Quiet, WorkerStep, Begin, OutOfBudget, Plan, Framework, Research,
          Decide, Answered, Malformed, Raises, NoOrder, Post, Record, Beside,
          Reflect, ReflectAnswer, Start, Signal, Exit, Crash, Gone, vars, process
  <2>2. ASSUME cyc'.stage \notin {"idle", "reconcile"}, halt # 0 PROVE cyc'.id <= halt
    <3>1. CASE Reconcile
      BY <2>2, <3>1 DEF Reconcile, Reason
    <3>2. CASE ~Reconcile
      <4>1. ~Fire
        BY <1>0, <2>2, FiredIs
      <4>2. ~Ends /\ ~Gone
        BY <2>2 DEF Ends, CloseAs, Leave, Gone, NoCycle
      <4>3. cyc'.id = cyc.id /\ cyc.stage # "idle"
        BY <1>0, <2>2, <4>1, <4>2, Kinds DEF Stays
      <4>4. cyc.stage # "reconcile"
        <5>1. CASE \E s \in Picks : WorkerStep(s)
          BY <1>0, <5>1, WorkerStays
        <5>2. CASE CycleStep
          <6>0. cyc' # NoCycle
            BY <2>2 DEF NoCycle
          <6>1. ~ReconcileFails /\ ~\E poor \in BOOLEAN : Trip(poor)
            BY <6>0 DEF ReconcileFails, Fail, Trip, CloseAs, Leave
          <6>. QED
            BY <3>2, <5>2, <6>1 DEF CycleStep, Discover, DiscoverNone, DiscoverFails,
                  CoarseFilter, CoarseFilterNone, CoarseFilterRaises, Triage, TriageAborts,
                  TriageRaises, Submit, SubmitRaises, Collect, Close, InCycle
        <5>3. CASE Reflect \/ ReflectAnswer \/ Start \/ Signal \/ Halt \/ UNCHANGED vars
          BY <2>2, <5>3 DEF Reflect, ReflectAnswer, Start, Signal, Halt, vars
        <5>. QED
          BY <4>1, <4>2, <5>1, <5>2, <5>3 DEF Next, Exit, Crash
      <4>. QED
        BY <2>2, <4>3, <4>4 DEF Heeded
    <3>. QED
      BY <3>1, <3>2
  <2>3. ASSUME NEW o \in orders', halt # 0 PROVE o[1] <= halt
    <3>1. CASE o \in orders
      BY <2>3, <3>1 DEF Heeded, HaltIsHeeded
    <3>2. ASSUME NEW s \in Picks, Post(s), o = OrderId(s) PROVE o[1] <= halt
      BY <2>3, <3>2, PostIs DEF Heeded, OrderId
    <3>. QED
      BY <3>1, <3>2, OrdersFrom
  <2>. QED
    BY <2>1, <2>2, <2>3 DEF Heeded, HaltIsHeeded
<1>. QED
  BY <1>1, <1>2

\* The halt file stops every cycle after the one under way, over restarts too.
THEOREM HaltHeeded == Spec => []HaltIsHeeded
<1>1. Init => Heeded
  BY DEF Init, Heeded, HaltIsHeeded, NoCycle
<1>2. Heeded => HaltIsHeeded
  BY DEF Heeded
<1>. QED
  BY <1>1, <1>2, CoreInit, CoreStep, BookedInit, BookedStep, HeededStep, PTL DEF Spec

\* The cycles that have ended, from the c-th on.
EndedSince(c) == {d \in c..Last : Ended(d)}

\* The cycle under way is the last, in a process that has not tripped; what went wrong
\* in it is noted or about to be collected; and it passed the killswitch.
Passed ==
    /\ proc = "down" => cyc.stage = "idle"
    /\ troubled \subseteq Opened
    /\ cyc.stage # "idle" => cyc.id = Last /\ ~ks.tripped
    /\ cyc.stage # "idle" /\ cyc.id \in troubled =>
            cyc.errors \/ \E s \in Picks : wk[s].at = "raised"
    /\ cyc.stage \notin {"idle", "reconcile"} => ks.api < MaxApiCycles

\* The counter is no smaller than any run of troubled cycles up to now.
Counted ==
    ~ks.tripped =>
        \A c \in since..Last :
            EndedSince(c) \subseteq troubled => Cardinality(EndedSince(c)) <= ks.api

LEMMA LastStep ==
  ASSUME Core, [Next]_vars
  PROVE  IF Fire THEN Last' = Last + 1 ELSE Last' = Last
<1>1. TypeOK /\ Numbered /\ UnderWay /\ Numbered'
  BY CoreStep DEF Core
<1>2. CASE Opened' = Opened /\ ~Fire
  BY <1>2 DEF Last
<1>3. CASE Fire /\ Opened' = Opened \cup {Last + 1}
  <2>1. Last \in Nat /\ Opened' = 1..Last + 1
    BY <1>1, <1>3, Limits DEF Numbered
  <2>2. Last' = Last + 1
    BY <2>1, FS_Interval DEF Last
  <2>. QED
    BY <1>3, <2>2
<1>4. CASE Fire
  <2>1. Opened' = Opened \cup {Last + 1}
    BY <1>1, <1>4, FiredIs DEF Opened, TypeOK, Rows
  <2>. QED
    BY <1>3, <1>4, <2>1
<1>. QED
  BY <1>1, <1>2, <1>4, OpenedStep

\* Who touches the switch, the troubled cycles and the process's first cycle.
LEMMA WorkerSwitch ==
  ASSUME Core, NEW s \in Picks, WorkerStep(s)
  PROVE  /\ ks'.api = ks.api /\ ks'.tripped = ks.tripped
         /\ UNCHANGED <<since, proc>> /\ proc # "down"
         /\ \/ troubled' = troubled /\ (wk[s].at # "raised")
            \/ troubled' = troubled \cup {cyc.id} /\ wk'[s].at = "raised"
<1>0. ks \in Switch /\ wk \in Workers
  BY DEF Core, TypeOK
<1>1. UNCHANGED <<since, proc>> /\ proc # "down"
  BY DEF Worker, InCycle, WorkerStep, Begin, OutOfBudget, Plan, Framework, Research, Decide, Answered,
         Malformed, Raises, NoOrder, Post, Record, Beside, process
<1>2. ks'.api = ks.api /\ ks'.tripped = ks.tripped
  BY <1>0 DEF WorkerStep, Begin, OutOfBudget, Plan, Framework, Research, Decide, Answered,
         Malformed, Raises, NoOrder, Post, Record, NoteAnswer, Switch
<1>3. CASE Raises(s)
  BY <1>0, <1>1, <1>2, <1>3 DEF Raises, Workers
<1>4. CASE ~Raises(s)
  BY <1>1, <1>2, <1>4 DEF WorkerStep, Begin, OutOfBudget, Plan, Framework, Research, Decide,
         Answered, Malformed, NoOrder, Post, Record, Worker
<1>. QED
  BY <1>3, <1>4

LEMMA CycleSwitch ==
  ASSUME Core, CycleStep
  PROVE  /\ UNCHANGED <<since, proc>> /\ proc # "down"
         /\ \/ /\ cyc'.stage # "idle"
               /\ ks'.api = ks.api /\ ks'.tripped = ks.tripped /\ troubled' = troubled
               /\ row' = row
            \/ /\ cyc'.stage = "idle"
               /\ ks' = ks /\ troubled' = troubled /\ row' = row
            \/ /\ cyc'.stage = "idle" /\ \E status \in CloseStatus : row' = [row EXCEPT ![cyc.id] = status]
               /\ \/ ks'.tripped /\ troubled' = troubled
                  \/ /\ ks'.api = ks.api + 1 /\ ks'.tripped = ks.tripped
                     /\ troubled \subseteq troubled' /\ troubled' \subseteq troubled \cup {cyc.id}
                  \/ /\ ~cyc.errors /\ \A s \in Picks : wk[s].at # "raised"
                     /\ troubled' = troubled /\ ks'.tripped = ks.tripped
<1>0. ks \in Switch /\ cyc \in CycleState /\ NoCycle.stage = "idle"
  BY DEF Core, TypeOK, NoCycle
<1>1. UNCHANGED <<since, proc>> /\ proc # "down"
  BY DEF InCycle, CycleStep, Reconcile, ReconcileFails, Trip, Discover, DiscoverNone,
        DiscoverFails, CoarseFilter, CoarseFilterNone, CoarseFilterRaises, Triage,
        TriageAborts, TriageRaises, Submit, SubmitRaises, Collect, Close, Fail, NothingToDo,
        CloseAs, Leave, Quiet, process
<1>2. CASE Reconcile \/ Discover \/ CoarseFilter \/ CoarseFilterRaises \/ Submit \/ Triage
  <2>1. cyc'.stage # "idle" /\ troubled' = troubled /\ row' = row
    BY <1>0, <1>2 DEF Reconcile, Discover, CoarseFilter, CoarseFilterRaises, Submit, Triage,
          Quiet, db, CycleState
  <2>2. ks'.api = ks.api /\ ks'.tripped = ks.tripped
    BY <1>0, <1>2 DEF Reconcile, Discover, CoarseFilter, CoarseFilterRaises, Submit, Triage,
          Quiet, NoteAnswer, Switch
  <2>. QED
    BY <1>1, <2>1, <2>2
<1>3. ASSUME NEW s \in Picks, Collect(s)
      PROVE  /\ cyc'.stage # "idle" /\ troubled' = troubled /\ row' = row
             /\ ks'.api = ks.api /\ ks'.tripped = ks.tripped
  BY <1>0, <1>3 DEF Collect, InCycle, NoteError, CycleState, Switch, db
<1>4. CASE TriageRaises \/ SubmitRaises
  <2>1. cyc' = NoCycle /\ ks' = ks /\ troubled' = troubled /\ row' = row
    BY <1>4 DEF TriageRaises, SubmitRaises, Leave
  <2>. QED
    BY <1>0, <1>1, <2>1
<1>5. CASE ReconcileFails \/ DiscoverFails
  <2>1. Fail
    BY <1>5 DEF ReconcileFails, DiscoverFails
  <2>2. cyc' = NoCycle /\ row' = [row EXCEPT ![cyc.id] = "aborted"]
        /\ troubled' = troubled \cup {cyc.id}
    BY <2>1 DEF Fail, CloseAs, Leave
  <2>3. ks'.api = ks.api + 1 /\ ks'.tripped = ks.tripped
    BY <1>0, <2>1 DEF Fail, NoteCycle, NoteError, Switch
  <2>. QED
    BY <1>0, <1>1, <2>2, <2>3 DEF CloseStatus
<1>6. ASSUME NEW poor \in BOOLEAN, Trip(poor)
      PROVE  /\ cyc'.stage = "idle" /\ row' = [row EXCEPT ![cyc.id] = "killswitch"]
             /\ ks'.tripped /\ troubled' = troubled
  BY <1>0, <1>6 DEF Trip, CloseAs, Leave, Switch
<1>7. CASE DiscoverNone \/ CoarseFilterNone \/ TriageAborts \/ Close
  <2>1. /\ cyc'.stage = "idle" /\ troubled' = troubled
        /\ \E status \in CloseStatus : row' = [row EXCEPT ![cyc.id] = status]
    BY <1>0, <1>7 DEF DiscoverNone, CoarseFilterNone, TriageAborts, Close, NothingToDo,
          CloseAs, Leave, CloseStatus
  <2>2. /\ ks'.tripped = ks.tripped
        /\ cyc.errors => ks'.api = ks.api + 1
    <3>1. \A k \in Switch : /\ NoteCycle(k, cyc.errors).tripped = k.tripped
                            /\ cyc.errors => NoteCycle(k, cyc.errors).api = k.api + 1
      BY <1>0 DEF NoteCycle, Switch, CycleState
    <3>2. NoteAnswer(ks, TRUE) \in Switch /\ NoteAnswer(ks, TRUE).api = ks.api
          /\ NoteAnswer(ks, TRUE).tripped = ks.tripped
      BY <1>0, Notes DEF NoteAnswer, Switch
    <3>3. ks' \in {NoteCycle(ks, cyc.errors), NoteCycle(NoteAnswer(ks, TRUE), cyc.errors)}
      BY <1>7 DEF DiscoverNone, CoarseFilterNone, TriageAborts, Close, NothingToDo
    <3>4. CASE ks' = NoteCycle(ks, cyc.errors)
      BY <1>0, <3>1, <3>4
    <3>5. CASE ks' = NoteCycle(NoteAnswer(ks, TRUE), cyc.errors)
      BY <3>1, <3>2, <3>5
    <3>. QED
      BY <3>3, <3>4, <3>5
  <2>3. \A s \in Picks : wk[s].at # "raised"
    <3>1. CASE Close
      BY <3>1 DEF Close
    <3>2. CASE DiscoverNone \/ CoarseFilterNone \/ TriageAborts
      <4>1. wk = NoWorker
        BY <3>2 DEF DiscoverNone, CoarseFilterNone, TriageAborts, InCycle, Core, Pooled
      <4>. QED
        BY <4>1 DEF NoWorker
    <3>. QED
      BY <1>7, <3>1, <3>2
  <2>. QED
    BY <1>1, <2>1, <2>2, <2>3
<1>. QED
  BY <1>1, <1>2, <1>3, <1>4, <1>5, <1>6, <1>7 DEF CycleStep, CloseStatus

LEMMA SwitchSteps ==
  ASSUME Core, [Next]_vars
  PROVE  \/ \E s \in Picks : WorkerStep(s)
         \/ CycleStep
         \/ Start
         \/ Fire /\ ~ks.tripped /\ proc # "down" /\ UNCHANGED <<ks, troubled, since, proc>>
         \/ /\ ks'.api = ks.api /\ ks'.tripped = ks.tripped /\ ~Fire
            /\ UNCHANGED <<troubled, since, row>>
            /\ cyc'.stage = "idle" \/ UNCHANGED <<cyc, wk>>
            /\ proc' = "down" => cyc'.stage = "idle" \/ proc = "down"
<1>0. ks \in Switch /\ NoCycle.stage = "idle"
  BY DEF Core, TypeOK, NoCycle
<1>1. CASE Fire
  BY <1>1 DEF Fire, process
<1>2. CASE ~Fire /\ (Reflect \/ ReflectAnswer \/ Signal \/ Halt \/ UNCHANGED vars)
  <2>1. UNCHANGED <<troubled, since, row, cyc, wk>>
    BY <1>2 DEF Reflect, ReflectAnswer, Signal, Halt, vars, process, db, pool
  <2>2. ks'.api = ks.api /\ ks'.tripped = ks.tripped
    BY <1>0, <1>2 DEF Reflect, ReflectAnswer, Signal, Halt, vars, NoteAnswer, Switch
  <2>3. proc' = "down" => proc = "down"
    BY <1>2 DEF Reflect, ReflectAnswer, Signal, Halt, vars, process
  <2>. QED
    BY <1>2, <2>1, <2>2, <2>3
<1>3. CASE ~Fire /\ (Exit \/ Crash)
  BY <1>0, <1>3 DEF Exit, Crash, Gone, db
<1>. QED
  BY <1>1, <1>2, <1>3 DEF Next

LEMMA PassedStep == Core /\ Passed /\ [Next]_vars => Passed'
<1>. SUFFICES ASSUME Core, Passed, [Next]_vars PROVE Passed'
  OBVIOUS
<1>0. /\ TypeOK /\ Numbered /\ UnderWay /\ wk \in Workers /\ cyc \in CycleState /\ ks \in Switch
      /\ Opened \subseteq Opened' /\ Last \in Int
  BY OpenedStep, Limits DEF Core, Numbered, TypeOK
<1>1. ASSUME NEW s \in Picks, WorkerStep(s) PROVE Passed'
  <2>1. /\ cyc' = cyc /\ cyc.stage = "pool" /\ Last' = Last /\ cyc.id \in Opened
        /\ ks'.api = ks.api /\ ks'.tripped = ks.tripped /\ proc' = proc /\ proc # "down"
    <3>1. ~Fire
      BY <1>0, <1>1, WorkerStays DEF Fire
    <3>. QED
      BY <1>0, <1>1, <3>1, WorkerStays, WorkerSwitch, LastStep DEF UnderWay
  <2>2. CASE troubled' = troubled /\ wk[s].at # "raised"
    <3>1. \A r \in Picks : wk[r].at = "raised" => wk'[r].at = "raised"
      BY <1>1, <2>2, WorkerLogs
    <3>. QED
      BY <1>0, <2>1, <2>2, <3>1 DEF Passed
  <2>3. CASE troubled' = troubled \cup {cyc.id} /\ wk'[s].at = "raised"
    BY <1>0, <2>1, <2>3 DEF Passed
  <2>. QED
    BY <1>1, <2>2, <2>3, WorkerSwitch
<1>2. ASSUME CycleStep PROVE Passed'
  <2>0. cyc.stage # "idle" /\ ~Fire /\ cyc.id \in Opened
    <3>1. cyc.stage # "idle"
      BY <1>2 DEF CycleStep, Reconcile, ReconcileFails, Trip, Discover, DiscoverNone,
            DiscoverFails, CoarseFilter, CoarseFilterNone, CoarseFilterRaises, Triage,
            TriageAborts, TriageRaises, Submit, SubmitRaises, Collect, Close, InCycle
    <3>. QED
      BY <1>0, <3>1 DEF Fire, UnderWay
  <2>1. troubled' \subseteq Opened' /\ Last' = Last
        /\ proc' = proc /\ proc # "down"
    BY <1>0, <1>2, <2>0, CycleSwitch, LastStep DEF Passed
  <2>2. CASE cyc'.stage = "idle"
    BY <2>1, <2>2 DEF Passed
  <2>3. CASE cyc'.stage # "idle"
    <3>1. ks'.api = ks.api /\ ks'.tripped = ks.tripped /\ troubled' = troubled
      BY <1>2, <2>3, CycleSwitch
    <3>2. cyc'.id = cyc.id
      <4>1. ~Ends /\ ~Gone
        BY <2>3 DEF Ends, CloseAs, Leave, Gone, NoCycle
      <4>. QED
        BY <1>0, <2>0, <4>1, Kinds DEF Stays
    <3>3. cyc'.errors \/ (cyc'.errors = cyc.errors /\ (cyc.stage # "pool" \/ wk' = wk))
      <4>1. ASSUME NEW s \in Picks, Collect(s) PROVE cyc'.errors
        BY <1>0, <4>1 DEF Collect, CycleState
      <4>2. CASE Reconcile \/ Discover \/ CoarseFilter \/ CoarseFilterRaises \/ Submit \/ Triage
        BY <1>0, <4>2 DEF Reconcile, Discover, CoarseFilter, CoarseFilterRaises, Submit,
              Triage, InCycle, CycleState
      <4>3. cyc' # NoCycle
        BY <2>3 DEF NoCycle
      <4>4. ~(ReconcileFails \/ DiscoverFails \/ DiscoverNone \/ CoarseFilterNone
              \/ TriageAborts \/ TriageRaises \/ SubmitRaises \/ Close)
            /\ ~\E poor \in BOOLEAN : Trip(poor)
        BY <4>3 DEF ReconcileFails, DiscoverFails, DiscoverNone, CoarseFilterNone,
              TriageAborts, TriageRaises, SubmitRaises, Close, Trip, Fail, NothingToDo,
              CloseAs, Leave
      <4>. QED
        BY <1>2, <4>1, <4>2, <4>4 DEF CycleStep
    <3>4. cyc.stage # "pool" => \A s \in Picks : wk[s].at # "raised"
      BY DEF Core, Pooled, NoWorker
    <3>5. cyc.stage = "reconcile" => ks.api < MaxApiCycles
      <4>1. cyc.stage = "reconcile" => Reconcile
        <5>1. cyc' # NoCycle
          BY <2>3 DEF NoCycle
        <5>2. ~ReconcileFails /\ ~\E poor \in BOOLEAN : Trip(poor)
          BY <5>1 DEF ReconcileFails, Trip, Fail, CloseAs, Leave
        <5>. QED
          BY <1>2, <5>2 DEF CycleStep, Discover, DiscoverNone, DiscoverFails, CoarseFilter,
                CoarseFilterNone, CoarseFilterRaises, Triage, TriageAborts, TriageRaises,
                Submit, SubmitRaises, Collect, Close, InCycle
      <4>. QED
        BY <1>0, <4>1, Limits DEF Reconcile, Reason, Switch
    <3>. QED
      BY <2>0, <2>1, <3>1, <3>2, <3>3, <3>4, <3>5 DEF Passed
  <2>. QED
    BY <2>2, <2>3
<1>3. ASSUME Start PROVE Passed'
  <2>1. cyc'.stage = "idle" /\ UNCHANGED troubled
    BY <1>3 DEF Start, Passed
  <2>. QED
    BY <1>0, <2>1 DEF Passed
<1>4. ASSUME Fire, ~ks.tripped, proc # "down", UNCHANGED <<ks, troubled, since, proc>>
      PROVE Passed'
  <2>1. /\ cyc'.stage = "reconcile" /\ cyc'.id = Last' /\ Last' \notin Opened
        /\ Last' = Last + 1
    BY <1>0, <1>4, FiredIs, LastStep DEF Opened
  <2>. QED
    BY <1>0, <1>4, <2>1 DEF Passed
<1>5. ASSUME ks'.api = ks.api, ks'.tripped = ks.tripped, ~Fire,
             UNCHANGED <<troubled, since, row>>,
             cyc'.stage = "idle" \/ UNCHANGED <<cyc, wk>>,
             proc' = "down" => cyc'.stage = "idle" \/ proc = "down"
      PROVE Passed'
  <2>1. Last' = Last
    BY <1>5, LastStep
  <2>. QED
    BY <1>0, <1>5, <2>1 DEF Passed
<1>. QED
  BY <1>1, <1>2, <1>3, <1>4, <1>5, SwitchSteps

LEMMA EndedFinite ==
  ASSUME Core, NEW c \in Int
  PROVE  IsFiniteSet(EndedSince(c)) /\ Cardinality(EndedSince(c)) \in Nat
<1>1. IsFiniteSet(c..Last)
  BY Limits, FS_Interval DEF Core, Numbered
<1>2. EndedSince(c) \subseteq c..Last
  BY DEF EndedSince
<1>. QED
  BY <1>1, <1>2, FS_Subset, FS_CardinalityType

LEMMA CountedStep == Core /\ Passed /\ Counted /\ [Next]_vars => Counted'
<1>. SUFFICES ASSUME Core, Passed, Counted, [Next]_vars, ~ks'.tripped,
                     NEW c \in since'..Last', EndedSince(c)' \subseteq troubled'
              PROVE  Cardinality(EndedSince(c)') <= ks'.api
  BY DEF Counted
<1>0. /\ TypeOK /\ Numbered /\ UnderWay /\ row \in Rows /\ ks \in Switch /\ Last \in Int
      /\ since \in 1..MaxCycles + 1 /\ MaxCycles \in Int /\ Opened = 1..Last /\ Core'
      /\ Last' \in Int /\ Last \in 0..MaxCycles
  BY CoreStep, Limits DEF Core, Numbered, TypeOK
<1>1. ASSUME since' = since, ks'.tripped = ks.tripped, ks'.api = ks.api, Last' = Last,
             EndedSince(c)' = EndedSince(c),
             EndedSince(c) \cap troubled' \subseteq troubled
      PROVE  Cardinality(EndedSince(c)') <= ks'.api
  BY <1>1 DEF Counted
<1>2. ASSUME NEW s \in Picks, WorkerStep(s)
      PROVE  Cardinality(EndedSince(c)') <= ks'.api
  <2>1. /\ cyc.stage = "pool" /\ row' = row /\ ks'.api = ks.api /\ ks'.tripped = ks.tripped
        /\ since' = since /\ troubled' \subseteq troubled \cup {cyc.id}
    BY <1>0, <1>2, WorkerStays, WorkerSwitch DEF Stays
  <2>2. Last' = Last
    BY <2>1, LastStep DEF Fire
  <2>3. EndedSince(c)' = EndedSince(c) /\ cyc.id \notin EndedSince(c)
    BY <1>0, <2>1, <2>2 DEF EndedSince, Ended, UnderWay, CloseStatus
  <2>. QED
    BY <1>1, <2>1, <2>2, <2>3
<1>3. ASSUME CycleStep PROVE Cardinality(EndedSince(c)') <= ks'.api
  <2>0. cyc.stage # "idle" /\ cyc.id = Last /\ row[cyc.id] = "running" /\ cyc.id \in Cycles
        /\ ~ks.tripped /\ since' = since
    <3>1. cyc.stage # "idle"
      BY <1>3 DEF CycleStep, Reconcile, ReconcileFails, Trip, Discover, DiscoverNone,
            DiscoverFails, CoarseFilter, CoarseFilterNone, CoarseFilterRaises, Triage,
            TriageAborts, TriageRaises, Submit, SubmitRaises, Collect, Close, InCycle
    <3>. QED
      BY <1>0, <1>3, <3>1, CycleSwitch DEF Passed, UnderWay, Opened
  <2>1. Last' = Last
    BY <2>0, LastStep DEF Fire
  <2>2. CASE row' = row /\ ks'.api = ks.api /\ ks'.tripped = ks.tripped /\ troubled' = troubled
    <3>1. EndedSince(c)' = EndedSince(c)
      BY <2>1, <2>2 DEF EndedSince, Ended
    <3>. QED
      BY <1>1, <2>0, <2>1, <2>2, <3>1
  <2>3. ASSUME NEW status \in CloseStatus, row' = [row EXCEPT ![cyc.id] = status]
        PROVE  EndedSince(c)' = EndedSince(c) \cup {Last} /\ Last \notin EndedSince(c)
    <3>1. c <= Last /\ c \in Int /\ c >= 1
      BY <1>0, <2>0, <2>1
    <3>2. c..Last \subseteq Cycles
      BY <1>0, <3>1 DEF Cycles
    <3>3. \A d \in c..Last : row'[d] \in CloseStatus <=> d = Last \/ row[d] \in CloseStatus
      BY <1>0, <2>0, <2>3, <3>2 DEF Rows
    <3>4. Last \notin EndedSince(c)
      BY <2>0 DEF EndedSince, Ended, CloseStatus
    <3>. QED
      BY <2>1, <3>1, <3>3, <3>4, <1>0 DEF EndedSince, Ended
  <2>4. ASSUME NEW status \in CloseStatus, row' = [row EXCEPT ![cyc.id] = status],
               ks'.api = ks.api + 1, troubled' \subseteq troubled \cup {cyc.id}
        PROVE  Cardinality(EndedSince(c)') <= ks'.api
    <3>1. EndedSince(c) \subseteq troubled /\ EndedSince(c)' = EndedSince(c) \cup {Last}
          /\ Last \notin EndedSince(c)
      BY <2>0, <2>3, <2>4
    <3>2. Cardinality(EndedSince(c)) <= ks.api
      BY <2>0, <2>1, <3>1 DEF Counted
    <3>3. IsFiniteSet(EndedSince(c)) /\ Cardinality(EndedSince(c)) \in Nat
      BY <1>0, EndedFinite
    <3>4. Cardinality(EndedSince(c) \cup {Last}) = Cardinality(EndedSince(c)) + 1
      BY <3>1, <3>3, FS_AddElement
    <3>. QED
      BY <1>0, <2>4, <3>1, <3>2, <3>3, <3>4 DEF Switch
  <2>5. ASSUME NEW status \in CloseStatus, row' = [row EXCEPT ![cyc.id] = status],
               ~cyc.errors, \A s \in Picks : wk[s].at # "raised", troubled' = troubled
        PROVE  FALSE
    <3>1. Last \in troubled
      BY <2>3, <2>5
    <3>. QED
      BY <2>0, <2>5, <3>1 DEF Passed
  <2>. QED
    BY <1>3, <2>2, <2>4, <2>5, CycleSwitch
<1>4. ASSUME Start PROVE Cardinality(EndedSince(c)') <= ks'.api
  <2>1. since' = Last + 1 /\ ~Fire
    BY <1>4 DEF Start, Fire
  <2>. QED
    BY <1>0, <2>1, LastStep
<1>5. ASSUME Fire, ~ks.tripped, UNCHANGED <<ks, troubled, since>>
      PROVE  Cardinality(EndedSince(c)') <= ks'.api
  <2>1. /\ Last' = Last + 1 /\ row' = [row EXCEPT ![Last + 1] = "running"]
        /\ row[Last + 1] = "none" /\ Last + 1 \in Cycles
    BY <1>0, <1>5, FiredIs, LastStep
  <2>2. CASE c = Last + 1
    <3>1. EndedSince(c)' = {}
      BY <1>0, <2>1, <2>2 DEF EndedSince, Ended, Rows, CloseStatus
    <3>. QED
      BY <1>0, <1>5, <3>1, FS_EmptySet DEF Switch
  <2>3. CASE c \in since..Last
    <3>1. \A d \in c..Last + 1 : row'[d] \in CloseStatus <=> d # Last + 1 /\ row[d] \in CloseStatus
      <4>1. c..Last + 1 \subseteq Cycles
        BY <1>0, <2>1, <2>3 DEF Cycles
      <4>. QED
        BY <1>0, <2>1, <4>1 DEF Rows, CloseStatus
    <3>2. EndedSince(c)' = EndedSince(c)
      BY <1>0, <2>1, <2>3, <3>1 DEF EndedSince, Ended
    <3>. QED
      BY <1>5, <2>3, <3>2 DEF Counted
  <2>. QED
    BY <1>0, <1>5, <2>1, <2>2, <2>3
<1>6. ASSUME ks'.api = ks.api, ks'.tripped = ks.tripped, ~Fire,
             UNCHANGED <<troubled, since, row>>
      PROVE  Cardinality(EndedSince(c)') <= ks'.api
  <2>1. Last' = Last /\ EndedSince(c)' = EndedSince(c)
    BY <1>6, LastStep DEF EndedSince, Ended
  <2>. QED
    BY <1>1, <1>6, <2>1
<1>. QED
  BY <1>2, <1>3, <1>4, <1>5, <1>6, SwitchSteps

LEMMA PassedInit == Init => Passed /\ Counted
<1>. SUFFICES ASSUME Init PROVE Passed /\ Counted
  OBVIOUS
<1>1. Last = 0 /\ Opened = {}
  BY NumberedInit, FS_EmptySet DEF Init, Opened, Last
<1>. QED
  BY <1>1 DEF Init, Passed, Counted, NoCycle, NoErrors

\* After MaxApiCycles cycles in a row with errors in one process, no cycle gets past the
\* killswitch, however errors, retries and signals fall among the cycles.
THEOREM RepeatedFailuresHalt == Spec => []FailuresHalt
<1>1. ASSUME Core, Passed, Counted PROVE FailuresHalt
  <2>. SUFFICES ASSUME cyc.stage \notin {"idle", "reconcile"}, NEW c \in since..cyc.id - 1,
                       Cardinality({d \in c..cyc.id - 1 : Ended(d)}) >= MaxApiCycles
                PROVE  \E d \in c..cyc.id - 1 : Ended(d) /\ d \notin troubled
    BY DEF FailuresHalt
  <2>1. /\ cyc.id = Last /\ ks.api < MaxApiCycles /\ ~ks.tripped /\ ~Ended(Last)
        /\ Last \in Int /\ since \in Int /\ ks.api \in Nat /\ MaxApiCycles \in Nat
    BY <1>1, Limits DEF Core, Passed, UnderWay, Ended, CloseStatus, Numbered, TypeOK, Switch
  <2>2. {d \in c..cyc.id - 1 : Ended(d)} = EndedSince(c)
    BY <2>1 DEF EndedSince
  <2>3. Cardinality(EndedSince(c)) \in Nat
    BY <1>1, <2>1, EndedFinite
  <2>4. Cardinality(EndedSince(c)) >= MaxApiCycles
    BY <2>2
  <2>5. c \in since..Last
    BY <2>1
  <2>6. ~(EndedSince(c) \subseteq troubled)
    BY <1>1, <2>1, <2>3, <2>4, <2>5 DEF Counted
  <2>. QED
    BY <2>2, <2>6
<1>. QED
  BY <1>1, CoreInit, CoreStep, PassedInit, PassedStep, CountedStep, PTL DEF Spec

\* A process that tripped orders nothing more and opens no cycle.
THEOREM TrippedForGood == Spec => TrippedIsFinal
<1>1. ASSUME Core, Passed, [Next]_vars
      PROVE  [ks.tripped /\ ks'.tripped => orders' = orders /\ Opened' = Opened]_vars
  <2>. SUFFICES ASSUME ks.tripped PROVE orders' = orders /\ Opened' = Opened
    OBVIOUS
  <2>1. cyc.stage = "idle"
    BY <1>1 DEF Passed
  <2>2. ~Fire /\ \A s \in Picks : ~Post(s)
    BY <2>1 DEF Fire, Post, Worker, InCycle
  <2>. QED
    BY <1>1, <2>2, OpenedStep, OrdersFrom DEF Core
<1>. QED
  BY <1>1, CoreInit, CoreStep, PassedInit, PassedStep, PTL DEF Spec, TrippedIsFinal
=============================================================================
