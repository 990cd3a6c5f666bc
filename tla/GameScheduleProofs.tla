------------------------- MODULE GameScheduleProofs -------------------------
(***************************************************************************)
(* What holds of GameSchedule for any games, tip-off times, lengths of     *)
(* grace and number of crashes and failed calls.                           *)
(***************************************************************************)
EXTENDS GameSchedule, TLAPS

\* A job is queued for g, or an evaluation of it is under way.
Queued(g) ==
    \/ \E n \in 0 .. MaxRetries : <<g, n>> \in DOMAIN jobs
    \/ \E e \in evals : e.game = g

\* What a mark of g may stand for.
Judged(g) == g \in decided \/ Queued(g) \/ g \in noticed \/ crashes > 0

\* Every mark, saved or in the hands of a setup, stands for one of these, and an
\* evaluation marks what it has decided.
Marks ==
    /\ \A g \in DOMAIN saved : saved[g] => Judged(g)
    /\ \A p \in Setups :
        /\ \A g \in DOMAIN setup[p].old : setup[p].old[g] => Judged(g)
        /\ \A g \in DOMAIN setup[p].new : setup[p].new[g] => Judged(g)
    /\ \A e \in evals : e.stage = "marking" => e.game \in decided

-----------------------------------------------------------------------------
(* Operators.                                                              *)

LEMMA ScheduleIs ==
  ASSUME NEW f
  PROVE  f \in Schedules <=> DOMAIN f \subseteq Games /\ f \in [DOMAIN f -> BOOLEAN]
<1>1. f \in Schedules => DOMAIN f \subseteq Games /\ f \in [DOMAIN f -> BOOLEAN]
  <2>. SUFFICES ASSUME f \in Schedules
                PROVE DOMAIN f \subseteq Games /\ f \in [DOMAIN f -> BOOLEAN]
    OBVIOUS
  <2>1. PICK S \in SUBSET Games : f \in [S -> BOOLEAN]
    BY DEF Schedules
  <2>. QED
    BY <2>1
<1>2. DOMAIN f \subseteq Games /\ f \in [DOMAIN f -> BOOLEAN] => f \in Schedules
  BY DEF Schedules
<1>. QED
  BY <1>1, <1>2

LEMMA PutIs ==
  ASSUME NEW f \in Schedules, NEW g \in Games, NEW v \in BOOLEAN
  PROVE  Put(f, g, v) \in Schedules
<1>. DEFINE h == Put(f, g, v)
<1>1. DOMAIN f \subseteq Games /\ f \in [DOMAIN f -> BOOLEAN]
  BY ScheduleIs
<1>2. DOMAIN h = DOMAIN f \cup {g}
  BY DEF Put
<1>3. \A x \in DOMAIN h : h[x] = IF x = g THEN v ELSE f[x]
  BY DEF Put
<1>4. h \in [DOMAIN h -> BOOLEAN]
  BY <1>1, <1>2 DEF Put
<1>. QED
  BY <1>1, <1>2, <1>4, ScheduleIs

LEMMA NoneIs == None \in Schedules
<1>1. DOMAIN None = {} /\ None \in [{} -> BOOLEAN]
  BY DEF None
<1>. QED
  BY <1>1, ScheduleIs

LEMMA ReplacedIs ==
  ASSUME TypeOK, NEW f \in Schedules
  PROVE  Replaced(f) \in Schedules
<1>1. DOMAIN f \subseteq Games /\ f \in [DOMAIN f -> BOOLEAN]
  BY ScheduleIs
<1>2. DOMAIN Replaced(f) = DOMAIN f /\ Replaced(f) \in [DOMAIN f -> BOOLEAN]
  BY <1>1 DEF Replaced
<1>. QED
  BY <1>1, <1>2, ScheduleIs

LEMMA DayIsNat == ASSUME NEW t \in Nat PROVE DayOf(t) \in Nat
  BY ScheduleAssumption DEF DayOf

LEMMA NextRollIs == ASSUME TypeOK PROVE NextRoll \in Int
<1>1. now \in Nat /\ DayOf(now) \in Nat /\ Day \in Nat /\ RollAt \in Nat
  BY ScheduleAssumption, DayIsNat DEF TypeOK
<1>2. DayOf(now) * Day \in Nat /\ (DayOf(now) + 1) * Day \in Nat
  BY <1>1
<1>. QED
  BY <1>1, <1>2 DEF NextRoll

JobsOK(q) == DOMAIN q \subseteq JobIds /\ q \in [DOMAIN q -> Int]

LEMMA PutJob ==
  ASSUME NEW q, JobsOK(q), NEW id \in JobIds, NEW t \in Int
  PROVE  JobsOK(Put(q, id, t)) /\ DOMAIN Put(q, id, t) = DOMAIN q \cup {id}
  BY DEF JobsOK, Put

LEMMA WithoutJob ==
  ASSUME NEW q, JobsOK(q), NEW id
  PROVE  JobsOK(Without(q, id)) /\ DOMAIN Without(q, id) = DOMAIN q \ {id}
  BY DEF JobsOK, Without

LEMMA JobIdIs ==
  /\ \A g \in Games, n \in 0 .. MaxRetries : <<g, n>> \in JobIds
  /\ <<Roll, 0>> \in JobIds /\ <<Again, 0>> \in JobIds
  /\ \A p \in {Roll, Again} : <<p, 0>> \in JobIds
  /\ 0 \in 0 .. MaxRetries
  BY ScheduleAssumption DEF JobIds

LEMMA TakenJob ==
  ASSUME TypeOK, NEW id \in JobIds, id \in DOMAIN jobs
  PROVE  JobsOK(Taken(id)) /\ DOMAIN jobs \ {id} \subseteq DOMAIN Taken(id)
<1>1. JobsOK(jobs)
  BY DEF TypeOK, JobsOK
<1>2. CASE id[1] = Roll
  <2>1. NextRoll \in Int /\ Taken(id) = Put(jobs, id, NextRoll)
    BY <1>2, NextRollIs DEF Taken
  <2>2. JobsOK(Put(jobs, id, NextRoll)) /\ DOMAIN Put(jobs, id, NextRoll) = DOMAIN jobs \cup {id}
    BY <1>1, <2>1, PutJob
  <2>. QED
    BY <2>1, <2>2
<1>3. CASE id[1] # Roll
  BY <1>1, <1>3, WithoutJob DEF Taken
<1>. QED
  BY <1>2, <1>3

LEMMA IdleIs == Idle \in SetupState
  BY NoneIs DEF Idle, SetupState

LEMMA BegunIs == ASSUME TypeOK PROVE Begun \in SetupState
<1>1. now \in Nat /\ saved \in Schedules
  BY DEF TypeOK
<1>2. {g \in DOMAIN saved : ~saved[g]} \subseteq Games
  BY <1>1, ScheduleIs
<1>. QED
  BY <1>1, <1>2, NoneIs DEF Begun, Idle, SetupState

LEMMA SetupIs ==
  ASSUME TypeOK, NEW p \in Setups
  PROVE  /\ setup[p] \in SetupState
         /\ \A s \in SetupState : [setup EXCEPT ![p] = s] \in [Setups -> SetupState]
         /\ \A step \in {"idle", "recover", "fetch", "markets", "plan"} :
                [setup[p] EXCEPT !.step = step] \in SetupState
         /\ \A todo \in SUBSET Games : [setup[p] EXCEPT !.todo = todo] \in SetupState
         /\ \A new \in Schedules : [setup[p] EXCEPT !.new = new] \in SetupState
  BY DEF TypeOK, SetupState

LEMMA FinishIs ==
  ASSUME TypeOK, NEW p \in Setups, NEW q, JobsOK(q), Finish(p, q)
  PROVE  setup' \in [Setups -> SetupState] /\ JobsOK(jobs') /\ DOMAIN q \subseteq DOMAIN jobs'
<1>1. setup' \in [Setups -> SetupState]
  BY IdleIs, SetupIs DEF Finish
<1>2. CASE p = Main
  <2>1. NextRoll \in Int /\ <<Roll, 0>> \in JobIds
    BY NextRollIs, JobIdIs
  <2>2. jobs' = Put(q, <<Roll, 0>>, NextRoll)
    BY <1>2 DEF Finish
  <2>3. JobsOK(Put(q, <<Roll, 0>>, NextRoll))
        /\ DOMAIN Put(q, <<Roll, 0>>, NextRoll) = DOMAIN q \cup {<<Roll, 0>>}
    BY <2>1, PutJob
  <2>. QED
    BY <1>1, <2>2, <2>3
<1>3. CASE p # Main
  BY <1>1, <1>3 DEF Finish
<1>. QED
  BY <1>2, <1>3

LEMMA SaveIs ==
  ASSUME TypeOK, NEW p \in Setups, NEW f \in Schedules, Save(p, f)
  PROVE  /\ date' \in Nat \cup {-1} /\ saved' \in Schedules
         /\ marked' \subseteq Games /\ lost' \subseteq Games
<1>1. setup[p].at \in Nat /\ DOMAIN f \subseteq Games
  BY SetupIs, ScheduleIs DEF SetupState
<1>2. date' \in Nat \cup {-1} /\ saved' \in Schedules
  BY <1>1, DayIsNat, ReplacedIs DEF Save
<1>3. marked' \subseteq Games /\ lost' \subseteq Games
  BY <1>1 DEF Save, TypeOK
<1>. QED
  BY <1>2, <1>3

LEMMA ShowIs ==
  ASSUME TypeOK, NEW p \in Setups, NEW S \in SUBSET Games, Show(p, S)
  PROVE  shown' \subseteq Nat \X SUBSET Games
<1>1. DayOf(setup[p].at) \in Nat
  BY SetupIs, DayIsNat DEF SetupState
<1>. QED
  BY <1>1 DEF Show, TypeOK

LEMMA BeginIs ==
  ASSUME TypeOK, NEW p \in Setups, Begin(p)
  PROVE  setup' \in [Setups -> SetupState] /\ marked' \subseteq Games /\ lost' \subseteq Games
<1>1. setup' \in [Setups -> SetupState]
  BY BegunIs, SetupIs DEF Begin
<1>2. marked' \subseteq Games /\ lost' \subseteq Games
  BY DEF Begin, TypeOK
<1>. QED
  BY <1>1, <1>2

LEMMA EvaluationIs ==
  ASSUME TypeOK, NEW g \in Games, NEW n \in 0 .. MaxRetries, NEW p \in Setups \cup {Pool}
  PROVE  evals \cup {Evaluation(g, n, p)} \subseteq
            [game: Games, attempt: 0 .. MaxRetries, by: Setups \cup {Pool},
             stage: {"judging", "marking"}]
<1>1. Evaluation(g, n, p) \in [game: Games, attempt: 0 .. MaxRetries, by: Setups \cup {Pool},
                                stage: {"judging", "marking"}]
  BY DEF Evaluation
<1>. QED
  BY <1>1 DEF TypeOK

LEMMA RegisterIs ==
  ASSUME TypeOK, NEW g \in Games, Register(g)
  PROVE  JobsOK(jobs') /\ DOMAIN jobs \subseteq DOMAIN jobs' /\ <<g, 0>> \in DOMAIN jobs'
<1>1. JobsOK(jobs) /\ <<g, 0>> \in JobIds /\ Trigger(g) \in Int
  BY ScheduleAssumption, JobIdIs DEF TypeOK, JobsOK, Trigger
<1>2. JobsOK(Put(jobs, <<g, 0>>, Trigger(g)))
      /\ DOMAIN Put(jobs, <<g, 0>>, Trigger(g)) = DOMAIN jobs \cup {<<g, 0>>}
  BY <1>1, PutJob
<1>. QED
  BY <1>2 DEF Register

\* What a game's evaluation leaves of the setup that waits for it.
LEMMA ReturnIs ==
  ASSUME TypeOK, NEW e \in evals, Return(e)
  PROVE  setup' \in [Setups -> SetupState] /\ evals' \subseteq evals
<1>1. e.game \in Games /\ evals' \subseteq evals
  BY DEF TypeOK, Return
<1>2. CASE e.by \in Setups /\ setup[e.by].step = "plan"
  <2>1. setup[e.by].new \in Schedules
    BY <1>2, SetupIs DEF SetupState
  <2>2. Put(setup[e.by].new, e.game, TRUE) \in Schedules
    BY <1>1, <2>1, PutIs
  <2>3. setup' = [setup EXCEPT ![e.by] = [setup[e.by] EXCEPT !.new = Put(setup[e.by].new, e.game, TRUE)]]
    BY <1>2 DEF Return
  <2>. QED
    BY <1>1, <1>2, <2>2, <2>3, SetupIs
<1>3. CASE ~(e.by \in Setups /\ setup[e.by].step = "plan")
  BY <1>1, <1>3 DEF Return, TypeOK
<1>. QED
  BY <1>2, <1>3

-----------------------------------------------------------------------------
(* Types.                                                                  *)

LEMMA TypeInit == Init => TypeOK
<1>. SUFFICES ASSUME Init PROVE TypeOK
  OBVIOUS
<1>1. now \in Nat
  BY ScheduleAssumption DEF Init
<1>2. saved \in Schedules /\ setup \in [Setups -> SetupState]
  BY NoneIs, IdleIs DEF Init
<1>3. DOMAIN jobs \subseteq JobIds /\ jobs \in [DOMAIN jobs -> Int]
  BY DEF Init
<1>. QED
  BY <1>1, <1>2, <1>3 DEF Init, TypeOK

LEMMA TypeSetup == ASSUME TypeOK, NEW p \in Setups, SetupStep(p) PROVE TypeOK'
<1>. USE DEF history, store, told, marks, listings
<1>1. setup[p] \in SetupState /\ JobsOK(jobs)
  BY SetupIs DEF TypeOK, JobsOK
<1>2. ASSUME FetchFails(p) PROVE TypeOK'
  <2>0. setup[p].at + SetupDelay \in Int /\ <<Again, 0>> \in JobIds
    BY <1>1, ScheduleAssumption, JobIdIs DEF SetupState
  <2>1. JobsOK(Put(jobs, <<Again, 0>>, setup[p].at + SetupDelay))
    BY <1>1, <2>0, PutJob
  <2>2. setup' \in [Setups -> SetupState] /\ JobsOK(jobs')
    BY <1>2, <2>1, FinishIs DEF FetchFails
  <2>. QED
    BY <1>2, <2>2 DEF FetchFails, TypeOK, JobsOK
<1>3. ASSUME FetchNoGames(p) PROVE TypeOK'
  <2>1. /\ date' \in Nat \cup {-1} /\ saved' \in Schedules
        /\ marked' \subseteq Games /\ lost' \subseteq Games
    BY <1>3, NoneIs, SaveIs DEF FetchNoGames
  <2>3. shown' \subseteq Nat \X SUBSET Games
    BY <1>3, ShowIs DEF FetchNoGames
  <2>2. setup' \in [Setups -> SetupState] /\ JobsOK(jobs')
    BY <1>1, <1>3, FinishIs DEF FetchNoGames
  <2>. QED
    BY <1>3, <2>1, <2>2, <2>3 DEF FetchNoGames, TypeOK, JobsOK
<1>4. ASSUME Fetch(p) PROVE TypeOK'
  <2>1. [setup[p] EXCEPT !.step = "markets", !.todo = Listed] \in SetupState
    BY <1>1 DEF Listed, SetupState
  <2>2. setup' \in [Setups -> SetupState]
    BY <1>4, <2>1, SetupIs DEF Fetch
  <2>. QED
    BY <1>4, <2>2 DEF Fetch, TypeOK
<1>5. ASSUME Markets(p) PROVE TypeOK'
  <2>1. /\ [setup[p] EXCEPT !.step = "plan"] \in SetupState
        /\ [setup[p] EXCEPT !.step = "plan", !.todo = {}] \in SetupState
    BY <1>1 DEF SetupState
  <2>2. setup' \in [Setups -> SetupState]
    BY <1>5, <2>1, SetupIs DEF Markets
  <2>3. shown' \subseteq Nat \X SUBSET Games
    BY <1>1, <1>5, ShowIs DEF Markets, SetupState
  <2>. QED
    BY <1>5, <2>2, <2>3 DEF Markets, TypeOK
<1>6. ASSUME NEW g \in Games, Recover(p, g) PROVE TypeOK'
  <2>1. setup[p].todo \ {g} \in SUBSET Games
    BY <1>1 DEF SetupState
  <2>2. setup' \in [Setups -> SetupState]
    BY <1>6, <2>1, SetupIs DEF Recover
  <2>3. JobsOK(jobs')
    BY <1>1, <1>6, RegisterIs DEF Recover
  <2>4. evals' \subseteq [game: Games, attempt: 0 .. MaxRetries, by: Setups \cup {Pool},
                          stage: {"judging", "marking"}]
    <3>1. CASE UNCHANGED evals
      BY <3>1 DEF TypeOK
    <3>2. CASE evals' = evals \cup {Evaluation(g, 0, p)}
      BY <3>2, JobIdIs, EvaluationIs
    <3>. QED
      BY <1>6, <3>1, <3>2 DEF Recover
  <2>. QED
    BY <1>6, <2>2, <2>3, <2>4 DEF Recover, TypeOK, JobsOK
<1>7. ASSUME NEW g \in Games, Plan(p, g) PROVE TypeOK'
  <2>. DEFINE mark == CarriedMark(p, g)
              sched == Put(setup[p].new, g, mark)
  <2>1. mark \in BOOLEAN /\ sched \in Schedules
    BY <1>1, PutIs, ScheduleIs DEF CarriedMark, SetupState
  <2>2. [setup[p] EXCEPT !.todo = setup[p].todo \ {g}, !.new = sched] \in SetupState
    BY <1>1, <2>1 DEF SetupState
  <2>3. setup' \in [Setups -> SetupState]
    BY <1>7, <2>2, SetupIs DEF Plan
  <2>4. JobsOK(jobs')
    BY <1>1, <1>7, RegisterIs DEF Plan
  <2>5. /\ date' \in Nat \cup {-1} /\ saved' \in Schedules
        /\ marked' \subseteq Games /\ lost' \subseteq Games
    BY <1>7, <2>1, SaveIs DEF Plan, TypeOK
  <2>6. evals' \subseteq [game: Games, attempt: 0 .. MaxRetries, by: Setups \cup {Pool},
                          stage: {"judging", "marking"}]
    <3>1. CASE UNCHANGED evals
      BY <3>1 DEF TypeOK
    <3>2. CASE evals' = evals \cup {Evaluation(g, 0, p)}
      BY <3>2, JobIdIs, EvaluationIs
    <3>. QED
      BY <1>7, <3>1, <3>2 DEF Plan
  <2>. QED
    BY <1>7, <2>3, <2>4, <2>5, <2>6 DEF Plan, TypeOK, JobsOK
<1>8. ASSUME RecoverDone(p) PROVE TypeOK'
  <2>1. setup' \in [Setups -> SetupState] /\ JobsOK(jobs')
    BY <1>1, <1>8, FinishIs DEF RecoverDone
  <2>. QED
    BY <1>8, <2>1 DEF RecoverDone, TypeOK, JobsOK
<1>9. ASSUME PlanDone(p) PROVE TypeOK'
  <2>1. setup[p].new \in Schedules
    BY <1>1 DEF SetupState
  <2>2. /\ date' \in Nat \cup {-1} /\ saved' \in Schedules
        /\ marked' \subseteq Games /\ lost' \subseteq Games
    BY <1>9, <2>1, SaveIs DEF PlanDone
  <2>3. setup' \in [Setups -> SetupState] /\ JobsOK(jobs')
    BY <1>1, <1>9, FinishIs DEF PlanDone
  <2>. QED
    BY <1>9, <2>2, <2>3 DEF PlanDone, TypeOK, JobsOK
<1>. QED
  BY <1>2, <1>3, <1>4, <1>5, <1>6, <1>7, <1>8, <1>9 DEF SetupStep

LEMMA TypeJob == ASSUME TypeOK, JobStep PROVE TypeOK'
<1>. USE DEF history, store, told, marks, listings
<1>1. ASSUME NEW g \in Games, NEW n \in 0 .. MaxRetries, StartEvaluation(g, n) PROVE TypeOK'
  <2>1. JobsOK(jobs')
    BY <1>1, JobIdIs, TakenJob DEF StartEvaluation, Due
  <2>2. evals' \subseteq [game: Games, attempt: 0 .. MaxRetries, by: Setups \cup {Pool},
                          stage: {"judging", "marking"}]
    BY <1>1, EvaluationIs DEF StartEvaluation, TypeOK
  <2>. QED
    BY <1>1, <2>1, <2>2 DEF StartEvaluation, TypeOK, JobsOK
<1>2. ASSUME NEW p \in {Roll, Again}, StartSetup(p) PROVE TypeOK'
  <2>1. JobsOK(jobs')
    BY <1>2, JobIdIs, TakenJob DEF StartSetup, Due
  <2>2. setup' \in [Setups -> SetupState] /\ marked' \subseteq Games /\ lost' \subseteq Games
    BY <1>2, BeginIs DEF StartSetup, TypeOK, Setups
  <2>. QED
    BY <1>2, <2>1, <2>2 DEF StartSetup, TypeOK, JobsOK
<1>3. ASSUME NEW id \in JobIds, Miss(id) PROVE TypeOK'
  <2>1. JobsOK(jobs')
    BY <1>3, TakenJob DEF Miss, Due
  <2>2. id[1] \in Games \cup Setups
    BY DEF JobIds, Setups
  <2>. QED
    BY <1>3, <2>1, <2>2 DEF Miss, TypeOK, JobsOK
<1>. QED
  BY <1>1, <1>2, <1>3 DEF JobStep

LEMMA TypeEvaluation == ASSUME TypeOK, EvaluationStep PROVE TypeOK'
<1>. USE DEF history, store, told, marks, listings
<1>1. ASSUME NEW e \in evals, Judge(e) PROVE TypeOK'
  <2>1. e \in [game: Games, attempt: 0 .. MaxRetries, by: Setups \cup {Pool},
               stage: {"judging", "marking"}]
    BY DEF TypeOK
  <2>2. CASE Decide(e)
    <3>1. [e EXCEPT !.stage = "marking"] \in
              [game: Games, attempt: 0 .. MaxRetries, by: Setups \cup {Pool},
               stage: {"judging", "marking"}]
      BY <2>1
    <3>. QED
      BY <1>1, <2>1, <2>2, <3>1 DEF Judge, Decide, TypeOK
  <2>3. CASE ~Decide(e)
    <3>1. /\ CanRetry(e) /\ Return(e) /\ UNCHANGED decided
          /\ jobs' = Put(jobs, <<e.game, e.attempt + 1>>, now + RetryDelay)
      BY <1>1, <2>3 DEF Judge
    <3>2. e.attempt + 1 \in 0 .. MaxRetries
      BY <2>1, <3>1, ScheduleAssumption DEF CanRetry
    <3>3. JobsOK(jobs')
      <4>1. <<e.game, e.attempt + 1>> \in JobIds /\ now + RetryDelay \in Int
        BY <2>1, <3>2, JobIdIs, ScheduleAssumption DEF TypeOK
      <4>2. JobsOK(jobs)
        BY DEF TypeOK, JobsOK
      <4>. QED
        BY <3>1, <4>1, <4>2, PutJob
    <3>4. setup' \in [Setups -> SetupState] /\ evals' \subseteq evals
      BY <3>1, ReturnIs
    <3>. QED
      BY <1>1, <3>1, <3>3, <3>4 DEF Judge, TypeOK, JobsOK
  <2>. QED
    BY <2>2, <2>3
<1>2. ASSUME NEW e \in evals, Mark(e) PROVE TypeOK'
  <2>1. e.game \in Games
    BY DEF TypeOK
  <2>2. setup' \in [Setups -> SetupState] /\ evals' \subseteq evals
    BY <1>2, ReturnIs DEF Mark
  <2>3. saved' \in Schedules
    <3>1. CASE MarkRow(e.game)
      <4>1. DOMAIN saved \subseteq Games /\ saved \in [DOMAIN saved -> BOOLEAN]
        BY ScheduleIs DEF TypeOK
      <4>2. DOMAIN saved' = DOMAIN saved /\ saved' \in [DOMAIN saved -> BOOLEAN]
        BY <3>1, <4>1 DEF MarkRow
      <4>. QED
        BY <4>1, <4>2, ScheduleIs
    <3>2. CASE UNCHANGED saved
      BY <3>2 DEF TypeOK
    <3>. QED
      BY <1>2, <3>1, <3>2 DEF Mark
  <2>4. marked' \subseteq Games /\ lost' \subseteq Games
    BY <1>2, <2>1 DEF Mark, MarkRow, TypeOK
  <2>. QED
    BY <1>2, <2>1, <2>2, <2>3, <2>4 DEF Mark, TypeOK
<1>. QED
  BY <1>1, <1>2 DEF EvaluationStep

LEMMA TypeStep == TypeOK /\ [Next]_vars => TypeOK'
<1>. SUFFICES ASSUME TypeOK, [Next]_vars PROVE TypeOK'
  OBVIOUS
<1>. USE DEF history, store, told, marks, listings
<1>1. ASSUME Tick PROVE TypeOK'
  BY <1>1 DEF Tick, TypeOK
<1>2. ASSUME Start PROVE TypeOK'
  <2>1. setup' \in [Setups -> SetupState] /\ marked' \subseteq Games /\ lost' \subseteq Games
    BY <1>2, BeginIs DEF Start, Setups
  <2>. QED
    BY <1>2, <2>1 DEF Start, TypeOK
<1>3. ASSUME Crash PROVE TypeOK'
  <2>1. setup' \in [Setups -> SetupState]
    BY <1>3, IdleIs DEF Crash
  <2>2. DOMAIN jobs' \subseteq JobIds /\ jobs' \in [DOMAIN jobs' -> Int]
    BY <1>3 DEF Crash
  <2>3. evals' = {} /\ crashes' \in Nat
    BY <1>3 DEF Crash, TypeOK
  <2>4. torn' \subseteq Nat
    <3>1. \A q \in Setups : DayOf(setup[q].at) \in Nat
      BY SetupIs, DayIsNat DEF SetupState
    <3>. QED
      BY <1>3, <3>1 DEF Crash, TypeOK
  <2>. QED
    BY <1>3, <2>1, <2>2, <2>3, <2>4 DEF Crash, TypeOK
<1>4. ASSUME UNCHANGED vars PROVE TypeOK'
  BY <1>4 DEF vars, TypeOK
<1>. QED
  BY <1>1, <1>2, <1>3, <1>4, TypeSetup, TypeJob, TypeEvaluation DEF Next

\* Every variable keeps its type.
THEOREM ScheduleTypeCorrect == Spec => []TypeOK
<1>. QED
  BY TypeInit, TypeStep, PTL DEF Spec

-----------------------------------------------------------------------------
(* Marks stand.                                                            *)

\* The mark of a game whose mark was not lost stands.
Stands == \A g \in marked \ lost : g \in DOMAIN saved => saved[g]

\* A save keeps the marks there are, and what it does not keep it counts as lost.
LEMMA SaveKeeps ==
  ASSUME TypeOK, Stands, NEW p \in Setups, NEW f \in Schedules, Save(p, f),
         NEW g \in DOMAIN saved', g \in marked' \ lost'
  PROVE  saved'[g] /\ lost \subseteq lost'
<1>1. saved' = Replaced(f) /\ lost \subseteq lost' /\ g \notin lost
  BY DEF Save
<1>2. g \in DOMAIN f /\ (saved'[g] <=> f[g] \/ (g \in DOMAIN saved /\ saved[g]))
  BY <1>1 DEF Replaced
<1>3. CASE f[g]
  BY <1>1, <1>2, <1>3
<1>4. CASE ~f[g]
  <2>1. g \in marked /\ g \in DOMAIN saved
    BY <1>1, <1>2, <1>4 DEF Save
  <2>2. saved[g]
    BY <1>1, <2>1 DEF Stands
  <2>. QED
    BY <1>1, <1>2, <2>1, <2>2
<1>. QED
  BY <1>3, <1>4

\* A step saves a planned schedule, marks a row, or leaves the marks as they are but for
\* those that the setup of a fresh day finds gone.
LEMMA MarksMove ==
  ASSUME TypeOK, [Next]_vars
  PROVE  \/ \E p \in Setups : \E f \in Schedules : Save(p, f)
         \/ \E g \in Games : MarkRow(g)
         \/ \E p \in Setups : Begin(p) /\ UNCHANGED <<now, saved>>
         \/ UNCHANGED <<saved, marks>>
<1>. USE DEF history, store, told, marks, listings
<1>1. ASSUME NEW p \in Setups, SetupStep(p)
      PROVE  UNCHANGED <<saved, marks>> \/ \E f \in Schedules : Save(p, f)
  <2>. DEFINE sched(h) == Put(setup[p].new, h, CarriedMark(p, h))
  <2>1. setup[p] \in SetupState /\ setup[p].new \in Schedules
    BY SetupIs DEF SetupState
  <2>2. \A h \in Games : sched(h) \in Schedules
    BY <2>1, PutIs, ScheduleIs DEF CarriedMark, SetupState
  <2>. HIDE DEF sched
  <2>3. ASSUME NEW h \in Games, Plan(p, h) PROVE UNCHANGED <<saved, marks>> \/ Save(p, sched(h))
    BY <2>3 DEF Plan, sched
  <2>4. ASSUME PlanDone(p) \/ FetchNoGames(p) PROVE Save(p, setup[p].new) \/ Save(p, None)
    BY <2>4 DEF PlanDone, FetchNoGames
  <2>5. ASSUME FetchFails(p) \/ Fetch(p) \/ Markets(p) \/ RecoverDone(p)
               \/ \E h \in Games : Recover(p, h)
        PROVE UNCHANGED <<saved, marks>>
    BY <2>5 DEF FetchFails, Fetch, Markets, RecoverDone, Recover
  <2>. QED
    BY <1>1, <2>1, <2>2, <2>3, <2>4, <2>5, NoneIs DEF SetupStep
<1>2. ASSUME EvaluationStep PROVE UNCHANGED <<saved, marks>> \/ \E g \in Games : MarkRow(g)
  <2>1. \A e \in evals : e.game \in Games
    BY DEF TypeOK
  <2>. QED
    BY <1>2, <2>1 DEF EvaluationStep, Judge, Mark
<1>3. ASSUME JobStep
      PROVE  UNCHANGED <<saved, marks>> \/ \E p \in Setups : Begin(p) /\ UNCHANGED <<now, saved>>
  BY <1>3 DEF JobStep, StartEvaluation, StartSetup, Miss, Setups
<1>4. ASSUME Start PROVE \E p \in Setups : Begin(p) /\ UNCHANGED <<now, saved>>
  BY <1>4 DEF Start, Setups
<1>5. ASSUME Tick \/ Crash \/ UNCHANGED vars PROVE UNCHANGED <<saved, marks>>
  BY <1>5 DEF Tick, Crash, vars
<1>. QED
  BY <1>1, <1>2, <1>3, <1>4, <1>5 DEF Next

LEMMA StandsStep == TypeOK /\ Stands /\ [Next]_vars => Stands'
<1>. SUFFICES ASSUME TypeOK, Stands, [Next]_vars, NEW g \in marked' \ lost', g \in DOMAIN saved'
              PROVE saved'[g]
  BY DEF Stands
<1>1. ASSUME NEW p \in Setups, NEW f \in Schedules, Save(p, f) PROVE saved'[g]
  BY <1>1, SaveKeeps
<1>2. ASSUME NEW h \in Games, MarkRow(h) PROVE saved'[g]
  <2>1. g \in DOMAIN saved /\ (saved'[g] <=> saved[g] \/ g = h)
    BY <1>2 DEF MarkRow
  <2>2. CASE g = h
    BY <2>1, <2>2
  <2>3. CASE g # h
    <3>1. g \in marked \ lost
      BY <1>2, <2>3 DEF MarkRow
    <3>. QED
      BY <2>1, <3>1 DEF Stands
  <2>. QED
    BY <2>2, <2>3
<1>3. ASSUME NEW p \in Setups, Begin(p), UNCHANGED saved PROVE saved'[g]
  BY <1>3 DEF Begin, Stands
<1>4. ASSUME UNCHANGED <<saved, marks>> PROVE saved'[g]
  BY <1>4 DEF marks, Stands
<1>. QED
  BY <1>1, <1>2, <1>3, <1>4, MarksMove

LEMMA StandsInit == Init => Stands
  BY DEF Init, Stands

\* What a setup sees when it begins: a mark that stands.
LEMMA BegunKnows ==
  ASSUME TypeOK, Stands, NEW p \in Setups, Begin(p), UNCHANGED now,
         NEW g \in marked \ lost', ToCome(p, g)'
  PROVE  FALSE
<1>1. setup'[p] = Begun /\ lost \subseteq lost' /\ g \notin lost
  BY DEF Begin, TypeOK
<1>2. CASE date = DayOf(now)
  <2>1. setup'[p].step = "recover" /\ setup'[p].todo = {h \in DOMAIN saved : ~saved[h]}
    BY <1>1, <1>2 DEF Begun, Idle
  <2>2. g \in setup'[p].todo
    BY <2>1 DEF ToCome
  <2>. QED
    BY <1>1, <2>1, <2>2 DEF Stands
<1>3. CASE date # DayOf(now)
  <2>1. setup'[p].step = "fetch" /\ setup'[p].old = saved
    BY <1>1, <1>3 DEF Begun, Idle
  <2>2. now < Tip[g] /\ ~(g \in DOMAIN saved /\ saved[g])
    BY <2>1 DEF ToCome, CarriedMark
  <2>3. g \in DOMAIN saved
    BY <1>3, <2>2 DEF Begin
  <2>. QED
    BY <1>1, <2>2, <2>3 DEF Stands
<1>. QED
  BY <1>2, <1>3

\* A setup does not come back to a game it was done with.
LEMMA SetupGoesOn ==
  ASSUME TypeOK, NEW p \in Setups, NEW q \in Setups, SetupStep(q), NEW g \in Games, ToCome(p, g)'
  PROVE  ToCome(p, g)
<1>. USE DEF history, store, told, marks, listings
<1>1. setup \in [Setups -> SetupState] /\ setup[p] \in SetupState
  BY SetupIs DEF TypeOK
<1>2. now' = now
  BY DEF SetupStep, FetchFails, FetchNoGames, Fetch, Markets, Recover, Plan, RecoverDone, PlanDone
<1>3. CASE p # q
  <2>1. setup'[p] = setup[p]
    BY <1>1, <1>3 DEF SetupStep, FetchFails, FetchNoGames, Fetch, Markets, Recover,
                      Plan, RecoverDone, PlanDone, Finish
  <2>. QED
    BY <1>2, <2>1 DEF ToCome, CarriedMark
<1>4. CASE p = q
  <2>1. ASSUME FetchFails(p) \/ FetchNoGames(p) \/ RecoverDone(p) \/ PlanDone(p) PROVE FALSE
    <3>1. setup'[p] = Idle
      BY <1>1, <2>1 DEF FetchFails, FetchNoGames, RecoverDone, PlanDone, Finish
    <3>. QED
      BY <3>1 DEF ToCome, Idle
  <2>2. ASSUME Fetch(p) PROVE ToCome(p, g)
    <3>1. /\ setup[p].step = "fetch" /\ setup'[p].old = setup[p].old
          /\ setup'[p].step = "markets" /\ setup'[p].todo = Listed
      BY <1>1, <2>2 DEF Fetch, SetupState
    <3>2. g \in Listed /\ ~CarriedMark(p, g)
      BY <3>1 DEF ToCome, CarriedMark
    <3>. QED
      BY <3>1, <3>2 DEF ToCome, Listed
  <2>3. ASSUME Markets(p) PROVE ToCome(p, g)
    <3>1. /\ setup[p].step = "markets" /\ setup'[p].old = setup[p].old
          /\ setup'[p].step = "plan" /\ setup'[p].todo \subseteq setup[p].todo
      BY <1>1, <2>3 DEF Markets, SetupState
    <3>. QED
      BY <3>1 DEF ToCome, CarriedMark
  <2>4. ASSUME NEW h \in Games, Recover(p, h) \/ Plan(p, h) PROVE ToCome(p, g)
    <3>1. /\ setup'[p].step = setup[p].step /\ setup'[p].old = setup[p].old
          /\ setup'[p].todo \subseteq setup[p].todo /\ setup[p].step \in {"recover", "plan"}
      BY <1>1, <2>4 DEF Recover, Plan, Turn, SetupState
    <3>. QED
      BY <3>1 DEF ToCome, CarriedMark
  <2>. QED
    BY <1>4, <2>1, <2>2, <2>3, <2>4 DEF SetupStep
<1>. QED
  BY <1>3, <1>4

\* A setup queues or evaluates only the game it has come to.
LEMMA SetupTakes ==
  ASSUME TypeOK, NEW p \in Setups, SetupStep(p), NEW g \in Games, ~ToCome(p, g)
  PROVE  /\ \A n \in 0 .. MaxRetries : <<g, n>> \in DOMAIN jobs' => <<g, n>> \in DOMAIN jobs
         /\ \A e \in evals' : e.game = g => e \in evals
<1>. USE DEF history, store, told, marks, listings
<1>1. g # Roll /\ g # Again
  BY ScheduleAssumption DEF Setups
<1>2. ASSUME FetchFails(p) \/ FetchNoGames(p) \/ RecoverDone(p) \/ PlanDone(p)
      PROVE  /\ DOMAIN jobs' \subseteq DOMAIN jobs \cup {<<Roll, 0>>, <<Again, 0>>}
             /\ evals' = evals
  BY <1>2 DEF FetchFails, FetchNoGames, RecoverDone, PlanDone, Finish, Put
<1>3. ASSUME Fetch(p) \/ Markets(p) PROVE UNCHANGED <<jobs, evals>>
  BY <1>3 DEF Fetch, Markets
<1>4. ASSUME NEW h \in Games, Recover(p, h) \/ Plan(p, h)
      PROVE  h # g => /\ DOMAIN jobs' \subseteq DOMAIN jobs \cup {<<h, 0>>}
                      /\ evals' \subseteq evals \cup {Evaluation(h, 0, p)}
  BY <1>4 DEF Recover, Plan, Register, Put
<1>5. ASSUME Recover(p, g) PROVE FALSE
  BY <1>5 DEF Recover, Turn, ToCome
<1>6. ASSUME Plan(p, g) PROVE UNCHANGED <<jobs, evals>>
  BY <1>6 DEF Plan, Turn, ToCome
<1>7. \A h : Evaluation(h, 0, p).game = h
  BY DEF Evaluation
<1>. QED
  <2>1. CASE FetchFails(p) \/ FetchNoGames(p) \/ RecoverDone(p) \/ PlanDone(p)
    BY <1>1, <1>2, <2>1
  <2>2. CASE Fetch(p) \/ Markets(p)
    BY <1>3, <2>2
  <2>3. ASSUME NEW h \in Games, Recover(p, h) \/ Plan(p, h), h # g
        PROVE  /\ \A n \in 0 .. MaxRetries : <<g, n>> \in DOMAIN jobs' => <<g, n>> \in DOMAIN jobs
               /\ \A e \in evals' : e.game = g => e \in evals
    BY <1>4, <1>7, <2>3
  <2>4. CASE Recover(p, g) \/ Plan(p, g)
    BY <1>5, <1>6, <2>4
  <2>. QED
    BY <2>1, <2>2, <2>3, <2>4 DEF SetupStep

\* A marked game whose work is over is not taken up again.
LEMMA NotReopened ==
  ASSUME TypeOK, Stands, [Next]_vars, NEW g \in marked \ lost', ~Open(g)
  PROVE  ~Open(g)'
<1>. USE DEF history, store, told, marks, listings
<1>0. /\ g \in Games /\ setup \in [Setups -> SetupState]
      /\ \A n \in 0 .. MaxRetries : <<g, n>> \notin DOMAIN jobs
      /\ \A e \in evals : e.game # g
      /\ \A p \in Setups : ~ToCome(p, g)
  BY DEF Open, TypeOK
<1>1. ASSUME NEW p \in Setups, SetupStep(p) PROVE ~Open(g)'
  <2>1. \A q \in Setups : ~ToCome(q, g)'
    BY <1>0, <1>1, SetupGoesOn
  <2>2. /\ \A n \in 0 .. MaxRetries : <<g, n>> \notin DOMAIN jobs'
        /\ \A e \in evals' : e.game # g
    BY <1>0, <1>1, SetupTakes
  <2>. QED
    BY <2>1, <2>2 DEF Open
<1>2. ASSUME NEW p \in Setups, setup'[p] = setup[p], now <= now', now \in Nat, now' \in Nat
      PROVE ~ToCome(p, g)'
  <2>1. Tip[g] \in Nat
    BY <1>0, ScheduleAssumption
  <2>. QED
    BY <1>0, <1>2, <2>1 DEF ToCome, CarriedMark
<1>3. now \in Nat
  BY DEF TypeOK
<1>4. ASSUME NEW p \in Setups, Begin(p), UNCHANGED now, evals' = evals,
             \A n \in 0 .. MaxRetries : <<g, n>> \notin DOMAIN jobs'
      PROVE ~Open(g)'
  <2>1. \A q \in Setups \ {p} : setup'[q] = setup[q]
    BY <1>0, <1>4 DEF Begin
  <2>2. \A q \in Setups : ~ToCome(q, g)'
    BY <1>2, <1>3, <1>4, <2>1, BegunKnows
  <2>. QED
    BY <1>0, <1>4, <2>2 DEF Open
<1>5. ASSUME NEW h \in Games, NEW n \in 0 .. MaxRetries, StartEvaluation(h, n) PROVE ~Open(g)'
  <2>1. h # g
    BY <1>0, <1>5 DEF StartEvaluation, Due
  <2>2. DOMAIN jobs' \subseteq DOMAIN jobs
    <3>1. h # Roll
      BY ScheduleAssumption DEF Setups
    <3>. QED
      BY <1>5, <3>1 DEF StartEvaluation, Taken, Without
  <2>3. evals' \subseteq evals \cup {Evaluation(h, n, Pool)} /\ Evaluation(h, n, Pool).game = h
    BY <1>5 DEF StartEvaluation, Evaluation
  <2>4. \A p \in Setups : ~ToCome(p, g)'
    BY <1>2, <1>3, <1>5 DEF StartEvaluation
  <2>. QED
    BY <1>0, <2>1, <2>2, <2>3, <2>4 DEF Open
<1>6. ASSUME NEW p \in {Roll, Again}, StartSetup(p) PROVE ~Open(g)'
  <2>1. \A n \in 0 .. MaxRetries : <<g, n>> \notin DOMAIN jobs'
    <3>1. g # p /\ DOMAIN jobs' \subseteq DOMAIN jobs \cup {<<p, 0>>}
      BY <1>0, <1>6, ScheduleAssumption DEF StartSetup, Taken, Put, Without, Setups
    <3>. QED
      BY <1>0, <3>1
  <2>2. CASE Begin(p)
    BY <1>4, <1>6, <2>1, <2>2 DEF StartSetup, Setups
  <2>3. CASE UNCHANGED setup
    <3>1. \A q \in Setups : ~ToCome(q, g)'
      BY <1>2, <1>3, <1>6, <2>3 DEF StartSetup
    <3>. QED
      BY <1>0, <1>6, <2>1, <3>1 DEF StartSetup, Open
  <2>. QED
    BY <1>6, <2>2, <2>3 DEF StartSetup
<1>7. ASSUME NEW id \in JobIds, Miss(id) PROVE ~Open(g)'
  <2>1. DOMAIN jobs' \subseteq DOMAIN jobs
    BY <1>7 DEF Miss, Due, Taken, Put, Without
  <2>2. \A p \in Setups : ~ToCome(p, g)'
    BY <1>2, <1>3, <1>7 DEF Miss
  <2>. QED
    BY <1>0, <1>7, <2>1, <2>2 DEF Miss, Open
<1>8. ASSUME NEW e \in evals, Judge(e) \/ Mark(e) PROVE ~Open(g)'
  <2>1. e.game # g /\ evals \subseteq [game: Games, attempt: 0 .. MaxRetries, by: Setups \cup {Pool},
                                       stage: {"judging", "marking"}]
    BY <1>0 DEF TypeOK
  <2>2. \A d \in evals' : d.game # g
    <3>1. evals' \subseteq evals \cup {[e EXCEPT !.stage = "marking"]}
      BY <1>8 DEF Judge, Decide, Mark, Return
    <3>2. [e EXCEPT !.stage = "marking"].game = e.game
      BY <2>1
    <3>. QED
      BY <1>0, <2>1, <3>1, <3>2
  <2>3. DOMAIN jobs' \subseteq DOMAIN jobs \cup {<<e.game, e.attempt + 1>>}
    BY <1>8 DEF Judge, Decide, Mark, Put
  <2>4. ASSUME NEW p \in Setups PROVE ~ToCome(p, g)'
    <3>1. now' = now
      BY <1>8 DEF Judge, Mark
    <3>2. CASE setup' = setup
      BY <1>2, <1>3, <3>1, <3>2
    <3>3. CASE setup' # setup
      <4>1. /\ setup'[p].step = setup[p].step /\ setup'[p].todo = setup[p].todo
            /\ setup'[p].old = setup[p].old
        <5>1. setup[p] \in SetupState
          BY <1>0
        <5>. QED
          BY <1>0, <1>8, <3>3, <5>1 DEF Judge, Decide, Mark, Return, SetupState
      <4>. QED
        BY <1>0, <3>1, <4>1 DEF ToCome, CarriedMark
    <3>. QED
      BY <3>2, <3>3
  <2>. QED
    BY <1>0, <2>1, <2>2, <2>3, <2>4 DEF Open
<1>9. ASSUME Tick \/ UNCHANGED vars PROVE ~Open(g)'
  <2>1. /\ now <= now' /\ now' \in Nat /\ UNCHANGED <<setup, jobs, evals>>
    BY <1>3, <1>9 DEF Tick, vars
  <2>2. \A p \in Setups : ~ToCome(p, g)'
    BY <1>2, <1>3, <2>1
  <2>. QED
    BY <1>0, <2>1, <2>2 DEF Open
<1>10. ASSUME Start PROVE ~Open(g)'
  BY <1>0, <1>4, <1>10 DEF Start, Setups
<1>11. ASSUME Crash PROVE ~Open(g)'
  <2>1. \A p \in Setups : setup'[p].step = "idle"
    BY <1>11 DEF Crash, Idle
  <2>. QED
    BY <1>11, <2>1 DEF Crash, Open, ToCome
<1>. QED
  BY <1>1, <1>5, <1>6, <1>7, <1>8, <1>9, <1>10, <1>11 DEF Next, JobStep, EvaluationStep

\* A fired mark stands while the schedule lists the game, and a marked game whose work
\* is over is not taken up again, whatever setups overlap and whatever crashes, unless
\* its row was gone, mark and all, when a setup read the schedule or wrote it anew.
THEOREM FiredForGood == Spec => FiredIsKept
<1>1. TypeOK /\ Stands /\ [Next]_vars =>
        [\A g \in marked \ lost' :
            /\ g \in DOMAIN saved' => saved'[g]
            /\ ~Open(g) => ~Open(g)']_vars
  <2>. SUFFICES ASSUME TypeOK, Stands, [Next]_vars, NEW g \in marked \ lost'
                PROVE  /\ g \in DOMAIN saved' => saved'[g]
                       /\ ~Open(g) => ~Open(g)'
    OBVIOUS
  <2>1. marked \subseteq marked'
    BY MarksMove DEF Save, MarkRow, Begin, marks
  <2>2. Stands'
    BY StandsStep
  <2>. QED
    BY <2>1, <2>2, NotReopened DEF Stands
<1>. QED
  BY <1>1, StandsInit, StandsStep, TypeInit, TypeStep, PTL DEF Spec, FiredIsKept

-----------------------------------------------------------------------------
(* What a mark stands for.                                                 *)

\* What was decided, told or crashed is not undone.
LEMMA HistoryGrows ==
  ASSUME TypeOK, [Next]_vars
  PROVE  decided \subseteq decided' /\ noticed \subseteq noticed' /\ (crashes > 0 => crashes' > 0)
<1>. USE DEF history, store, told, marks, listings
<1>1. ASSUME NEW p \in Setups, SetupStep(p)
      PROVE UNCHANGED <<decided, noticed, crashes>>
  BY <1>1 DEF SetupStep, FetchFails, FetchNoGames, Fetch, Markets, Recover, Plan,
              RecoverDone, PlanDone
<1>2. ASSUME JobStep PROVE decided' = decided /\ noticed \subseteq noticed' /\ crashes' = crashes
  BY <1>2 DEF JobStep, StartEvaluation, StartSetup, Miss
<1>3. ASSUME EvaluationStep
      PROVE decided \subseteq decided' /\ noticed \subseteq noticed' /\ crashes' = crashes
  BY <1>3 DEF EvaluationStep, Judge, Decide, Mark
<1>4. ASSUME Tick \/ Start \/ Crash \/ UNCHANGED vars
      PROVE decided' = decided /\ noticed' = noticed /\ (crashes > 0 => crashes' > 0)
  BY <1>4 DEF Tick, Start, Crash, vars, TypeOK
<1>. QED
  BY <1>1, <1>2, <1>3, <1>4 DEF Next

\* The jobs a step takes off the queue are evaluated or reported, and an evaluation
\* that ends has decided or has queued its next attempt.
LEMMA QueuedStays ==
  ASSUME TypeOK, Marks, [Next]_vars, ~Crash, NEW g \in Games, Queued(g)
  PROVE  Queued(g)' \/ g \in decided' \/ g \in noticed'
<1>. USE DEF history, store, told, marks, listings
<1>. DEFINE Kept == Queued(g)' \/ g \in decided' \/ g \in noticed'
<1>1. ASSUME NEW p \in Setups, SetupStep(p) PROVE DOMAIN jobs \subseteq DOMAIN jobs' /\ evals \subseteq evals'
  <2>1. JobsOK(jobs) /\ setup[p] \in SetupState
    BY SetupIs DEF TypeOK, JobsOK
  <2>2. ASSUME FetchFails(p) PROVE DOMAIN jobs \subseteq DOMAIN jobs' /\ UNCHANGED evals
    <3>1. setup[p].at + SetupDelay \in Int /\ <<Again, 0>> \in JobIds
      BY <2>1, ScheduleAssumption, JobIdIs DEF SetupState
    <3>2. /\ JobsOK(Put(jobs, <<Again, 0>>, setup[p].at + SetupDelay))
          /\ DOMAIN Put(jobs, <<Again, 0>>, setup[p].at + SetupDelay)
              = DOMAIN jobs \cup {<<Again, 0>>}
      BY <2>1, <3>1, PutJob
    <3>. DEFINE q == Put(jobs, <<Again, 0>>, setup[p].at + SetupDelay)
    <3>3. Finish(p, q) /\ UNCHANGED evals
      BY <2>2 DEF FetchFails
    <3>. HIDE DEF q
    <3>4. DOMAIN q \subseteq DOMAIN jobs'
      BY <3>2, <3>3, FinishIs DEF q
    <3>. QED
      BY <3>2, <3>3, <3>4 DEF q
  <2>3. ASSUME FetchNoGames(p) \/ RecoverDone(p) \/ PlanDone(p)
        PROVE DOMAIN jobs \subseteq DOMAIN jobs' /\ UNCHANGED evals
    BY <2>1, <2>3, FinishIs DEF FetchNoGames, RecoverDone, PlanDone
  <2>4. ASSUME Fetch(p) \/ Markets(p) PROVE UNCHANGED <<jobs, evals>>
    BY <2>4 DEF Fetch, Markets
  <2>5. ASSUME NEW h \in Games, Recover(p, h) \/ Plan(p, h)
        PROVE DOMAIN jobs \subseteq DOMAIN jobs' /\ evals \subseteq evals'
    BY <2>5, RegisterIs DEF Recover, Plan
  <2>. QED
    BY <1>1, <2>2, <2>3, <2>4, <2>5 DEF SetupStep
<1>2. ASSUME NEW h \in Games, NEW n \in 0 .. MaxRetries, StartEvaluation(h, n)
      PROVE Kept
  <2>1. DOMAIN jobs \ {<<h, n>>} \subseteq DOMAIN jobs'
    BY <1>2, JobIdIs, TakenJob DEF StartEvaluation, Due
  <2>2. evals \subseteq evals' /\ \E e \in evals' : e.game = h
    <3>1. CASE \E e \in evals : e.game = h /\ e.attempt = n /\ e.by = Pool
      BY <1>2, <3>1 DEF StartEvaluation
    <3>2. CASE ~\E e \in evals : e.game = h /\ e.attempt = n /\ e.by = Pool
      <4>1. evals' = evals \cup {Evaluation(h, n, Pool)}
        BY <1>2, <3>2 DEF StartEvaluation
      <4>2. Evaluation(h, n, Pool).game = h
        BY DEF Evaluation
      <4>. QED
        BY <4>1, <4>2
    <3>. QED
      BY <3>1, <3>2
  <2>. QED
    BY <2>1, <2>2 DEF Queued
<1>3. ASSUME NEW p \in {Roll, Again}, StartSetup(p) PROVE Kept
  <2>1. DOMAIN jobs \ {<<p, 0>>} \subseteq DOMAIN jobs' /\ UNCHANGED evals
    BY <1>3, JobIdIs, TakenJob DEF StartSetup, Due
  <2>2. g # p
    BY ScheduleAssumption DEF Setups
  <2>. QED
    BY <2>1, <2>2 DEF Queued
<1>4. ASSUME NEW id \in JobIds, Miss(id) PROVE Kept
  <2>1. DOMAIN jobs \ {id} \subseteq DOMAIN jobs' /\ UNCHANGED evals /\ id[1] \in noticed'
    BY <1>4, TakenJob DEF Miss, Due
  <2>. QED
    BY <2>1 DEF Queued
<1>5. ASSUME NEW e \in evals, Judge(e) PROVE Kept
  <2>1. e.game \in Games /\ e.attempt \in 0 .. MaxRetries
    BY DEF TypeOK
  <2>2. CASE Decide(e)
    BY <1>5, <2>2 DEF Judge, Decide, Queued
  <2>3. CASE ~Decide(e)
    <3>1. /\ CanRetry(e) /\ evals' = evals \ {e}
          /\ jobs' = Put(jobs, <<e.game, e.attempt + 1>>, now + RetryDelay)
      BY <1>5, <2>3 DEF Judge, Return
    <3>2. DOMAIN jobs' = DOMAIN jobs \cup {<<e.game, e.attempt + 1>>}
      BY <3>1 DEF Put
    <3>3. e.attempt + 1 \in 0 .. MaxRetries
      BY <2>1, <3>1, ScheduleAssumption DEF CanRetry
    <3>. QED
      BY <3>1, <3>2, <3>3 DEF Queued
  <2>. QED
    BY <2>2, <2>3
<1>6. ASSUME NEW e \in evals, Mark(e) PROVE Kept
  <2>1. evals' = evals \ {e} /\ UNCHANGED <<jobs, decided>> /\ e.game \in decided
    BY <1>6 DEF Mark, Return, Marks
  <2>. QED
    BY <2>1 DEF Queued
<1>7. ASSUME Tick \/ Start \/ UNCHANGED vars PROVE Kept
  BY <1>7 DEF Tick, Start, vars, Queued
<1>. QED
  BY <1>1, <1>2, <1>3, <1>4, <1>5, <1>6, <1>7 DEF Next, JobStep, EvaluationStep, Queued

\* What a mark stands for outlives every step.
LEMMA JudgedStays ==
  ASSUME TypeOK, Marks, [Next]_vars, NEW g \in Games, Judged(g)
  PROVE  Judged(g)'
<1>1. CASE g \in decided \/ g \in noticed \/ crashes > 0
  BY <1>1, HistoryGrows DEF Judged
<1>2. CASE Queued(g) /\ ~Crash
  BY <1>2, QueuedStays DEF Judged
<1>3. CASE Crash
  BY <1>3 DEF Crash, Judged, TypeOK
<1>. QED
  BY <1>1, <1>2, <1>3 DEF Judged

LEMMA MarksInit == Init => Marks
  BY DEF Init, Marks, None, Idle

\* What a setup takes over from the saved schedule when it begins.
LEMMA BegunMarks ==
  ASSUME TypeOK, Marks
  PROVE  /\ \A g \in DOMAIN Begun.old : Begun.old[g] => Judged(g)
         /\ \A g \in DOMAIN Begun.new : Begun.new[g] => Judged(g)
<1>1. Begun.new = None /\ (Begun.old = None \/ Begun.old = saved)
  BY DEF Begun, Idle
<1>. QED
  BY <1>1 DEF Marks, None

\* The schedule as a step leaves it, in terms of the marks there were before it.
LEMMA SavedMarks ==
  ASSUME TypeOK, Marks, [Next]_vars, NEW g \in DOMAIN saved', saved'[g]
  PROVE  Judged(g)
<1>. USE DEF history, store, told, marks, listings
<1>1. ASSUME NEW f \in Schedules, saved' = Replaced(f), f[g] => Judged(g) PROVE Judged(g)
  BY <1>1 DEF Replaced, Marks
<1>2. CASE UNCHANGED saved
  BY <1>2 DEF Marks
<1>3. ASSUME NEW e \in evals, Mark(e), MarkRow(e.game) PROVE Judged(g)
  <2>1. e.game \in decided
    BY <1>3 DEF Mark, Marks
  <2>. QED
    BY <1>3, <2>1 DEF MarkRow, Marks, Judged
<1>4. ASSUME NEW p \in Setups, SetupStep(p) PROVE Judged(g)
  <2>. DEFINE sched(h) == Put(setup[p].new, h, CarriedMark(p, h))
  <2>1. setup[p].new \in Schedules /\ setup[p].old \in Schedules
    BY SetupIs DEF SetupState
  <2>2. \A h \in Games : sched(h) \in Schedules
    BY <2>1, PutIs, ScheduleIs DEF CarriedMark
  <2>3. ASSUME NEW h \in Games, saved' = Replaced(sched(h)) PROVE Judged(g)
    <3>1. DOMAIN sched(h) = DOMAIN setup[p].new \cup {h} /\ g \in DOMAIN sched(h)
      BY <2>3 DEF Replaced, Put
    <3>2. sched(h)[g] => Judged(g)
      BY <3>1 DEF Put, CarriedMark, Marks
    <3>. HIDE DEF sched
    <3>. QED
      BY <1>1, <2>2, <2>3, <3>2
  <2>4. saved' = Replaced(None) => Judged(g)
    BY NoneIs DEF Replaced, None
  <2>5. saved' = Replaced(setup[p].new) => Judged(g)
    <3>1. ASSUME saved' = Replaced(setup[p].new) PROVE g \in DOMAIN setup[p].new
      BY <3>1 DEF Replaced
    <3>. QED
      BY <1>1, <2>1, <3>1 DEF Marks
  <2>. HIDE DEF sched
  <2>6. \/ UNCHANGED saved
        \/ saved' = Replaced(None) \/ saved' = Replaced(setup[p].new)
        \/ \E h \in Games : saved' = Replaced(sched(h))
    BY <1>4 DEF SetupStep, FetchFails, FetchNoGames, Fetch, Markets, Recover, Plan,
                RecoverDone, PlanDone, Save, sched
  <2>. QED
    BY <1>2, <2>3, <2>4, <2>5, <2>6
<1>5. CASE JobStep \/ Tick \/ Start \/ Crash \/ UNCHANGED vars
  BY <1>2, <1>5 DEF JobStep, StartEvaluation, StartSetup, Miss, Tick, Start, Crash, vars
<1>6. CASE EvaluationStep
  BY <1>2, <1>3, <1>6 DEF EvaluationStep, Judge, Mark
<1>. QED
  BY <1>4, <1>5, <1>6 DEF Next

\* The marks in the hands of the setups.
LEMMA HandMarks ==
  ASSUME TypeOK, Marks, [Next]_vars, NEW p \in Setups
  PROVE  /\ \A g \in DOMAIN setup'[p].old : setup'[p].old[g] => Judged(g) \/ Judged(g)'
         /\ \A g \in DOMAIN setup'[p].new : setup'[p].new[g] => Judged(g) \/ Judged(g)'
<1>. USE DEF history, store, told, marks, listings
<1>. DEFINE Fine(s) == /\ \A g \in DOMAIN s.old : s.old[g] => Judged(g) \/ Judged(g)'
                       /\ \A g \in DOMAIN s.new : s.new[g] => Judged(g) \/ Judged(g)'
<1>0. Fine(setup[p]) /\ Fine(Idle) /\ Fine(Begun)
  <2>1. Fine(setup[p])
    BY DEF Marks
  <2>2. Fine(Idle)
    BY DEF Idle, None
  <2>3. Fine(Begun)
    BY BegunMarks
  <2>. QED
    BY <2>1, <2>2, <2>3
<1>1. CASE setup'[p] \in {setup[p], Idle, Begun}
  BY <1>0, <1>1
<1>2. ASSUME NEW q \in Setups, SetupStep(q) PROVE Fine(setup'[p])
  <2>1. setup \in [Setups -> SetupState] /\ setup[p] \in SetupState
    BY SetupIs DEF TypeOK
  <2>2. CASE p # q
    <3>1. setup'[p] = setup[p]
      BY <1>2, <2>1, <2>2 DEF SetupStep, FetchFails, FetchNoGames, Fetch, Markets, Recover,
                              Plan, RecoverDone, PlanDone, Finish
    <3>. QED
      BY <1>1, <3>1
  <2>3. CASE p = q
    <3>1. ASSUME FetchFails(p) \/ FetchNoGames(p) \/ RecoverDone(p) \/ PlanDone(p)
          PROVE Fine(setup'[p])
      <4>1. setup'[p] = Idle
        BY <2>1, <3>1 DEF FetchFails, FetchNoGames, RecoverDone, PlanDone, Finish
      <4>. QED
        BY <1>1, <4>1
    <3>2. ASSUME Fetch(p) \/ Markets(p) \/ (\E h \in Games : Recover(p, h))
          PROVE Fine(setup'[p])
      <4>1. setup'[p].old = setup[p].old /\ setup'[p].new = setup[p].new
        BY <2>1, <3>2 DEF Fetch, Markets, Recover, SetupState
      <4>. QED
        BY <1>0, <4>1
    <3>3. ASSUME NEW h \in Games, Plan(p, h) PROVE Fine(setup'[p])
      <4>1. /\ setup'[p].old = setup[p].old
            /\ setup'[p].new = Put(setup[p].new, h, CarriedMark(p, h))
        BY <2>1, <3>3 DEF Plan, SetupState
      <4>2. \A g \in DOMAIN setup'[p].new : setup'[p].new[g] => Judged(g)
        BY <4>1 DEF Put, CarriedMark, Marks
      <4>. QED
        BY <1>0, <4>1, <4>2
    <3>. QED
      BY <1>2, <2>3, <3>1, <3>2, <3>3 DEF SetupStep
  <2>. QED
    BY <2>2, <2>3
<1>3. ASSUME NEW e \in evals, Return(e), Judged(e.game) \/ Judged(e.game)'
      PROVE Fine(setup'[p])
  <2>1. setup \in [Setups -> SetupState] /\ setup[p] \in SetupState
    BY SetupIs DEF TypeOK
  <2>2. CASE e.by = p /\ setup[p].step = "plan"
    <3>1. /\ setup'[p].old = setup[p].old
          /\ setup'[p].new = Put(setup[p].new, e.game, TRUE)
      BY <1>3, <2>1, <2>2 DEF Return, SetupState
    <3>2. \A g \in DOMAIN setup'[p].new : setup'[p].new[g] => Judged(g) \/ Judged(g)'
      BY <1>3, <3>1 DEF Put, Marks
    <3>. QED
      BY <1>0, <3>1, <3>2
  <2>3. CASE ~(e.by = p /\ setup[p].step = "plan")
    <3>1. setup'[p] = setup[p]
      BY <1>3, <2>1, <2>3 DEF Return
    <3>. QED
      BY <1>1, <3>1
  <2>. QED
    BY <2>2, <2>3
<1>4. ASSUME NEW e \in evals, Mark(e) \/ Judge(e) PROVE Fine(setup'[p])
  <2>1. CASE Mark(e)
    <3>1. Judged(e.game) /\ Return(e)
      BY <2>1 DEF Mark, Marks, Judged
    <3>. QED
      BY <1>3, <3>1
  <2>2. CASE Judge(e) /\ Decide(e)
    BY <1>1, <2>2 DEF Decide
  <2>3. CASE Judge(e) /\ ~Decide(e)
    <3>1. Queued(e.game) /\ Return(e)
      BY <2>3 DEF Judge, Queued
    <3>. QED
      BY <1>3, <3>1 DEF Judged
  <2>. QED
    BY <1>4, <2>1, <2>2, <2>3
<1>5. CASE JobStep \/ Tick \/ Start \/ Crash \/ UNCHANGED vars
  <2>1. setup'[p] \in {setup[p], Idle, Begun}
    BY <1>5 DEF JobStep, StartEvaluation, StartSetup, Begin, Miss, Tick, Start, Crash, vars,
                TypeOK, Setups
  <2>. QED
    BY <1>1, <2>1
<1>. QED
  BY <1>2, <1>4, <1>5 DEF Next, EvaluationStep

\* An evaluation marks a game it has decided.
LEMMA MarkingDecided ==
  ASSUME TypeOK, Marks, [Next]_vars, NEW e \in evals', e.stage = "marking"
  PROVE  e.game \in decided'
<1>. USE DEF history, store, told, marks, listings
<1>1. CASE e \in evals
  <2>1. e.game \in decided
    BY <1>1 DEF Marks
  <2>2. decided \subseteq decided'
    BY ZenonT(60) DEF Next, SetupStep, FetchFails, FetchNoGames, Fetch, Markets, Recover,
           Plan, RecoverDone, PlanDone, JobStep, StartEvaluation, StartSetup, Miss,
           EvaluationStep, Judge, Decide, Mark, Tick, Start, Crash, vars
  <2>. QED
    BY <2>1, <2>2
<1>2. CASE e \notin evals
  <2>0. \A g, n, who : e # Evaluation(g, n, who)
    BY DEF Evaluation
  <2>1. ASSUME NEW p \in Setups, SetupStep(p) PROVE FALSE
    <3>1. evals' = evals \/ \E g \in Games : evals' = evals \cup {Evaluation(g, 0, p)}
      BY <2>1 DEF SetupStep, FetchFails, FetchNoGames, Fetch, Markets, Recover, Plan,
                  RecoverDone, PlanDone
    <3>. QED
      BY <1>2, <2>0, <3>1
  <2>2. ASSUME JobStep PROVE FALSE
    <3>1. \/ evals' = evals
          \/ \E g \in Games, n \in 0 .. MaxRetries : evals' = evals \cup {Evaluation(g, n, Pool)}
      BY <2>2 DEF JobStep, StartEvaluation, StartSetup, Miss
    <3>. QED
      BY <1>2, <2>0, <3>1
  <2>3. ASSUME NEW d \in evals, Judge(d) PROVE e.game \in decided'
    <3>1. e = [d EXCEPT !.stage = "marking"] /\ decided' = decided \cup {d.game}
      BY <1>2, <2>3 DEF Judge, Decide, Return
    <3>2. d \in [game: Games, attempt: 0 .. MaxRetries, by: Setups \cup {Pool},
                 stage: {"judging", "marking"}]
      BY DEF TypeOK
    <3>. QED
      BY <3>1, <3>2
  <2>4. ASSUME NEW d \in evals, Mark(d) PROVE FALSE
    BY <1>2, <2>4 DEF Mark, Return
  <2>5. ASSUME Tick \/ Start \/ Crash \/ UNCHANGED vars PROVE FALSE
    BY <1>2, <2>5 DEF Tick, Start, Crash, vars
  <2>. QED
    BY <2>1, <2>2, <2>3, <2>4, <2>5 DEF Next, EvaluationStep
<1>. QED
  BY <1>1, <1>2

LEMMA MarksStep == TypeOK /\ Marks /\ [Next]_vars => Marks'
<1>. SUFFICES ASSUME TypeOK, Marks, [Next]_vars PROVE Marks'
  OBVIOUS
<1>0. TypeOK'
  BY TypeStep
<1>1. \A g \in DOMAIN saved' : saved'[g] => Judged(g)'
  <2>1. DOMAIN saved' \subseteq Games
    BY <1>0, ScheduleIs DEF TypeOK
  <2>. QED
    BY <2>1, SavedMarks, JudgedStays
<1>2. ASSUME NEW p \in Setups
      PROVE  /\ \A g \in DOMAIN setup'[p].old : setup'[p].old[g] => Judged(g)'
             /\ \A g \in DOMAIN setup'[p].new : setup'[p].new[g] => Judged(g)'
  <2>1. setup'[p] \in SetupState
    BY <1>0 DEF TypeOK
  <2>2. DOMAIN setup'[p].old \subseteq Games /\ DOMAIN setup'[p].new \subseteq Games
    BY <2>1, ScheduleIs DEF SetupState
  <2>. QED
    BY <2>2, HandMarks, JudgedStays
<1>3. \A e \in evals' : e.stage = "marking" => e.game \in decided'
  BY MarkingDecided
<1>. QED
  BY <1>1, <1>2, <1>3 DEF Marks

\* A saved fired mark stands for a decision, unless a setup marked a game whose retry
\* is still queued, whatever the interleaving of setups, evaluations and crashes.
THEOREM MarkIsJudged == Spec => []MarkedMeansJudged
<1>1. Marks => MarkedMeansJudged
  BY DEF Marks, Judged, Queued, MarkedMeansJudged, InHand
<1>. QED
  BY <1>1, MarksInit, MarksStep, TypeInit, TypeStep, PTL DEF Spec

-----------------------------------------------------------------------------
(* No game of the day is forgotten.                                        *)

\* Someone still answers for g: it is queued, a recovery has yet to come to it, it was
\* decided, the operator was told, or it has tipped off.  A fetched list of games does
\* not count: the setup that holds it may drop it.
Held(g) ==
    \/ Queued(g)
    \/ \E p \in Setups : setup[p].step = "recover" /\ g \in setup[p].todo
    \/ g \in decided \cup noticed
    \/ Tip[g] <= now

\* No setup is ahead of the clock, a bot that is down has none, and what a setup under
\* way has planned is answered for before it is saved.
Answered ==
    /\ date <= DayOf(now)
    /\ \A p \in Setups : setup[p].at <= now
    /\ up \/ \A p \in Setups : setup[p] = Idle
    /\ up /\ date = DayOf(now) => \A g \in DOMAIN saved : ~saved[g] => Held(g)
    /\ \A p \in Setups : \A g \in DOMAIN setup[p].new : ~setup[p].new[g] => Held(g)

LEMMA DayGrows == ASSUME NEW s \in Nat, NEW t \in Nat, s <= t PROVE DayOf(s) <= DayOf(t)
<1>. DEFINE a == DayOf(s)
            b == DayOf(t)
<1>1. Day \in Nat \ {0} /\ a \in Nat /\ b \in Nat
  BY ScheduleAssumption, DayIsNat
<1>2. a * Day <= s /\ t < (b + 1) * Day
  <2>1. s = a * Day + (s % Day) /\ s % Day \in 0 .. Day - 1
    BY <1>1 DEF DayOf
  <2>2. t = b * Day + (t % Day) /\ t % Day \in 0 .. Day - 1
    BY <1>1 DEF DayOf
  <2>. HIDE DEF a, b
  <2>3. (b + 1) * Day = b * Day + Day /\ a * Day \in Int /\ b * Day \in Int
    BY <1>1
  <2>. QED
    BY <1>1, <2>1, <2>2, <2>3
<1>3. ASSUME b < a PROVE FALSE
  <2>1. b + 1 <= a
    BY <1>1, <1>3
  <2>2. (b + 1) * Day <= a * Day
    BY <1>1, <2>1
  <2>. QED
    BY <1>1, <1>2, <2>2
<1>. QED
  BY <1>1, <1>3

\* What a setup is when it begins: at the clock, with nothing planned.
LEMMA BegunNow ==
  ASSUME TypeOK
  PROVE  /\ Begun.at = now /\ Begun.new = None
         /\ date = DayOf(now) => /\ Begun.step = "recover"
                                 /\ \A g \in DOMAIN saved : ~saved[g] => g \in Begun.todo
  BY DEF Begun, Idle

LEMMA IdleNow == ASSUME TypeOK PROVE Idle.at <= now /\ Idle.new = None /\ Idle.step = "idle"
  BY DEF Idle, TypeOK

\* What a step of a setup, its own or another's, does to it.
LEMMA SetupMoves ==
  ASSUME TypeOK, NEW p \in Setups, NEW q \in Setups, SetupStep(q)
  PROVE  \/ q # p /\ setup'[p] = setup[p]
         \/ setup'[p] = Idle
         \/ /\ setup'[p].at = setup[p].at
            /\ \/ setup'[p].new = setup[p].new
               \/ \E h \in Games :
                    Plan(p, h) /\ setup'[p].new = Put(setup[p].new, h, CarriedMark(p, h))
<1>1. setup \in [Setups -> SetupState] /\ setup[p] \in SetupState
  BY SetupIs DEF TypeOK
<1>2. CASE p # q
  <2>1. setup'[p] = setup[p]
    BY <1>1, <1>2 DEF SetupStep, FetchFails, FetchNoGames, Fetch, Markets, Recover,
                      Plan, RecoverDone, PlanDone, Finish
  <2>. QED
    BY <1>2, <2>1
<1>3. CASE p = q
  <2>1. ASSUME FetchFails(p) \/ FetchNoGames(p) \/ RecoverDone(p) \/ PlanDone(p)
        PROVE setup'[p] = Idle
    BY <1>1, <2>1 DEF FetchFails, FetchNoGames, RecoverDone, PlanDone, Finish
  <2>2. ASSUME Fetch(p) \/ Markets(p) \/ (\E h \in Games : Recover(p, h))
        PROVE setup'[p].at = setup[p].at /\ setup'[p].new = setup[p].new
    BY <1>1, <2>2 DEF Fetch, Markets, Recover, SetupState
  <2>3. ASSUME NEW h \in Games, Plan(p, h)
        PROVE  /\ setup'[p].at = setup[p].at
               /\ setup'[p].new = Put(setup[p].new, h, CarriedMark(p, h))
    BY <1>1, <2>3 DEF Plan, SetupState
  <2>. QED
    BY <1>3, <2>1, <2>2, <2>3 DEF SetupStep
<1>. QED
  BY <1>2, <1>3

\* What the end of an evaluation does to a setup.
LEMMA ReturnMoves ==
  ASSUME TypeOK, NEW e \in evals, Judge(e) \/ Mark(e), NEW p \in Setups
  PROVE  \/ setup'[p] = setup[p]
         \/ /\ setup[p].step = "plan" /\ setup'[p].at = setup[p].at
            /\ setup'[p].new = Put(setup[p].new, e.game, TRUE)
<1>1. setup \in [Setups -> SetupState] /\ setup[p] \in SetupState
  BY SetupIs DEF TypeOK
<1>2. UNCHANGED setup \/ Return(e)
  BY DEF Judge, Decide, Mark
<1>3. CASE Return(e) /\ e.by = p /\ setup[p].step = "plan"
  BY <1>1, <1>3 DEF Return, SetupState
<1>4. CASE Return(e) /\ ~(e.by = p /\ setup[p].step = "plan")
  BY <1>1, <1>4 DEF Return
<1>. QED
  BY <1>2, <1>3, <1>4

\* The setups a step leaves: taken over, put at rest, begun, or gone on with.
LEMMA SetupsNow ==
  ASSUME TypeOK, Answered, [Next]_vars, NEW p \in Setups
  PROVE  setup'[p].at <= now' /\ now <= now'
<1>. USE DEF history, store, told, marks, listings
<1>1. now \in Nat /\ (now' = now \/ now' = now + 1)
  <2>1. ASSUME Tick PROVE now' = now + 1
    BY <2>1 DEF Tick
  <2>2. ASSUME ~Tick PROVE now' = now
    BY <2>2, ZenonT(60)
       DEF Next, SetupStep, FetchFails, FetchNoGames, Fetch, Markets, Recover, Plan,
           RecoverDone, PlanDone, JobStep, StartEvaluation, StartSetup, Miss,
           EvaluationStep, Judge, Mark, Start, Crash, vars
  <2>. QED
    BY <2>1, <2>2 DEF TypeOK
<1>2. setup \in [Setups -> SetupState] /\ setup[p] \in SetupState /\ setup[p].at <= now
  BY SetupIs DEF TypeOK, Answered
<1>3. setup'[p] \in {Idle, Begun} \/ setup'[p].at = setup[p].at
  <2>1. ASSUME NEW q \in Setups, SetupStep(q) PROVE setup'[p] = Idle \/ setup'[p].at = setup[p].at
    BY <2>1, SetupMoves
  <2>2. ASSUME NEW e \in evals, Judge(e) \/ Mark(e) PROVE setup'[p].at = setup[p].at
    BY <2>2, ReturnMoves
  <2>3. ASSUME JobStep \/ Tick \/ Start \/ Crash \/ UNCHANGED vars
        PROVE setup'[p] \in {Idle, Begun, setup[p]}
    BY <1>2, <2>3 DEF JobStep, StartEvaluation, StartSetup, Begin, Miss, Tick, Start, Crash,
                      vars, Setups
  <2>. QED
    BY <2>1, <2>2, <2>3 DEF Next, EvaluationStep
<1>4. setup[p].at \in Nat
  BY <1>2 DEF SetupState
<1>. QED
  <2>1. CASE setup'[p] = Idle
    BY <1>1, <2>1, IdleNow DEF Idle
  <2>2. CASE setup'[p] = Begun
    BY <1>1, <2>2, BegunNow
  <2>3. CASE setup'[p].at = setup[p].at
    BY <1>1, <1>2, <1>4, <2>3
  <2>. QED
    BY <1>1, <1>3, <2>1, <2>2, <2>3

LEMMA EvaluatedIsHeld ==
  ASSUME NEW g, NEW p, evals' = evals \cup {Evaluation(g, 0, p)}
  PROVE  Held(g)'
<1>1. Evaluation(g, 0, p) \in evals' /\ Evaluation(g, 0, p).game = g
  BY DEF Evaluation
<1>. QED
  BY <1>1 DEF Held, Queued

\* A game that is answered for stays so while the bot runs: a recovery that comes to it
\* queues it, evaluates it, or finds that it has tipped off.
LEMMA HeldStays ==
  ASSUME TypeOK, Marks, Answered, [Next]_vars, ~Crash, up, NEW g \in Games, Held(g)
  PROVE  Held(g)'
<1>. USE DEF history, store, told, marks, listings
<1>0. now \in Nat /\ now' \in Nat /\ now <= now' /\ Tip[g] \in Nat /\ TypeOK'
  <2>1. TypeOK'
    BY TypeStep
  <2>2. Main \in Setups
    BY DEF Setups
  <2>3. now <= now'
    BY <2>2, SetupsNow
  <2>. QED
    BY <2>1, <2>3, ScheduleAssumption DEF TypeOK
<1>1. CASE g \in decided \cup noticed
  BY <1>1, HistoryGrows DEF Held
<1>2. CASE Queued(g)
  BY <1>2, QueuedStays DEF Held
<1>3. CASE Tip[g] <= now
  BY <1>0, <1>3 DEF Held
<1>4. ASSUME NEW p \in Setups, setup[p].step = "recover", g \in setup[p].todo PROVE Held(g)'
  <2>1. setup \in [Setups -> SetupState] /\ setup[p] \in SetupState /\ setup[p].at <= now
    BY SetupIs DEF TypeOK, Answered
  <2>2. ASSUME setup'[p].step = "recover", setup'[p].todo = setup[p].todo PROVE Held(g)'
    BY <1>4, <2>2 DEF Held
  <2>3. ASSUME NEW q \in Setups, SetupStep(q) PROVE Held(g)'
    <3>1. CASE q # p
      <4>1. setup'[p] = setup[p]
        BY <2>1, <2>3, <3>1 DEF SetupStep, FetchFails, FetchNoGames, Fetch, Markets, Recover,
                                Plan, RecoverDone, PlanDone, Finish
      <4>. QED
        BY <1>4, <2>2, <4>1
    <3>2. CASE q = p
      <4>1. \E h \in Games : Recover(p, h)
        BY <1>4, <2>3, <3>2 DEF SetupStep, FetchFails, FetchNoGames, Fetch, Markets, Plan, Turn,
                                RecoverDone, PlanDone
      <4>2. PICK h \in Games : Recover(p, h)
        BY <4>1
      <4>3. CASE h # g
        <5>1. setup'[p].step = "recover" /\ g \in setup'[p].todo
          BY <1>4, <2>1, <4>2, <4>3 DEF Recover, SetupState
        <5>. QED
          BY <5>1 DEF Held
      <4>4. CASE h = g
        <5>1. CASE Register(g)
          <6>1. <<g, 0>> \in DOMAIN jobs'
            BY <5>1, RegisterIs
          <6>. QED
            BY <6>1, JobIdIs DEF Held, Queued
        <5>2. CASE evals' = evals \cup {Evaluation(g, 0, p)}
          BY <5>2, EvaluatedIsHeld
        <5>3. CASE Tip[g] <= setup[p].at
          <6>1. setup[p].at \in Nat
            BY <2>1 DEF SetupState
          <6>. QED
            BY <1>0, <2>1, <5>3, <6>1 DEF Held
        <5>. QED
          BY <4>2, <4>4, <5>1, <5>2, <5>3 DEF Recover
      <4>. QED
        BY <4>3, <4>4
    <3>. QED
      BY <3>1, <3>2
  <2>4. ASSUME NEW e \in evals, Judge(e) \/ Mark(e) PROVE Held(g)'
    <3>1. setup'[p] = setup[p]
      BY <1>4, <2>1, <2>4 DEF Judge, Decide, Mark, Return
    <3>. QED
      BY <1>4, <2>2, <3>1
  <2>5. ASSUME JobStep \/ Tick \/ UNCHANGED vars PROVE Held(g)'
    <3>1. setup'[p] = setup[p]
      BY <1>4, <2>1, <2>5 DEF JobStep, StartEvaluation, StartSetup, Begin, Miss, Tick, vars,
                              Setups
    <3>. QED
      BY <1>4, <2>2, <3>1
  <2>. QED
    BY <2>3, <2>4, <2>5 DEF Next, EvaluationStep, Start
<1>. QED
  BY <1>1, <1>2, <1>3, <1>4 DEF Held

\* Whatever a step adds to a setup's plan or to the saved schedule without a mark is
\* answered for.
LEMMA PlannedIsHeld ==
  ASSUME TypeOK, Marks, Answered, [Next]_vars, ~Crash, up, NEW p \in Setups,
         NEW g \in DOMAIN setup'[p].new, ~setup'[p].new[g]
  PROVE  Held(g)'
<1>. USE DEF history, store, told, marks, listings
<1>0. setup \in [Setups -> SetupState] /\ setup[p] \in SetupState
  BY SetupIs DEF TypeOK
<1>1. ASSUME setup'[p].new = setup[p].new PROVE Held(g)'
  <2>1. Held(g) /\ g \in Games
    BY <1>0, <1>1, ScheduleIs DEF Answered, SetupState
  <2>. QED
    BY <2>1, HeldStays
<1>2. ASSUME setup'[p].new = None PROVE FALSE
  BY <1>2 DEF None
<1>3. ASSUME NEW q \in Setups, SetupStep(q) PROVE Held(g)'
  <2>1. CASE \E h \in Games :
                Plan(p, h) /\ setup'[p].new = Put(setup[p].new, h, CarriedMark(p, h))
    <3>1. PICK h \in Games :
                Plan(p, h) /\ setup'[p].new = Put(setup[p].new, h, CarriedMark(p, h))
      BY <2>1
    <3>2. setup'[p].new = Put(setup[p].new, h, CarriedMark(p, h))
      BY <3>1
    <3>3. CASE g = h
      <4>1. ~CarriedMark(p, g)
        BY <3>2, <3>3 DEF Put
      <4>2. CASE Register(g)
        <5>1. <<g, 0>> \in DOMAIN jobs'
          BY <3>3, <4>2, RegisterIs
        <5>. QED
          BY <5>1, JobIdIs DEF Held, Queued
      <4>3. CASE evals' = evals \cup {Evaluation(g, 0, p)}
        BY <4>3, EvaluatedIsHeld
      <4>. QED
        BY <3>1, <3>3, <4>1, <4>2, <4>3 DEF Plan
    <3>4. CASE g # h
      <4>1. g \in DOMAIN setup[p].new /\ ~setup[p].new[g]
        BY <3>2, <3>4 DEF Put
      <4>2. Held(g) /\ g \in Games
        BY <1>0, <4>1, ScheduleIs DEF Answered, SetupState
      <4>. QED
        BY <4>2, HeldStays
    <3>. QED
      BY <3>3, <3>4
  <2>2. CASE setup'[p].new = setup[p].new \/ setup'[p] = Idle
    BY <1>1, <1>2, <2>2, IdleNow
  <2>. QED
    BY <1>3, <2>1, <2>2, SetupMoves
<1>4. ASSUME NEW e \in evals, Judge(e) \/ Mark(e) PROVE Held(g)'
  <2>1. CASE setup'[p].new = setup[p].new
    BY <1>1, <2>1
  <2>2. CASE setup'[p].new # setup[p].new
    <3>1. setup'[p].new = Put(setup[p].new, e.game, TRUE)
      BY <1>4, <2>2, ReturnMoves
    <3>2. g \in DOMAIN setup[p].new /\ ~setup[p].new[g]
      BY <3>1 DEF Put
    <3>3. Held(g) /\ g \in Games
      BY <1>0, <3>2, ScheduleIs DEF Answered, SetupState
    <3>. QED
      BY <3>3, HeldStays
  <2>. QED
    BY <2>1, <2>2
<1>5. ASSUME JobStep \/ Tick \/ UNCHANGED vars PROVE Held(g)'
  <2>1. setup'[p] \in {setup[p], Begun}
    BY <1>0, <1>5 DEF JobStep, StartEvaluation, StartSetup, Begin, Miss, Tick, vars, Setups
  <2>. QED
    BY <1>1, <1>2, <2>1, BegunNow
<1>. QED
  BY <1>3, <1>4, <1>5 DEF Next, EvaluationStep, Start

\* Every save writes what some setup has planned.
LEMMA SavedIsPlanned ==
  ASSUME TypeOK, [Next]_vars
  PROVE  \/ date' = date /\ saved' = saved
         \/ date' = date /\ \E g \in Games : MarkRow(g)
         \/ \E p \in Setups : \E f \in {None, setup[p].new, setup'[p].new} :
                Save(p, f) /\ f \in Schedules /\ (f = setup'[p].new \/ f = setup[p].new \/ f = None)
<1>. USE DEF history, store, told, marks, listings
<1>1. ASSUME NEW p \in Setups, SetupStep(p)
      PROVE  \/ date' = date /\ saved' = saved
             \/ \E f \in {None, setup[p].new, setup'[p].new} : Save(p, f) /\ f \in Schedules
  <2>1. setup \in [Setups -> SetupState] /\ setup[p] \in SetupState /\ setup[p].new \in Schedules
    BY SetupIs DEF TypeOK, SetupState
  <2>2. ASSUME NEW g \in Games, Plan(p, g), ~UNCHANGED store
        PROVE Save(p, setup'[p].new) /\ setup'[p].new \in Schedules
    <3>1. setup'[p].new = Put(setup[p].new, g, CarriedMark(p, g))
      BY <2>1, <2>2 DEF Plan, SetupState
    <3>2. CarriedMark(p, g) \in BOOLEAN
      BY <2>1, ScheduleIs DEF CarriedMark, SetupState
    <3>. QED
      BY <2>1, <2>2, <3>1, <3>2, PutIs DEF Plan
  <2>. QED
    BY <1>1, <2>1, <2>2, NoneIs DEF SetupStep, FetchFails, FetchNoGames, Fetch, Markets,
                                    Recover, Plan, RecoverDone, PlanDone
<1>2. ASSUME NEW e \in evals, Judge(e) \/ Mark(e)
      PROVE date' = date /\ (saved' = saved \/ \E g \in Games : MarkRow(g))
  <2>1. e.game \in Games
    BY DEF TypeOK
  <2>. QED
    BY <1>2, <2>1 DEF Judge, Mark
<1>3. ASSUME JobStep \/ Tick \/ Start \/ Crash \/ UNCHANGED vars
      PROVE date' = date /\ saved' = saved
  BY <1>3 DEF JobStep, StartEvaluation, StartSetup, Miss, Tick, Start, Crash, vars
<1>. QED
  BY <1>1, <1>2, <1>3 DEF Next, EvaluationStep

\* While the bot is down nothing is set up, and only a start ends that.
LEMMA DownIsIdle ==
  ASSUME TypeOK, Answered, [Next]_vars, ~up, ~Start
  PROVE  ~up' /\ setup' = setup
<1>. USE DEF history, store, told, marks, listings
<1>1. \A p \in Setups : setup[p] = Idle /\ setup[p].step = "idle"
  BY IdleNow DEF Answered
<1>2. ASSUME NEW p \in Setups, SetupStep(p) PROVE FALSE
  BY <1>1, <1>2 DEF SetupStep, FetchFails, FetchNoGames, Fetch, Markets, Recover, Plan, Turn,
                    RecoverDone, PlanDone
<1>3. ASSUME JobStep PROVE FALSE
  BY <1>3 DEF JobStep, StartEvaluation, StartSetup, Miss, Due
<1>4. ASSUME NEW e \in evals, Judge(e) \/ Mark(e) PROVE ~up' /\ setup' = setup
  BY <1>1, <1>4 DEF Judge, Decide, Mark, Return
<1>5. ASSUME Tick \/ Crash \/ UNCHANGED vars PROVE ~up' /\ setup' = setup
  BY <1>5 DEF Tick, Crash, vars
<1>. QED
  BY <1>2, <1>3, <1>4, <1>5 DEF Next, EvaluationStep

LEMMA AnsweredInit == Init => Answered
<1>. SUFFICES ASSUME Init PROVE Answered
  OBVIOUS
<1>1. now \in Nat /\ DayOf(now) \in Nat
  BY ScheduleAssumption, DayIsNat DEF Init
<1>2. date <= DayOf(now) /\ DOMAIN saved = {}
  BY <1>1 DEF Init, None
<1>3. \A p \in Setups : setup[p] = Idle /\ setup[p].at = 0 /\ DOMAIN setup[p].new = {}
  BY DEF Init, Idle, None
<1>. QED
  BY <1>1, <1>2, <1>3 DEF Answered

LEMMA AnsweredStep == TypeOK /\ Marks /\ Answered /\ [Next]_vars => Answered'
<1>. SUFFICES ASSUME TypeOK, Marks, Answered, [Next]_vars PROVE Answered'
  OBVIOUS
<1>. USE DEF history, store, told, marks, listings
<1>0. TypeOK' /\ now \in Nat /\ now' \in Nat /\ Main \in Setups
  BY TypeStep DEF TypeOK, Setups
<1>1. now <= now' /\ DayOf(now) <= DayOf(now') /\ DayOf(now) \in Nat /\ DayOf(now') \in Nat
  <2>1. now <= now'
    BY <1>0, SetupsNow
  <2>. QED
    BY <1>0, <2>1, DayGrows, DayIsNat
<1>2. ASSUME NEW p \in Setups PROVE setup'[p].at <= now'
  BY <1>2, SetupsNow
<1>3. date' <= DayOf(now')
  <2>1. CASE date' = date
    BY <1>1, <2>1 DEF Answered, TypeOK
  <2>2. ASSUME NEW p \in Setups, NEW f, Save(p, f) PROVE date' <= DayOf(now')
    <3>1. setup[p].at \in Nat /\ setup[p].at <= now
      BY SetupIs DEF SetupState, Answered
    <3>2. DayOf(setup[p].at) <= DayOf(now) /\ DayOf(setup[p].at) \in Nat
      BY <1>0, <3>1, DayGrows, DayIsNat
    <3>. QED
      BY <1>1, <2>2, <3>2 DEF Save
  <2>. QED
    BY <2>1, <2>2, SavedIsPlanned
<1>4. up' \/ \A p \in Setups : setup'[p] = Idle
  <2>1. CASE up /\ ~Crash
    <3>1. up'
      <4>1. ASSUME NEW p \in Setups, SetupStep(p) PROVE up'
        BY <2>1, <4>1 DEF SetupStep, FetchFails, FetchNoGames, Fetch, Markets, Recover, Plan,
                          RecoverDone, PlanDone
      <4>2. ASSUME JobStep \/ EvaluationStep \/ Tick \/ Start \/ UNCHANGED vars PROVE up'
        BY <2>1, <4>2 DEF JobStep, StartEvaluation, StartSetup, Miss, EvaluationStep, Judge,
                          Mark, Tick, Start, vars
      <4>. QED
        BY <2>1, <4>1, <4>2 DEF Next
    <3>. QED
      BY <3>1
  <2>2. CASE Crash
    BY <2>2 DEF Crash
  <2>3. CASE Start
    BY <2>3 DEF Start
  <2>4. CASE ~up /\ ~Start
    BY <2>4, DownIsIdle DEF Answered
  <2>. QED
    BY <2>1, <2>2, <2>3, <2>4
<1>5. ASSUME NEW p \in Setups, NEW g \in DOMAIN setup'[p].new, ~setup'[p].new[g] PROVE Held(g)'
  <2>0. setup'[p] # Idle /\ setup'[p].new # None
    BY <1>5, IdleNow DEF None
  <2>1. CASE up /\ ~Crash
    BY <1>5, <2>1, PlannedIsHeld
  <2>2. CASE Crash
    BY <2>0, <2>2 DEF Crash
  <2>3. CASE Start
    <3>1. setup'[p] \in {Begun, setup[p]} /\ setup[p] = Idle
      BY <2>3 DEF Start, Begin, TypeOK, Answered
    <3>. QED
      BY <2>0, <3>1, BegunNow
  <2>4. CASE ~up /\ ~Start
    BY <2>0, <2>4, DownIsIdle DEF Answered
  <2>. QED
    BY <2>1, <2>2, <2>3, <2>4
<1>6. ASSUME up', date' = DayOf(now'), NEW g \in DOMAIN saved', ~saved'[g] PROVE Held(g)'
  <2>0. g \in Games
    BY <1>0, <1>6, ScheduleIs DEF TypeOK
  <2>1. CASE up /\ ~Crash
    <3>1. ASSUME date' = date, g \in DOMAIN saved, ~saved[g] PROVE Held(g)'
      <4>1. date = DayOf(now)
        BY <1>1, <1>6, <3>1 DEF Answered, TypeOK
      <4>. QED
        BY <2>0, <2>1, <3>1, <4>1, HeldStays DEF Answered
    <3>2. ASSUME NEW h \in Games, MarkRow(h), date' = date PROVE Held(g)'
      <4>1. g \in DOMAIN saved /\ ~saved[g]
        BY <1>6, <3>2 DEF MarkRow
      <4>. QED
        BY <3>1, <3>2, <4>1
    <3>3. ASSUME NEW p \in Setups, NEW f \in Schedules, Save(p, f),
                 f = setup'[p].new \/ f = setup[p].new \/ f = None
          PROVE Held(g)'
      <4>1. g \in DOMAIN f /\ ~f[g]
        BY <1>6, <3>3 DEF Save, Replaced
      <4>2. CASE f = setup'[p].new
        BY <2>1, <4>1, <4>2, PlannedIsHeld
      <4>3. CASE f = setup[p].new
        BY <2>0, <2>1, <4>1, <4>3, HeldStays DEF Answered
      <4>4. CASE f = None
        BY <4>1, <4>4 DEF None
      <4>. QED
        BY <3>3, <4>2, <4>3, <4>4
    <3>. QED
      BY <1>6, <3>1, <3>2, <3>3, SavedIsPlanned
  <2>2. CASE Crash
    BY <1>6, <2>2 DEF Crash
  <2>3. CASE Start
    <3>1. UNCHANGED <<now, date, saved>> /\ setup'[Main] = Begun
      BY <1>0, <2>3 DEF Start, Begin, TypeOK
    <3>2. Begun.step = "recover" /\ g \in Begun.todo
      BY <1>6, <3>1, BegunNow DEF DayOf
    <3>. QED
      BY <1>0, <3>1, <3>2 DEF Held
  <2>4. CASE ~up /\ ~Start
    BY <1>6, <2>4, DownIsIdle
  <2>. QED
    BY <2>1, <2>2, <2>3, <2>4
<1>. QED
  BY <1>2, <1>3, <1>4, <1>5, <1>6 DEF Answered

\* While the bot runs, every saved game of the day that has neither fired nor tipped off
\* is in someone's hands, was decided, or was lost with a message to the operator,
\* whatever crashed, however often a setup ran and however the setups overlapped.
THEOREM NoGameForgotten == Spec => []NoneForgotten
<1>1. TypeOK /\ Answered => NoneForgotten
  <2>. SUFFICES ASSUME TypeOK, Answered, up, date = DayOf(now),
                       NEW g \in DOMAIN saved, ~saved[g], now < Tip[g]
                PROVE InHand(g) \/ g \in decided \cup noticed
    BY DEF NoneForgotten
  <2>1. Held(g) /\ now \in Nat /\ Tip[g] \in Nat
    BY ScheduleAssumption, ScheduleIs DEF Answered, TypeOK
  <2>. QED
    BY <2>1 DEF Held, Queued, InHand
<1>. QED
  BY <1>1, AnsweredInit, AnsweredStep, MarksInit, MarksStep, TypeInit, TypeStep, PTL DEF Spec
=============================================================================
