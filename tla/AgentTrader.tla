----------------------------- MODULE AgentTrader -----------------------------
(***************************************************************************)
(* The LLM trader (src/agent_trader): a scheduler process that fires one   *)
(* cycle at a time (scheduler.py), the cycle's funnel from reconciliation  *)
(* to triage and the pool of workers that research, decide and order       *)
(* (orchestrator.py), the budgets, killswitch and chain log they share     *)
(* (runtime.py), and the reflection job beside them (reflection.py).       *)
(* Answers of the LLM are choices among what the code tells apart: a       *)
(* usable answer, a malformed one, a call that raises.                     *)
(***************************************************************************)
EXTENDS Integers, FiniteSets

CONSTANTS
    Tickers,        \* the markets of Kalshi
    Nobody,         \* no such market
    Live,           \* started with --live
    MaxPicks,       \* bound: how many tickers triage names
    PoolSize,       \* DEFAULT_MAX_CONCURRENT_MARKETS
    Costs,          \* what an LLM call may cost
    FilterCosts,    \* what the coarse filter's calls may cost together
    MarketCap,      \* market_budget_usd
    CycleCap,       \* cycle_budget_usd
    MaxApiCycles,   \* DEFAULT_MAX_CONSECUTIVE_API_ERRORS
    MaxErrors,      \* DEFAULT_MAX_ERRORS_WITHIN_30M
    MaxMalformed,   \* DEFAULT_MAX_CONSECUTIVE_MALFORMED
    MaxCycles,      \* bound: cycles opened
    MaxFinds,       \* bound: discoveries that find markets
    MaxStarts,      \* bound: starts of the process
    MaxFaults       \* bound: calls that fail and answers that are malformed

ASSUME AgentAssumption ==
    /\ Nobody \notin Tickers /\ Live \in BOOLEAN
    /\ PoolSize \in Nat \ {0}
    /\ Costs \subseteq Nat /\ FilterCosts \subseteq Nat
    /\ {MaxPicks, MarketCap, CycleCap, MaxApiCycles, MaxErrors, MaxMalformed,
        MaxCycles, MaxFinds, MaxStarts, MaxFaults} \subseteq Nat

VARIABLES
    proc,           \* the process: "up", "leaving" after a signal, "down"
    since,          \* the first cycle that may be this process's
    ks,             \* its killswitch
    cyc,            \* the cycle under way
    work,           \* the market of each of triage's picks
    wk,             \* the worker of each pick
    refl,           \* the reflection job
    row,            \* sqlite: the cycles table
    log,            \* sqlite: the steps in chain_log, per cycle and market
    booked,         \* sqlite: the orders table
    orders,         \* Kalshi: the orders it accepted
    halt,           \* 0, or the cycle by which the halt file was there
    troubled,       \* cycles in which a call failed as the code notes it
    finds, faults, starts   \* counters of the bounds

process == <<proc, since, halt, finds, starts>>
pool == <<work, wk>>
db == <<row, log, booked>>
vars == <<process, pool, db, ks, cyc, refl, orders, troubled, faults>>

Cycles == 1..MaxCycles
Picks == 1..MaxPicks
Steps == {"triage", "plan", "framework", "findings", "decision", "execute"}
Stages == {"idle", "reconcile", "discover", "filter", "triage", "submit", "pool"}
WorkerStates == {"none", "queued", "plan", "framework", "research", "decide",
                 "post", "sent", "raised", "done"}
CloseStatus == {"ok", "aborted", "killswitch"}

NoErrors == [api |-> 0, errs |-> 0, bad |-> 0, tripped |-> FALSE]
NoCycle == [id |-> 0, stage |-> "idle", eligible |-> {}, spent |-> 0, errors |-> FALSE]
NoWork == [s \in Picks |-> Nobody]
Finished == [at |-> "done", spent |-> 0]
NoWorker == [s \in Picks |-> [at |-> "none", spent |-> 0]]

Init ==
    /\ proc = "down" /\ since = 1
    /\ ks = NoErrors /\ cyc = NoCycle /\ work = NoWork /\ wk = NoWorker /\ refl = "idle"
    /\ row = [c \in Cycles |-> "none"]
    /\ log = [c \in Cycles |-> [t \in Tickers |-> {}]]
    /\ booked = {} /\ orders = {}
    /\ halt = 0 /\ troubled = {}
    /\ finds = 0 /\ faults = 0 /\ starts = 0

Opened == {c \in Cycles : row[c] # "none"}
Last == Cardinality(Opened)
Fault == /\ faults < MaxFaults
         /\ faults' = faults + 1

-----------------------------------------------------------------------------
(* The killswitch's counters (runtime.py).                                 *)

\* note_api_error: one more timestamp, and those of more than 30 minutes ago go.
NoteError(k, n) == [k EXCEPT !.errs = n + 1]

NoteCycleOnce(k, errors) == [k EXCEPT !.api = IF errors THEN 1 ELSE 0]

NoteCycle(k, errors) == [k EXCEPT !.api = IF errors THEN @ + 1 ELSE 0]

NoteAnswer(k, malformed) == [k EXCEPT !.bad = IF malformed THEN @ + 1 ELSE 0]

ReasonButNoHaltFile(poor) ==
    \/ poor
    \/ ks.api >= MaxApiCycles
    \/ ks.errs >= MaxErrors
    \/ ks.bad >= MaxMalformed

\* check: why to halt, if at all.
Reason(poor) ==
    \/ halt # 0
    \/ poor
    \/ ks.api >= MaxApiCycles
    \/ ks.errs >= MaxErrors
    \/ ks.bad >= MaxMalformed

-----------------------------------------------------------------------------
(* The cycle's thread.                                                     *)

InCycle(stage) == proc # "down" /\ cyc.stage = stage

\* The job's early returns, then open_cycle.
Fire ==
    /\ proc = "up" /\ cyc.stage = "idle"
    /\ ~ks.tripped
    /\ Last < MaxCycles
    /\ cyc' = [NoCycle EXCEPT !.id = Last + 1, !.stage = "reconcile"]
    /\ row' = [row EXCEPT ![Last + 1] = "running"]
    /\ UNCHANGED <<process, pool, log, booked, ks, refl, orders, troubled, faults>>

\* run_cycle ends; its row says so, or is left as it is when an exception ended it.
Leave(rows) ==
    /\ row' = rows
    /\ cyc' = NoCycle /\ work' = NoWork /\ wk' = NoWorker
    /\ UNCHANGED <<process, log, booked, refl, orders>>

CloseAs(status) == Leave([row EXCEPT ![cyc.id] = status])

\* The early ends after a reconciliation or a discovery that raised.
Fail ==
    /\ Fault
    /\ \E n \in 0..ks.errs : ks' = NoteCycle(NoteError(ks, n), TRUE)
    /\ troubled' = troubled \cup {cyc.id}
    /\ CloseAs("aborted")

Quiet == UNCHANGED <<process, db, refl, orders, troubled>>

ReconcileFails == InCycle("reconcile") /\ Fail

Reconcile ==
    /\ InCycle("reconcile")
    /\ ~Reason(FALSE)
    /\ cyc' = [cyc EXCEPT !.stage = "discover"]
    /\ Quiet /\ UNCHANGED <<pool, ks, faults>>

\* check found a reason: trip, for as long as the process lives.
Trip(poor) ==
    /\ InCycle("reconcile")
    /\ Reason(poor)
    /\ IF poor THEN Fault ELSE UNCHANGED faults
    /\ ks' = [ks EXCEPT !.tripped = TRUE]
    /\ CloseAs("killswitch")
    /\ UNCHANGED troubled

\* The cycle is over with nothing to trade, after a call that did not raise.
NothingToDo ==
    /\ ks' = NoteCycle(ks, cyc.errors)
    /\ CloseAs("ok")
    /\ UNCHANGED <<troubled, faults>>

DiscoverFails == InCycle("discover") /\ Fail

\* list_markets answers a failed request with no markets.
DiscoverNone == InCycle("discover") /\ NothingToDo

Discover ==
    /\ InCycle("discover")
    /\ finds < MaxFinds /\ finds' = finds + 1
    /\ \E found \in SUBSET Tickers \ {{}} :
        cyc' = [cyc EXCEPT !.stage = "filter", !.eligible = found]
    /\ UNCHANGED <<proc, since, halt, starts, pool, db, ks, refl, orders, troubled, faults>>

\* The coarse filter's parallel calls, each against the cycle's spend before them.
\* What they cost is added once they are all back.
CoarseFilter ==
    /\ InCycle("filter") /\ proc = "up"
    /\ \E kept \in SUBSET cyc.eligible \ {{}}, cost \in FilterCosts :
        cyc' = [cyc EXCEPT !.stage = "triage", !.eligible = kept, !.spent = @ + cost]
    /\ Quiet /\ UNCHANGED <<pool, ks, faults>>

CoarseFilterNone == InCycle("filter") /\ proc = "up" /\ NothingToDo

\* A call raised, or the pool takes no work from an interpreter that is shutting
\* down: the whole filter raises, every market stays and nothing is charged.
CoarseFilterRaises ==
    /\ InCycle("filter")
    /\ IF proc = "up" THEN Fault ELSE UNCHANGED faults
    /\ cyc' = [cyc EXCEPT !.stage = "triage"]
    /\ Quiet /\ UNCHANGED <<pool, ks>>

\* Triage names tickers, some perhaps twice, some that are not in the list.
Triage ==
    /\ InCycle("triage") /\ cyc.spent <= CycleCap
    /\ \E names \in [Picks -> cyc.eligible \cup {Nobody}], cost \in Costs :
        /\ work' = names
        /\ cyc' = [cyc EXCEPT !.stage = "submit", !.spent = @ + cost]
    /\ ks' = NoteAnswer(ks, FALSE)
    /\ Quiet /\ UNCHANGED <<wk, faults>>

TriageAborts ==
    /\ InCycle("triage")
    /\ \/ /\ cyc.spent > CycleCap
          /\ ks' = NoteCycle(ks, cyc.errors)
          /\ UNCHANGED faults
       \/ /\ cyc.spent <= CycleCap
          /\ Fault
          /\ ks' = NoteCycle(NoteAnswer(ks, TRUE), cyc.errors)
    /\ CloseAs("aborted")
    /\ UNCHANGED troubled

\* Nobody catches an API error of triage but the job: the row stays "running".
TriageRaises ==
    /\ InCycle("triage") /\ cyc.spent <= CycleCap
    /\ Fault
    /\ Leave(row)
    /\ UNCHANGED <<ks, troubled>>

Submit ==
    /\ InCycle("submit")
    /\ proc = "up" \/ work = NoWork
    /\ wk' = [s \in Picks |-> [at |-> IF work[s] = Nobody THEN "done" ELSE "queued",
                              spent |-> 0]]
    /\ cyc' = [cyc EXCEPT !.stage = "pool"]
    /\ Quiet /\ UNCHANGED <<work, ks, faults>>

\* pool.submit raises once the interpreter is shutting down.
SubmitRaises ==
    /\ InCycle("submit")
    /\ proc = "leaving" /\ work # NoWork
    /\ Leave(row)
    /\ UNCHANGED <<ks, troubled, faults>>

CollectFirst(s) ==
    /\ InCycle("pool") /\ wk[s].at = "raised" /\ ~cyc.errors
    /\ wk' = [wk EXCEPT ![s].at = "done"]
    /\ \E n \in 0..ks.errs : ks' = NoteError(ks, n)
    /\ cyc' = [cyc EXCEPT !.errors = TRUE]
    /\ UNCHANGED <<process, db, work, refl, orders, troubled, faults>>

\* as_completed hands over a worker that raised.
Collect(s) ==
    /\ InCycle("pool") /\ wk[s].at = "raised"
    /\ wk' = [wk EXCEPT ![s].at = "done"]
    /\ \E n \in 0..ks.errs : ks' = NoteError(ks, n)
    /\ cyc' = [cyc EXCEPT !.errors = TRUE]
    /\ UNCHANGED <<process, db, work, refl, orders, troubled, faults>>

\* The with block has waited for every worker.
Close ==
    /\ InCycle("pool")
    /\ \A s \in Picks : wk[s].at = "done"
    /\ ks' = NoteCycle(ks, cyc.errors)
    /\ CloseAs("ok")
    /\ UNCHANGED <<troubled, faults>>

-----------------------------------------------------------------------------
(* The workers (process_market), each with a budget of its own that starts *)
(* from the cycle's spend when they were submitted.                        *)

Active == {s \in Picks : wk[s].at \notin {"none", "queued", "raised", "done"}}

Worker(s, at) == InCycle("pool") /\ wk[s].at = at
Note(s, step) == log' = [log EXCEPT ![cyc.id][work[s]] = @ \cup {step}]
Beside == UNCHANGED <<process, row, cyc, work, refl>>

BeginUnlogged(s) ==
    /\ Worker(s, "queued")
    /\ Cardinality(Active) < PoolSize
    /\ \A r \in Picks : wk[r].at = "queued" => s <= r
    /\ wk' = [wk EXCEPT ![s].at = "plan"]
    /\ Beside /\ UNCHANGED <<ks, log, booked, orders, troubled, faults>>

Begin(s) ==
    /\ Worker(s, "queued")
    /\ Cardinality(Active) < PoolSize
    /\ \A r \in Picks : wk[r].at = "queued" => s <= r
    /\ wk' = [wk EXCEPT ![s].at = "plan"]
    /\ Note(s, "triage")
    /\ Beside /\ UNCHANGED <<ks, booked, orders, troubled, faults>>

WithinMarketBudget(s) == wk[s].spent <= MarketCap

\* will_exceed(0.0), before each call.
WithinBudget(s) ==
    /\ wk[s].spent <= MarketCap
    /\ cyc.spent + wk[s].spent <= CycleCap

OutOfBudget(s) ==
    /\ \E at \in {"plan", "framework", "research", "decide"} : Worker(s, at)
    /\ ~WithinBudget(s)
    /\ wk' = [wk EXCEPT ![s] = Finished]
    /\ Beside /\ UNCHANGED <<ks, log, booked, orders, troubled, faults>>

\* A call that was answered as its schema asks, and the row for its step.
Answered(s, at, step, next) ==
    /\ Worker(s, at) /\ WithinBudget(s)
    /\ \E cost \in Costs :
        wk' = [wk EXCEPT ![s] = [at |-> next, spent |-> @.spent + cost]]
    /\ ks' = NoteAnswer(ks, FALSE)
    /\ Note(s, step)
    /\ Beside /\ UNCHANGED <<booked, orders, troubled, faults>>

Plan(s) == Answered(s, "plan", "plan", "framework")
Framework(s) == Answered(s, "framework", "framework", "research")

\* The findings, and the benchmark that says whether they are enough.
Research(s) == \E next \in {"decide", "done"} : Answered(s, "research", "findings", next)
Decide(s) == Answered(s, "decide", "decision", "post")

Malformed(s) ==
    /\ \E at \in {"plan", "framework", "research", "decide"} : Worker(s, at)
    /\ WithinBudget(s)
    /\ Fault
    /\ \E cost \in Costs :
        wk' = [wk EXCEPT ![s] = [at |-> "done", spent |-> @.spent + cost]]
    /\ ks' = NoteAnswer(ks, TRUE)
    /\ Beside /\ UNCHANGED <<log, booked, orders, troubled>>

\* An API error leaves the worker, and what it had spent is not reported.
Raises(s) ==
    /\ \E at \in {"plan", "framework", "research", "decide"} : Worker(s, at)
    /\ WithinBudget(s)
    /\ Fault
    /\ wk' = [wk EXCEPT ![s] = [at |-> "raised", spent |-> 0]]
    /\ troubled' = troubled \cup {cyc.id}
    /\ Beside /\ UNCHANGED <<ks, log, booked, orders>>

\* A dry run, a decision to hold or skip, one that the sanity checks reject, or
\* nothing to close: no order, and no row in orders without a client_order_id.
NoOrder(s) ==
    /\ Worker(s, "post")
    /\ wk' = [wk EXCEPT ![s] = Finished]
    /\ Note(s, "execute")
    /\ Beside /\ UNCHANGED <<ks, booked, orders, troubled, faults>>

\* An order is named by cycle, ticker and place in triage's list.
OrderId(s) == <<cyc.id, work[s], s>>

\* The POST: Kalshi takes the order, or it is refused or lost on the way.  An
\* answer that is lost on its way back looks to the worker like a refusal.
Post(s) ==
    /\ Worker(s, "post") /\ Live
    /\ wk' = [wk EXCEPT ![s].at = "sent"]
    /\ \E taken \in BOOLEAN : orders' = IF taken THEN orders \cup {OrderId(s)} ELSE orders
    /\ Beside /\ UNCHANGED <<ks, log, booked, troubled, faults>>

RecordAccepted(s) ==
    /\ Worker(s, "sent")
    /\ wk' = [wk EXCEPT ![s] = Finished]
    /\ Note(s, "execute")
    /\ \E answered \in BOOLEAN :
        booked' = IF answered THEN booked \cup {OrderId(s)} ELSE booked
    /\ Beside /\ UNCHANGED <<ks, orders, troubled, faults>>

\* log_step and log_order, whatever the answer was.
Record(s) ==
    /\ Worker(s, "sent")
    /\ wk' = [wk EXCEPT ![s] = Finished]
    /\ Note(s, "execute")
    /\ booked' = booked \cup {OrderId(s)}
    /\ Beside /\ UNCHANGED <<ks, orders, troubled, faults>>

WorkerStep(s) ==
    \/ Begin(s) \/ OutOfBudget(s)
    \/ Plan(s) \/ Framework(s) \/ Research(s) \/ Decide(s)
    \/ Malformed(s) \/ Raises(s)
    \/ NoOrder(s) \/ Post(s) \/ Record(s)

-----------------------------------------------------------------------------
(* The reflection job, once a day, in a thread of its own.                 *)

Prerequisites == {"triage", "plan", "framework", "findings"}

\* The job's early returns; then every decision whose steps are all logged is
\* graded, and without any there is nothing to ask.
Reflect ==
    /\ proc = "up" /\ refl = "idle" /\ ~ks.tripped
    /\ \E c \in Opened, t \in Tickers : Prerequisites \cup {"decision"} \subseteq log[c][t]
    /\ refl' = "ask"
    /\ UNCHANGED <<process, pool, db, ks, cyc, orders, troubled, faults>>

\* One call, whose answer counts with the workers' for the killswitch; or it raises.
ReflectAnswer ==
    /\ proc # "down" /\ refl = "ask"
    /\ refl' = "idle"
    /\ \/ ks' = NoteAnswer(ks, FALSE) /\ UNCHANGED faults
       \/ ks' = NoteAnswer(ks, TRUE) /\ Fault
       \/ UNCHANGED ks /\ Fault
    /\ UNCHANGED <<process, pool, db, cyc, orders, troubled>>

-----------------------------------------------------------------------------
(* The process.                                                            *)

Start ==
    /\ proc = "down" /\ starts < MaxStarts
    /\ proc' = "up" /\ starts' = starts + 1
    /\ since' = Last + 1
    /\ ks' = NoErrors
    /\ UNCHANGED <<pool, db, cyc, refl, orders, halt, finds, troubled, faults>>

\* SIGTERM: the handler takes one argument and is called with two, so a TypeError
\* leaves scheduler.start() and the interpreter waits for the running jobs.
Signal ==
    /\ proc = "up"
    /\ proc' = "leaving"
    /\ UNCHANGED <<since, halt, finds, starts, pool, db, ks, cyc, refl, orders, troubled, faults>>

Gone == /\ proc' = "down"
        /\ cyc' = NoCycle /\ work' = NoWork /\ wk' = NoWorker /\ refl' = "idle"
        /\ UNCHANGED <<since, halt, finds, starts, db, ks, orders, troubled, faults>>

Exit == proc = "leaving" /\ cyc.stage = "idle" /\ refl = "idle" /\ Gone

Crash == proc # "down" /\ Gone

\* touch ~/.kalshi-agent.halt
Halt ==
    /\ halt = 0 /\ Last > 0
    /\ halt' = Last
    /\ UNCHANGED <<proc, since, finds, starts, pool, db, ks, cyc, refl, orders, troubled, faults>>

CycleStep ==
    \/ Reconcile \/ ReconcileFails \/ (\E poor \in BOOLEAN : Trip(poor))
    \/ Discover \/ DiscoverNone \/ DiscoverFails
    \/ CoarseFilter \/ CoarseFilterNone \/ CoarseFilterRaises
    \/ Triage \/ TriageAborts \/ TriageRaises
    \/ Submit \/ SubmitRaises \/ (\E s \in Picks : Collect(s)) \/ Close

Next ==
    \/ Fire \/ CycleStep \/ (\E s \in Picks : WorkerStep(s))
    \/ Reflect \/ ReflectAnswer
    \/ Start \/ Signal \/ Exit \/ Crash \/ Halt

Spec == Init /\ [][Next]_vars

\* Calls have timeouts, so the threads that run get on, and an interpreter with
\* nothing to wait for exits.
Working == CycleStep \/ (\E s \in Picks : WorkerStep(s)) \/ ReflectAnswer \/ Exit

FairSpec == Spec /\ WF_vars(Working)

-----------------------------------------------------------------------------
Switch == [api : Nat, errs : Nat, bad : Nat, tripped : BOOLEAN]
CycleState == [id : 0..MaxCycles, stage : Stages, eligible : SUBSET Tickers,
               spent : Nat, errors : BOOLEAN]
Names == [Picks -> Tickers \cup {Nobody}]
Workers == [Picks -> [at : WorkerStates, spent : Nat]]
Rows == [Cycles -> CloseStatus \cup {"none", "running"}]
Logs == [Cycles -> [Tickers -> SUBSET Steps]]
OrderIds == Cycles \X Tickers \X Picks

\* Type invariant.
TypeOK ==
    /\ proc \in {"up", "leaving", "down"} /\ since \in 1..MaxCycles + 1
    /\ ks \in Switch
    /\ cyc \in CycleState
    /\ work \in Names /\ wk \in Workers
    /\ refl \in {"idle", "ask"}
    /\ row \in Rows /\ log \in Logs
    /\ booked \subseteq OrderIds /\ orders \subseteq OrderIds
    /\ halt \in 0..MaxCycles /\ troubled \subseteq Cycles
    /\ finds \in 0..MaxFinds /\ faults \in 0..MaxFaults /\ starts \in 0..MaxStarts

\* The soft ceiling (orchestrator.py:614): with the workers blind to each other, a
\* market is over its own cap or the cycle's by less than one call of its own.
SpendWithinCaps ==
    \A s \in Picks : wk[s].spent > 0 =>
        \E cost \in Costs :
            /\ wk[s].spent - cost <= MarketCap
            /\ cyc.spent + wk[s].spent - cost <= CycleCap

\* An order at Kalshi can be traced to everything it was decided from, through
\* crashes too (architecture.md:316).
OrdersAreExplained ==
    \A o \in orders : Prerequisites \cup {"decision"} \subseteq log[o[1]][o[2]]

\* When a cycle's row is closed, its orders are all in the orders table.
ClosedIsBooked ==
    \A o \in orders : row[o[1]] # "running" => o \in booked

\* After MaxApiCycles cycles in a row with errors, as many as this process has
\* counted, no cycle gets past the killswitch (runtime.py:196).
Ended(c) == row[c] \in CloseStatus
FailuresHalt ==
    cyc.stage \notin {"idle", "reconcile"} =>
        \A c \in since..cyc.id - 1 :
            Cardinality({d \in c..cyc.id - 1 : Ended(d)}) >= MaxApiCycles
                => \E d \in c..cyc.id - 1 : Ended(d) /\ d \notin troubled

\* The halt file stops every cycle after the one under way (scheduler.py:23), in
\* this process and in every later one.
HaltIsHeeded == \A o \in orders : halt # 0 => o[1] <= halt

\* A process that tripped orders nothing more and opens no cycle.
TrippedIsFinal ==
    [][ks.tripped /\ ks'.tripped => orders' = orders /\ Opened' = Opened]_vars

\* A signalled process ends by itself.
LeavesWhenTold == proc = "leaving" ~> proc = "down"
=============================================================================
