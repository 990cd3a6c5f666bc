---------------------------- MODULE GameSchedule ----------------------------
(***************************************************************************)
(* The daily schedule of src/nba_trading/main.py: the setup that lists the *)
(* day's games (at start, at the 00:05 rollover, again after a failed      *)
(* fetch), the scheduler's jobs, which live in memory, the evaluations     *)
(* they start, with their retries, and the saved schedule with its fired   *)
(* marks, which outlives a crash.  The bot is live: a dry run marks        *)
(* nothing.  What an evaluation does to money is OrderLifecycle's subject: *)
(* here it only ends with a decision or with a transient failure.          *)
(***************************************************************************)
EXTENDS Integers

CONSTANTS
    Games,          \* the games Kalshi lists
    Tip,            \* their tip-off times
    Starts,         \* times at which the bot is started first
    Main, Roll, Again,  \* who runs a setup: the main thread or one of two jobs
    Pool,           \* who runs an evaluation that no setup runs
    Day,            \* length of a day; day d begins at d * Day
    RollAt,         \* time of day of the rollover (00:05)
    Window,         \* how far ahead games are listed (24 hours)
    Lead,           \* an evaluation is due this long before tip-off (15 minutes)
    GameGrace,      \* how late an evaluation's job may start (5 minutes)
    SetupGrace,     \* how late a setup's job may start
    RetryDelay,     \* between two attempts at a game (1 minute)
    StopBefore,     \* no retry nearer to tip-off (3 minutes)
    MaxRetries,     \* retries after the first attempt (3)
    SetupDelay,     \* between two attempts at the schedule (10 minutes)
    SetupTime,      \* bound: how long a setup may take (its requests time out)
    End,            \* bound: the last instant
    MaxCrashes,     \* bound: crashes
    MaxFaults       \* bound: fetches and marks that fail

Setups == {Main, Roll, Again}

ASSUME ScheduleAssumption ==
    /\ Tip \in [Games -> Nat]
    /\ Starts \subseteq 0 .. End
    /\ Day \in Nat \ {0}
    /\ {RollAt, Window, Lead, GameGrace, SetupGrace, RetryDelay, StopBefore,
        MaxRetries, SetupDelay, SetupTime, End, MaxCrashes, MaxFaults} \subseteq Nat
    /\ Main # Roll /\ Main # Again /\ Roll # Again /\ Pool \notin Setups
    /\ Games \cap (Setups \cup {Pool}) = {}

VARIABLES
    now,        \* the clock
    date,       \* the saved schedule's day, -1 when none is saved
    saved,      \* the saved schedule: its games and whether each has fired
    jobs,       \* the scheduler's queue: when each queued job is due
    setup,      \* the setups under way
    evals,      \* the evaluations under way
    up,         \* the process runs
    decided,    \* games some evaluation has decided
    noticed,    \* what was lost with a message to the operator: games, and setups
    marked,     \* games whose fired mark has been in the database
    lost,       \* of these, games whose mark was gone with its row when a setup
                \* read the schedule, or wrote the game anew
    shown,      \* the listings the setups worked from: their day and open games
    torn,       \* days whose planning a crash has cut short
    crashes, faults

told == <<decided, noticed>>
marks == <<marked, lost>>
listings == <<shown, torn>>
history == <<told, marks, listings, crashes, faults>>
store == <<date, saved>>
vars == <<now, store, jobs, setup, evals, up, history>>

JobIds == (Games \X (0 .. MaxRetries)) \cup {<<Roll, 0>>, <<Again, 0>>}

DayOf(t) == t \div Day
Trigger(g) == Tip[g] - Lead

\* f with k mapped to v: an entry of a schedule, or add_job with replace_existing.
Put(f, k, v) == [x \in DOMAIN f \cup {k} |-> IF x = k THEN v ELSE f[x]]
Without(f, k) == [x \in DOMAIN f \ {k} |-> f[x]]

None == [x \in {} |-> TRUE]
Idle == [step |-> "idle", at |-> 0, old |-> None, todo |-> {}, new |-> None]

Init ==
    /\ now \in Starts
    /\ date = -1
    /\ saved = None
    /\ jobs = [x \in {} |-> 0]
    /\ setup = [p \in Setups |-> Idle]
    /\ evals = {}
    /\ up = FALSE
    /\ decided = {}
    /\ noticed = {}
    /\ marked = {} /\ lost = {}
    /\ shown = {} /\ torn = {}
    /\ crashes = 0
    /\ faults = 0

-----------------------------------------------------------------------------
(* The setup.                                                              *)

\* The saved day is today's: its unfired games are taken up again.  Otherwise the
\* day is fresh and its games are fetched.
Begun ==
    IF date = DayOf(now)
    THEN [Idle EXCEPT !.step = "recover", !.at = now,
                      !.todo = {g \in DOMAIN saved : ~saved[g]}]
    ELSE [Idle EXCEPT !.step = "fetch", !.at = now, !.old = saved]

\* A game to come whose marked row is gone is new to the setup of a fresh day.
Begin(p) ==
    /\ setup' = [setup EXCEPT ![p] = Begun]
    /\ lost' = IF date = DayOf(now) THEN lost
               ELSE lost \cup {g \in marked \ DOMAIN saved : now < Tip[g]}
    /\ UNCHANGED marked

NextRoll == LET d == DayOf(now)
            IN  IF now < d * Day + RollAt THEN d * Day + RollAt ELSE (d + 1) * Day + RollAt

\* The main thread adds the rollover's cron job when its own setup has returned.
Finish(p, queue) ==
    /\ setup' = [setup EXCEPT ![p] = Idle]
    /\ jobs' = IF p = Main THEN Put(queue, <<Roll, 0>>, NextRoll) ELSE queue

Listed == {g \in Games : now < Tip[g] /\ Tip[g] <= now + Window}

ReplacedAsGiven(sched) == sched

\* A save never takes back a mark that a game it keeps has in the database.
Replaced(sched) == [g \in DOMAIN sched |-> sched[g] \/ (g \in DOMAIN saved /\ saved[g])]

\* What a save marks that was not marked, and what it takes up that was.
Save(p, sched) ==
    /\ date' = DayOf(setup[p].at)
    /\ saved' = Replaced(sched)
    /\ marked' = marked \cup {g \in DOMAIN sched : sched[g]}
    /\ lost' = lost \cup {g \in marked \cap DOMAIN sched : ~sched[g] /\ g \notin DOMAIN saved}

Show(p, games) == shown' = shown \cup {<<DayOf(setup[p].at), games>>}

FetchFailsAsNone(p) ==
    /\ setup[p].step = "fetch"
    /\ faults < MaxFaults
    /\ faults' = faults + 1
    /\ Save(p, None)
    /\ Finish(p, jobs)
    /\ UNCHANGED <<now, evals, up, told, listings, crashes>>

FetchFails(p) ==
    /\ setup[p].step = "fetch"
    /\ faults < MaxFaults
    /\ faults' = faults + 1
    /\ Finish(p, Put(jobs, <<Again, 0>>, setup[p].at + SetupDelay))
    /\ UNCHANGED <<now, store, evals, up, told, marks, listings, crashes>>

FetchNoGames(p) ==
    /\ setup[p].step = "fetch"
    /\ Listed = {}
    /\ Save(p, None)
    /\ Show(p, {})
    /\ Finish(p, jobs)
    /\ UNCHANGED <<now, evals, up, told, torn, crashes, faults>>

Fetch(p) ==
    /\ setup[p].step = "fetch"
    /\ Listed # {}
    /\ setup' = [setup EXCEPT ![p].step = "markets", ![p].todo = Listed]
    /\ UNCHANGED <<now, store, jobs, evals, up, history>>

\* The second fetch asks which markets are open.  A failure reads as "none".
Markets(p) ==
    /\ setup[p].step = "markets"
    /\ \/ /\ setup' = [setup EXCEPT ![p].step = "plan"]
          /\ Show(p, setup[p].todo)
          /\ UNCHANGED faults
       \/ /\ faults < MaxFaults
          /\ faults' = faults + 1
          /\ setup' = [setup EXCEPT ![p].step = "plan", ![p].todo = {}]
          /\ Show(p, {})
    /\ UNCHANGED <<now, store, jobs, evals, up, told, marks, torn, crashes>>

Waiting(p) == \E e \in evals : e.by = p

\* The setup's next game, in order of tip-off, once it is not inside an evaluation.
Turn(p, step, g) ==
    /\ setup[p].step = step
    /\ ~Waiting(p)
    /\ g \in setup[p].todo
    /\ \A h \in setup[p].todo : Tip[g] <= Tip[h]

Evaluation(g, n, who) == [game |-> g, attempt |-> n, by |-> who, stage |-> "judging"]

Register(g) == jobs' = Put(jobs, <<g, 0>>, Trigger(g))

RecoverFutureOnly(p, g) ==
    /\ Turn(p, "recover", g)
    /\ setup' = [setup EXCEPT ![p].todo = @ \ {g}]
    /\ \/ Trigger(g) > setup[p].at /\ Register(g)
       \/ Trigger(g) <= setup[p].at /\ UNCHANGED jobs
    /\ UNCHANGED <<now, store, evals, up, history>>

\* A recovered game gets its job back, or is evaluated at once, or has tipped off.
Recover(p, g) ==
    /\ Turn(p, "recover", g)
    /\ setup' = [setup EXCEPT ![p].todo = @ \ {g}]
    /\ \/ Trigger(g) > setup[p].at /\ Register(g) /\ UNCHANGED evals
       \/ /\ Trigger(g) <= setup[p].at /\ Tip[g] > setup[p].at
          /\ evals' = evals \cup {Evaluation(g, 0, p)}
          /\ UNCHANGED jobs
       \/ Tip[g] <= setup[p].at /\ UNCHANGED <<jobs, evals>>
    /\ UNCHANGED <<now, store, up, history>>

RecoverDone(p) ==
    /\ setup[p].step = "recover" /\ setup[p].todo = {} /\ ~Waiting(p)
    /\ Finish(p, jobs)
    /\ UNCHANGED <<now, store, evals, up, history>>

NothingCarried(p, g) == FALSE

CarriedMark(p, g) == g \in DOMAIN setup[p].old /\ setup[p].old[g]

\* A game of a fresh day: already fired and only carried over; or due now, when the
\* schedule so far is saved and the setup evaluates it itself; or given a job.
Plan(p, g) ==
    /\ Turn(p, "plan", g)
    /\ LET mark == CarriedMark(p, g)
           sched == Put(setup[p].new, g, mark)
       IN /\ setup' = [setup EXCEPT ![p].todo = @ \ {g}, ![p].new = sched]
          /\ \/ mark /\ UNCHANGED <<store, marks, jobs, evals>>
             \/ /\ ~mark /\ Trigger(g) <= setup[p].at
                /\ Save(p, sched)
                /\ evals' = evals \cup {Evaluation(g, 0, p)}
                /\ UNCHANGED jobs
             \/ ~mark /\ Trigger(g) > setup[p].at /\ Register(g) /\ UNCHANGED <<store, marks, evals>>
    /\ UNCHANGED <<now, up, told, listings, crashes, faults>>

PlanDone(p) ==
    /\ setup[p].step = "plan" /\ setup[p].todo = {} /\ ~Waiting(p)
    /\ Save(p, setup[p].new)
    /\ Finish(p, jobs)
    /\ UNCHANGED <<now, evals, up, told, listings, crashes, faults>>

-----------------------------------------------------------------------------
(* The evaluations.                                                        *)

\* pre_game_job returns.  To a fresh day's setup the game has now fired, whether it
\* was decided or a retry was queued.
Return(e) ==
    /\ evals' = evals \ {e}
    /\ setup' = IF e.by \in Setups /\ setup[e.by].step = "plan"
                THEN [setup EXCEPT ![e.by].new = Put(@, e.game, TRUE)] ELSE setup

CanRetry(e) == e.attempt < MaxRetries /\ now + RetryDelay <= Tip[e.game] - StopBefore

Decide(e) ==
    /\ evals' = (evals \ {e}) \cup {[e EXCEPT !.stage = "marking"]}
    /\ decided' = decided \cup {e.game}
    /\ UNCHANGED <<setup, jobs>>

JudgeAndForget(e) ==
    /\ e \in evals /\ e.stage = "judging"
    /\ \/ Decide(e)
       \/ CanRetry(e) /\ Return(e) /\ UNCHANGED <<decided, jobs>>
    /\ UNCHANGED <<now, store, up, noticed, marks, listings, crashes, faults>>

\* A final verdict, or a transient failure: retried later if the attempts and the
\* clock allow, otherwise final too.
Judge(e) ==
    /\ e \in evals /\ e.stage = "judging"
    /\ \/ Decide(e)
       \/ /\ CanRetry(e)
          /\ jobs' = Put(jobs, <<e.game, e.attempt + 1>>, now + RetryDelay)
          /\ Return(e)
          /\ UNCHANGED decided
    /\ UNCHANGED <<now, store, up, noticed, marks, listings, crashes, faults>>

\* UPDATE schedule_games SET fired=1: nothing for a game the saved schedule lacks.
MarkRow(g) ==
    /\ saved' = [h \in DOMAIN saved |-> saved[h] \/ h = g]
    /\ marked' = marked \cup ({g} \cap DOMAIN saved)
    /\ lost' = lost \ ({g} \cap DOMAIN saved)

\* Marking may fail, which is only logged.
Mark(e) ==
    /\ e \in evals /\ e.stage = "marking"
    /\ \/ MarkRow(e.game) /\ UNCHANGED <<noticed, faults>>
       \/ /\ faults < MaxFaults
          /\ faults' = faults + 1
          /\ noticed' = noticed \cup {e.game}
          /\ UNCHANGED <<saved, marks>>
    /\ Return(e)
    /\ UNCHANGED <<now, date, jobs, up, decided, listings, crashes>>

-----------------------------------------------------------------------------
(* The scheduler, the clock and the process.                               *)

Due(id) == up /\ id \in DOMAIN jobs /\ jobs[id] <= now
Grace(id) == IF id[1] \in Games THEN GameGrace ELSE SetupGrace

\* A date's job leaves the queue when it is taken; the cron job has a next time.
Taken(id) == IF id[1] = Roll THEN Put(jobs, id, NextRoll) ELSE Without(jobs, id)

StartEvaluation(g, n) ==
    /\ Due(<<g, n>>) /\ now <= jobs[<<g, n>>] + GameGrace
    /\ jobs' = Taken(<<g, n>>)
    \* One instance of a job runs at a time: a second one is skipped.
    /\ evals' = IF \E e \in evals : e.game = g /\ e.attempt = n /\ e.by = Pool
                THEN evals ELSE evals \cup {Evaluation(g, n, Pool)}
    /\ UNCHANGED <<now, store, setup, up, history>>

StartSetup(p) ==
    /\ Due(<<p, 0>>) /\ now <= jobs[<<p, 0>>] + SetupGrace
    /\ jobs' = Taken(<<p, 0>>)
    /\ IF setup[p].step = "idle" THEN Begin(p) ELSE UNCHANGED <<setup, marks>>
    /\ UNCHANGED <<now, store, evals, up, told, listings, crashes, faults>>

\* A job that could not start in time is dropped with an event.
Miss(id) ==
    /\ Due(id) /\ now > jobs[id] + Grace(id)
    /\ jobs' = Taken(id)
    /\ noticed' = noticed \cup {id[1]}
    /\ UNCHANGED <<now, store, setup, evals, up, decided, marks, listings, crashes, faults>>

Tick ==
    /\ now < End
    /\ \A p \in Setups : setup[p].step = "idle" \/ now < setup[p].at + SetupTime
    /\ now' = now + 1
    /\ UNCHANGED <<store, jobs, setup, evals, up, history>>

Start ==
    /\ ~up
    /\ up' = TRUE
    /\ Begin(Main)
    /\ UNCHANGED <<now, store, jobs, evals, told, listings, crashes, faults>>

\* Everything but the database is lost.
Crash ==
    /\ up /\ crashes < MaxCrashes
    /\ up' = FALSE
    /\ crashes' = crashes + 1
    /\ jobs' = [x \in {} |-> 0]
    /\ setup' = [p \in Setups |-> Idle]
    /\ evals' = {}
    /\ torn' = torn \cup {DayOf(setup[p].at) : p \in {q \in Setups : setup[q].step = "plan"}}
    /\ UNCHANGED <<now, store, told, marks, shown, faults>>

SetupStep(p) ==
    \/ FetchFails(p) \/ FetchNoGames(p) \/ Fetch(p) \/ Markets(p)
    \/ \E g \in Games : Recover(p, g) \/ Plan(p, g)
    \/ RecoverDone(p) \/ PlanDone(p)

JobStep == \/ \E g \in Games, n \in 0 .. MaxRetries : StartEvaluation(g, n)
           \/ \E p \in {Roll, Again} : StartSetup(p)
           \/ \E id \in JobIds : Miss(id)

EvaluationStep == \E e \in evals : Judge(e) \/ Mark(e)

Next ==
    \/ \E p \in Setups : SetupStep(p)
    \/ JobStep
    \/ EvaluationStep
    \/ Tick \/ Start \/ Crash

Spec == Init /\ [][Next]_vars

\* The threads of the bot run, the clock goes on, and the supervisor starts a bot
\* that has ended.  A crash and a fault need not happen.
FairSpec ==
    /\ Spec
    /\ \A p \in Setups : WF_vars(SetupStep(p))
    /\ WF_vars(JobStep) /\ WF_vars(EvaluationStep) /\ WF_vars(Tick) /\ WF_vars(Start)

-----------------------------------------------------------------------------
(* Properties.                                                             *)

Schedules == UNION {[S -> BOOLEAN] : S \in SUBSET Games}

SetupState ==
    [step: {"idle", "recover", "fetch", "markets", "plan"}, at: Nat,
     old: Schedules, todo: SUBSET Games, new: Schedules]

\* Type invariant.
TypeOK ==
    /\ now \in Nat
    /\ date \in Nat \cup {-1}
    /\ saved \in Schedules
    /\ DOMAIN jobs \subseteq JobIds /\ jobs \in [DOMAIN jobs -> Int]
    /\ setup \in [Setups -> SetupState]
    /\ evals \subseteq [game: Games, attempt: 0 .. MaxRetries, by: Setups \cup {Pool},
                        stage: {"judging", "marking"}]
    /\ up \in BOOLEAN
    /\ decided \subseteq Games
    /\ noticed \subseteq Games \cup Setups
    /\ marked \subseteq Games /\ lost \subseteq Games
    /\ shown \subseteq Nat \X SUBSET Games /\ torn \subseteq Nat
    /\ crashes \in Nat /\ faults \in Nat

\* A game is in someone's hands: a job is queued for it, an evaluation of it is under
\* way, or a setup under way has yet to come to it.
InHand(g) ==
    \/ \E n \in 0 .. MaxRetries : <<g, n>> \in DOMAIN jobs
    \/ \E e \in evals : e.game = g
    \/ \E p \in Setups : g \in setup[p].todo

\* A setup under way has yet to come to g, or may still list it, and does not know it
\* as fired.
ToCome(p, g) ==
    \/ setup[p].step = "recover" /\ g \in setup[p].todo
    \/ setup[p].step = "fetch" /\ now < Tip[g] /\ ~CarriedMark(p, g)
    \/ setup[p].step \in {"markets", "plan"} /\ g \in setup[p].todo /\ ~CarriedMark(p, g)

\* g may still be evaluated.
Open(g) ==
    \/ \E n \in 0 .. MaxRetries : <<g, n>> \in DOMAIN jobs
    \/ \E e \in evals : e.game = g
    \/ \E p \in Setups : ToCome(p, g)

\* A fired mark stands while the schedule lists the game, and a marked game whose work
\* is over is not taken up again, by any retry, rollover, recovery or fresh day, though
\* a setup works from marks it read long before (_replace_schedule_locked, already_fired).
\* Except a game whose marked row another setup's partial save had deleted when a
\* setup read the schedule or wrote the game anew: such a mark is lost.
FiredIsKept ==
    [][\A g \in marked \ lost' :
        /\ g \in DOMAIN saved' => saved'[g]
        /\ ~Open(g) => ~Open(g)']_vars

\* While the bot runs, every saved game of today that has not fired nor tipped off was
\* decided or is in someone's hands, whatever crashed and whichever setup ran, or the
\* operator was told (setup_daily_schedule's recovery, _schedule_retry, the scheduler's
\* listener).  Decided without a mark: the mark was an update of a row not yet saved.
NoneForgotten ==
    up /\ date = DayOf(now) =>
        \A g \in DOMAIN saved :
            ~saved[g] /\ now < Tip[g] => InHand(g) \/ g \in decided \cup noticed

\* A fired mark stands for a decision, except that a fresh day's setup marks a game
\* whose retry is still queued; only a crash can then lose the evaluation.
MarkedMeansJudged ==
    \A g \in DOMAIN saved :
        saved[g] => g \in decided \/ InHand(g) \/ g \in noticed \/ crashes > 0

\* The last day's schedule arrives, with all the games that one of that day's listings
\* showed open, however its fetch fails at first (the schedule-retry job, the rollover).
\* A failed fetch is no listing; a failed list of markets is one that shows no game.
\* Except that a crash while the day was planned leaves the games planned so far, that
\* a setup's job may miss its window, and that the next attempt may lie beyond the
\* model's clock.
RetryBeyondEnd == <<Again, 0>> \in DOMAIN jobs /\ jobs[<<Again, 0>>] > End
Arrived ==
    /\ date = DayOf(End)
    /\ date \in torn \/ \E games \in SUBSET DOMAIN saved : <<date, games>> \in shown
ScheduleArrives ==
    <>[](Arrived \/ noticed \cap Setups # {} \/ RetryBeyondEnd)
=============================================================================
