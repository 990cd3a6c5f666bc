--------------------------- MODULE OrderLifecycle ---------------------------
(***************************************************************************)
(* One NBA order from the moment the live bot decides to buy until the     *)
(* ledger knows what became of it (nba_trading/main.py and ledger.py).     *)
(*                                                                         *)
(* A ticker belongs to one game and the client_order_id is a function of   *)
(* game and ticker, so a ticker names the order the bot may place on it.   *)
(* Four kinds of thread run: the pre-game job of a game, the health job    *)
(* (which also is the startup path: recover, first health cycle), the      *)
(* daily setup at startup, at the rollover and after a failed fetch, and   *)
(* the post-tip fill checks.  _TRADE_LOCK serialises all but the setup and *)
(* sync_fills.  The process may die at any step; the ledger, the lots and  *)
(* the fired marks survive on disk.                                        *)
(* Kalshi is external: requests on the wire are accepted, refused or lost, *)
(* early or long after the client stopped waiting for the reply.           *)
(***************************************************************************)
EXTENDS Integers, FiniteSets

CONSTANTS
    Games,          \* games on today's schedule
    Tickers,        \* Kalshi market tickers, two per game
    GameOf,         \* the game each ticker belongs to
    Health,         \* the thread of startup and of the health job
    Checker,        \* the thread of the post-tip fill checks
    Free,           \* nobody holds _TRADE_LOCK
    NoTicker,       \* no ticker chosen
    MaxCrashes,     \* bound: how often the process dies
    MaxFaults,      \* bound: how many reads and writes of the ledger fail
    MaxSetups,      \* bound: how often the daily setup runs again in one process
    MaxAge,         \* bound: how old a game may become, in the ages below
    Pauses          \* bound: whether the operator pauses and resumes

ASSUME GameOfType == GameOf \in [Tickers -> Games]
ASSUME BoundsType ==
    /\ MaxCrashes \in Nat /\ MaxFaults \in Nat /\ MaxSetups \in Nat /\ MaxAge \in Nat
    /\ Pauses \in BOOLEAN
ASSUME DistinctActors ==
    /\ Health \notin Games /\ Checker \notin Games /\ Health # Checker
    /\ Free \notin Games \union {Health, Checker}
    /\ NoTicker \notin Tickers

VARIABLES
    \* Kalshi
    wire,           \* POSTs under way: <<ticker, epoch of the sender>>
    order,          \* Kalshi's order for a ticker's client_order_id
    held,           \* tickers with at least one filled contract
    age,            \* of a game: before tip-off, since, 48 hours on, 7 days on
    answer,         \* the reply that has reached the waiting pre-game job
    \* on disk
    row,            \* outcome of the order's own ledger row
    adopted,        \* adopted ledger rows of the ticker: "bare" (no order_id), "id"
    lots,           \* tickers with a portfolio lot
    fired,          \* games marked fired
    \* in memory
    mode,           \* is the process down, starting or up
    lock,           \* holder of _TRADE_LOCK
    pc,             \* where each thread is
    pick,           \* the ticker each thread works on
    jobs,           \* how many evaluations of a game are queued
    checks,         \* tickers with a fill check queued in the scheduler
    noRow,          \* pre-game jobs whose write-ahead failed (order_pk None)
    unbooked,       \* positions found without lot or row, row not yet written
    todo,           \* tickers the health thread has still to handle
    snap,           \* unresolved rows as sync_fills read them
    plan,           \* games a daily setup read as not fired and has still to place
    marks,          \* games decided on, whose mark is not yet written
    fetched,        \* positions the evaluation fetched, used until it has sized
    known,          \* orders the ledger had as placed at that fetch
    \* the operator, the bounds and what the properties look back at
    paused,         \* the kill switch
    epoch,          \* crashes so far
    faults,         \* failed ledger reads and writes so far
    setups,         \* setups since startup
    posts,          \* POSTs ever sent per ticker
    blind,          \* tickers POSTed by a job that had no ledger row
    misread,        \* tickers adopted while unresolved orders could not be read
    loose,          \* games marked fired while an evaluation of them was pending
    credit          \* evaluations this process's setups asked for, less orders sent

kalshi == <<wire, order, held, age, answer>>
disk   == <<row, adopted, lots, fired>>
memory == <<mode, lock, pc, pick, jobs, checks, noRow, unbooked, todo, snap>>
planning == <<plan, marks, fetched, known, setups>>
looked == <<misread, loose, credit>>
rest   == <<paused, epoch, faults, posts, blind, planning, looked>>
vars   == <<kalshi, disk, memory, rest>>

Actors == Games \union {Health, Checker}

Pending    == {"submitting", "unconfirmed"}
Unresolved == Pending \union {"not_found"}
Settable   == {"unconfirmed", "not_found", "insufficient_funds",
               "blocked_location", "failed"}
Outcomes   == {"none", "submitting", "placed"} \union Settable

GamePCs   == {"idle", "sync", "adopt", "decide", "begin", "check", "post", "await",
              "track", "lookup", "absent", "guess", "release"}
HealthPCs == {"idle", "recover", "resolve", "lookup", "absent", "track", "adopt",
              "list", "fills", "attribute", "attach", "book"}

\* Tip-off; the end of the look-ups of a not_found row; the end of the fill sync.
tipped  == {g \in Games : age[g] >= 1}
old     == {g \in Games : age[g] >= 2}
ancient == {g \in Games : age[g] >= 3}

TypeOK ==
    /\ wire \subseteq Tickers \X (0 .. MaxCrashes)
    /\ order \in [Tickers -> {"none", "resting", "closed"}]
    /\ held \subseteq Tickers
    /\ age \in [Games -> Nat]
    /\ answer \in {"none", "ok", "duplicate", "insufficient_funds", "blocked_location"}
    /\ row \in [Tickers -> Outcomes]
    /\ adopted \in [Tickers -> SUBSET {"bare", "id"}]
    /\ lots \subseteq Tickers
    /\ fired \subseteq Games
    /\ mode \in {"down", "starting", "up"}
    /\ lock \in Actors \union {Free}
    /\ pc \in [Actors -> GamePCs \union HealthPCs]
    /\ pick \in [Actors -> Tickers \union {NoTicker}]
    /\ jobs \in [Games -> Nat]
    /\ checks \subseteq Tickers
    /\ noRow \subseteq Games
    /\ unbooked \subseteq Tickers
    /\ todo \subseteq Tickers
    /\ snap \subseteq Tickers
    /\ plan \subseteq Games /\ marks \subseteq Games
    /\ fetched \subseteq Tickers /\ known \subseteq Tickers
    /\ paused \in BOOLEAN
    /\ epoch \in 0 .. MaxCrashes
    /\ faults \in 0 .. MaxFaults
    /\ setups \in 0 .. MaxSetups
    /\ posts \in [Tickers -> Nat]
    /\ blind \subseteq Tickers /\ misread \subseteq Tickers
    /\ loose \subseteq Games
    /\ credit \in [Games -> Int]

Init ==
    /\ wire = {} /\ order = [t \in Tickers |-> "none"]
    /\ held = {} /\ age = [g \in Games |-> 0] /\ answer = "none"
    /\ row = [t \in Tickers |-> "none"] /\ adopted = [t \in Tickers |-> {}]
    /\ lots = {} /\ fired = {}
    /\ mode = "down" /\ lock = Free
    /\ pc = [a \in Actors |-> "idle"] /\ pick = [a \in Actors |-> NoTicker]
    /\ jobs = [g \in Games |-> 0] /\ checks = {} /\ noRow = {} /\ unbooked = {}
    /\ todo = {} /\ snap = {}
    /\ plan = {} /\ marks = {}
    /\ fetched = {} /\ known = {}
    /\ paused = FALSE /\ epoch = 0 /\ faults = 0 /\ setups = 0
    /\ posts = [t \in Tickers |-> 0] /\ blind = {} /\ misread = {} /\ loose = {}
    /\ credit = [g \in Games |-> 0]

-----------------------------------------------------------------------------
(* The ledger's order rows *)

\* What set_order_outcome makes of a row; an illegal transition raises
\* ValueError, which every caller catches, and leaves the row as it was.
SetOutcome(current, outcome) ==
    IF \/ current = "submitting" /\ outcome \in Settable
       \/ current = "unconfirmed" /\ outcome \in {"not_found", "failed"}
    THEN outcome
    ELSE current

WithOutcome(t, outcome) == [row EXCEPT ![t] = SetOutcome(row[t], outcome)]

\* apply_order_state: Kalshi's truth overrides whatever an unsettled row says.
\* mark_placed raises on a row it may not change and its caller then applies.
AsPlaced(t) == [row EXCEPT ![t] = "placed"]

\* A read or write of the ledger that fails is logged and the handler goes on.
LedgerFault == faults < MaxFaults /\ faults' = faults + 1

\* order_by_order_id finds a row for the Kalshi order on t.
KnownId(t) == row[t] = "placed" \/ "id" \in adopted[t]

\* open_orders lists a row for t.
Tracked(t) == row[t] = "placed" \/ adopted[t] # {}

RowsIn(outcomes) == {t \in Tickers : row[t] \in outcomes}

Goto(a, label) == pc' = [pc EXCEPT ![a] = label]

-----------------------------------------------------------------------------
(* Kalshi *)

\* The reply to a request reaches the job that sent it, if it still waits.
Waiting(r) == r[2] = epoch /\ \E g \in Games : pc[g] = "await" /\ pick[g] = r[1]
Reply(r, text) ==
    /\ wire' = wire \ {r}
    /\ answer' = IF Waiting(r) THEN text ELSE answer

Accept(r) ==
    /\ order[r[1]] = "none" /\ GameOf[r[1]] \notin tipped
    /\ order' = [order EXCEPT ![r[1]] = "resting"]
    /\ Reply(r, "ok")
    /\ UNCHANGED <<held, age, disk, memory, rest>>

\* HTTP 409: the client_order_id has been used.
RejectDuplicate(r) ==
    /\ order[r[1]] # "none"
    /\ Reply(r, "duplicate")
    /\ UNCHANGED <<order, held, age, disk, memory, rest>>

Refuse(r) ==
    /\ order[r[1]] = "none"
    /\ \E why \in {"insufficient_funds", "blocked_location"} : Reply(r, why)
    /\ UNCHANGED <<order, held, age, disk, memory, rest>>

\* The request never arrives, or draws a reply the client cannot use.
Lose(r) ==
    /\ wire' = wire \ {r}
    /\ UNCHANGED <<order, held, age, answer, disk, memory, rest>>

Fill(t) ==
    /\ order[t] = "resting"
    /\ held' = held \union {t}
    /\ \E left \in {"resting", "closed"} : order' = [order EXCEPT ![t] = left]
    /\ UNCHANGED <<wire, age, answer, disk, memory, rest>>

\* Tip-off is the orders' expiration time.
TipOff(g) ==
    /\ age[g] = 0 /\ MaxAge >= 1
    /\ age' = [age EXCEPT ![g] = 1]
    /\ order' = [t \in Tickers |->
                    IF GameOf[t] = g /\ order[t] = "resting" THEN "closed" ELSE order[t]]
    /\ UNCHANGED <<wire, held, answer, disk, memory, rest>>

\* 48 hours and 7 days go by.
GrowOld(g) ==
    /\ g \in tipped /\ age[g] < MaxAge
    /\ age' = [age EXCEPT ![g] = @ + 1]
    /\ UNCHANGED <<wire, order, held, answer, disk, memory, rest>>

Kalshi ==
    \/ \E r \in wire : Accept(r) \/ RejectDuplicate(r) \/ Refuse(r) \/ Lose(r)
    \/ \E t \in Tickers : Fill(t)
    \/ \E g \in Games : TipOff(g) \/ GrowOld(g)

-----------------------------------------------------------------------------
(* _resolve_order: ask Kalshi whether the order landed; never send one.    *)
(* Thread a runs it on pick[a] and then continues at AfterResolve(a).      *)

AfterResolve(a) ==
    IF a \in Games THEN "release" ELSE IF lock = Health THEN "resolve" ELSE "recover"

\* The lookup raised, or _resolve_pending left a row alone whose POST may
\* still be under way.
LookupFails(a) ==
    /\ pc[a] = "lookup"
    /\ Goto(a, AfterResolve(a))
    /\ UNCHANGED <<kalshi, disk, mode, lock, pick, jobs, checks, noRow, unbooked, todo,
                   snap, rest>>

LookupMisses(a) ==
    /\ pc[a] = "lookup" /\ order[pick[a]] = "none"
    /\ Goto(a, "absent")
    /\ UNCHANGED <<kalshi, disk, mode, lock, pick, jobs, checks, noRow, unbooked, todo,
                   snap, rest>>

\* Mutant of WriteAbsent: a miss is taken for final.
WriteAbsentFinal(a) ==
    /\ pc[a] = "absent"
    /\ row' = WithOutcome(pick[a], "failed")
    /\ Goto(a, AfterResolve(a))
    /\ UNCHANGED <<kalshi, adopted, lots, fired, mode, lock, pick, jobs, checks, noRow,
                   unbooked, todo, snap, rest>>

WriteAbsent(a) ==
    /\ pc[a] = "absent"
    /\ row' = WithOutcome(pick[a], "not_found")
    /\ Goto(a, AfterResolve(a))
    /\ UNCHANGED <<kalshi, adopted, lots, fired, mode, lock, pick, jobs, checks, noRow,
                   unbooked, todo, snap, rest>>

LookupFinds(a) ==
    /\ pc[a] = "lookup" /\ order[pick[a]] # "none"
    /\ row' = AsPlaced(pick[a])
    /\ Goto(a, "track")
    /\ UNCHANGED <<kalshi, adopted, lots, fired, mode, lock, pick, jobs, checks, noRow,
                   unbooked, todo, snap, rest>>

\* The lot and the fill check of an order known to exist.
Track(a) ==
    /\ pc[a] = "track"
    /\ lots' = lots \union {pick[a]}
    /\ checks' = checks \union {pick[a]}
    /\ Goto(a, AfterResolve(a))
    /\ UNCHANGED <<kalshi, row, adopted, fired, mode, lock, pick, jobs, noRow, unbooked,
                   todo, snap, rest>>

Resolving == \E a \in Games \union {Health} :
    LookupFails(a) \/ LookupMisses(a) \/ WriteAbsent(a) \/ LookupFinds(a) \/ Track(a)

-----------------------------------------------------------------------------
(* _sync_positions, under the lock: Kalshi's positions correct the lots and *)
(* positions without a lot are attributed or adopted.                       *)

\* Mutant of MayDrop: no grace for resting orders.
MayDropUngraced == lots \ held

\* reconcile drops lots Kalshi does not hold.  An order rests from 15 minutes
\* before tip-off at the earliest, so its 30 minutes of grace cannot end before
\* tip-off; the fill check gives its own ticker none.
MayDrop == {t \in lots \ held : GameOf[t] \in tipped}

\* The order that a position without a lot is attributed to; without the
\* unresolved rows (their read raised) it is adopted as a new trade.
Sync(noGrace) ==
    \E dropped \in SUBSET MayDrop, readable \in BOOLEAN :
        LET found == held \ lots                     \* positions without a lot
            owed  == {t \in found : row[t] \in Unresolved}
            lost  == IF readable THEN owed ELSE {}
        IN  /\ noGrace \ held \subseteq dropped \union (Tickers \ lots)
            /\ lots' = (lots \ dropped) \union found
            /\ \E resolved \in SUBSET lost :         \* the others' lookups raised
                  /\ row' = [t \in Tickers |-> IF t \in resolved THEN "placed" ELSE row[t]]
                  /\ checks' = (checks \ noGrace) \union resolved
            /\ unbooked' = {t \in found \ lost : ~Tracked(t)}
            /\ misread' = misread \union (owed \ lost)
            /\ IF readable THEN UNCHANGED faults ELSE LedgerFault
    /\ UNCHANGED <<adopted, fired>>

\* The adopt_order(ticker, None, ...) that follows the open_orders check; the lot
\* stays without a row where it fails.
BookPositions ==
    /\ \E written \in SUBSET unbooked :
          /\ adopted' = [t \in Tickers |-> IF t \in written THEN adopted[t] \union {"bare"}
                                                            ELSE adopted[t]]
          /\ IF written = unbooked THEN UNCHANGED faults ELSE LedgerFault
    /\ unbooked' = {}

-----------------------------------------------------------------------------
(* pre_game_job of game g *)

\* One more evaluation of g in the queue, unless it replaces one (replace_existing).
Queue(g) ==
    \/ jobs' = [jobs EXCEPT ![g] = @ + 1]
    \/ jobs[g] > 0 /\ UNCHANGED jobs

\* The job gets the lock, possibly after tip-off (misfire grace, lock wait); an
\* active kill switch is a final decision to skip.
Start(g) ==
    /\ mode = "up" /\ jobs[g] > 0 /\ pc[g] = "idle" /\ lock = Free
    /\ lock' = g
    /\ jobs' = [jobs EXCEPT ![g] = @ - 1]
    /\ Goto(g, IF paused THEN "release" ELSE "sync")
    /\ UNCHANGED <<kalshi, disk, mode, pick, checks, noRow, unbooked, todo, snap, rest>>

\* The lock stayed busy.  While there are retries the job is queued again; the
\* game is marked after the last one, or by the setup that called the evaluation.
LockTimeout(g) ==
    /\ mode = "up" /\ jobs[g] > 0 /\ lock # Free
    /\ jobs' = [jobs EXCEPT ![g] = @ - 1] \/ UNCHANGED jobs
    /\ marks' = marks \union {g}
    /\ UNCHANGED <<kalshi, disk, mode, lock, pc, pick, checks, noRow, unbooked, todo, snap,
                   paused, epoch, faults, posts, blind, looked, plan, fetched, known,
                   setups>>

\* Balance, positions, markets or books could not be read: nothing is decided and
\* the job is queued again.  The game is not marked, save by a setup that has
\* called the evaluation: it marks the game when all are placed.
Retry(g) ==
    /\ pc[g] \in {"sync", "decide"} /\ g \notin tipped
    /\ Queue(g)
    /\ marks' \in {marks, marks \union {g}}
    /\ fetched' = {} /\ known' = {}
    /\ lock' = Free
    /\ Goto(g, "idle")
    /\ UNCHANGED <<kalshi, disk, mode, pick, checks, noRow, unbooked, todo, snap, paused,
                   epoch, faults, posts, blind, looked, plan, setups>>

\* Retries exhausted, or a rule says skip: final.
Skip(g) ==
    /\ pc[g] \in {"sync", "decide"}
    /\ fetched' = {} /\ known' = {}
    /\ Goto(g, "release")
    /\ UNCHANGED <<kalshi, disk, mode, lock, pick, jobs, checks, noRow, unbooked, todo,
                   snap, paused, epoch, faults, posts, blind, looked, plan, marks, setups>>

\* The positions fetched here are the ones the order is sized with.
EvalSync(g) ==
    /\ pc[g] = "sync"
    /\ Sync({})
    /\ fetched' = held
    /\ known' = {t \in Tickers : row'[t] = "placed"}
    /\ Goto(g, "adopt")
    /\ UNCHANGED <<kalshi, mode, lock, pick, jobs, noRow, todo, snap, paused, epoch, posts,
                   blind, loose, credit, plan, marks, setups>>

EvalAdopt(g) ==
    /\ pc[g] = "adopt"
    /\ BookPositions
    /\ Goto(g, "decide")
    /\ UNCHANGED <<kalshi, row, lots, fired, mode, lock, pick, jobs, checks, noRow, todo,
                   snap, paused, epoch, posts, blind, looked, planning>>

\* The favourite is in the band, affordable, and we hold no lot of it.
Buy(g, t) ==
    /\ pc[g] = "decide" /\ GameOf[t] = g /\ t \notin lots
    /\ pick' = [pick EXCEPT ![g] = t]
    /\ fetched' = {} /\ known' = {}
    /\ Goto(g, "begin")
    /\ UNCHANGED <<kalshi, disk, mode, lock, jobs, checks, noRow, unbooked, todo, snap,
                   paused, epoch, faults, posts, blind, looked, plan, marks, setups>>

\* Mutant of BeginOrder: idempotent only for orders known to be placed.
BeginOrderAnew(g) ==
    /\ pc[g] = "begin" /\ row[pick[g]] # "placed"
    /\ row' = [row EXCEPT ![pick[g]] = "submitting"]
    /\ Goto(g, "check")
    /\ UNCHANGED <<kalshi, adopted, lots, fired, mode, lock, pick, jobs, checks, noRow,
                   unbooked, todo, snap, rest>>

\* begin_order, write-ahead.
BeginOrder(g) ==
    /\ pc[g] = "begin" /\ row[pick[g]] = "none"
    /\ row' = [row EXCEPT ![pick[g]] = "submitting"]
    /\ Goto(g, "check")
    /\ UNCHANGED <<kalshi, adopted, lots, fired, mode, lock, pick, jobs, checks, noRow,
                   unbooked, todo, snap, rest>>

\* begin_order raised: go on without a row, relying on the client_order_id.
BeginOrderFails(g) ==
    /\ pc[g] = "begin"
    /\ LedgerFault
    /\ noRow' = noRow \union {g}
    /\ Goto(g, "check")
    /\ UNCHANGED <<kalshi, disk, mode, lock, pick, jobs, checks, unbooked, todo, snap,
                   paused, epoch, posts, blind, looked, planning>>

\* A row exists: an order in flight is looked up, any other is left alone.
AlreadyBegun(g) ==
    /\ pc[g] = "begin" /\ row[pick[g]] # "none"
    /\ Goto(g, IF row[pick[g]] \in Pending THEN "lookup" ELSE "release")
    /\ UNCHANGED <<kalshi, disk, mode, lock, pick, jobs, checks, noRow, unbooked, todo,
                   snap, rest>>

\* _outcome: nothing to write without a row, and a failed write is only logged.
WriteOutcome(g, outcome) ==
    \/ /\ row' = IF g \in noRow THEN row ELSE WithOutcome(pick[g], outcome)
       /\ UNCHANGED faults
    \/ g \notin noRow /\ LedgerFault /\ UNCHANGED row

\* The kill switch is read again immediately before the POST.
Recheck(g) ==
    /\ pc[g] = "check"
    /\ \/ ~paused /\ Goto(g, "post") /\ UNCHANGED <<row, faults>>
       \/ paused /\ WriteOutcome(g, "failed") /\ Goto(g, "release")
    /\ UNCHANGED <<kalshi, adopted, lots, fired, mode, lock, pick, jobs, checks, noRow,
                   unbooked, todo, snap, paused, epoch, posts, blind, looked, planning>>

Post(g) ==
    /\ pc[g] = "post"
    /\ wire' = wire \union {<<pick[g], epoch>>}
    /\ answer' = "none"
    /\ posts' = [posts EXCEPT ![pick[g]] = @ + 1]
    /\ blind' = IF g \in noRow THEN blind \union {pick[g]} ELSE blind
    /\ Goto(g, "await")
    /\ credit' = [credit EXCEPT ![g] = @ - 1]
    /\ UNCHANGED <<order, held, age, disk, mode, lock, pick, jobs, checks, noRow,
                   unbooked, todo, snap, paused, epoch, faults, misread, loose, planning>>

\* Mutant of Accepted: no reply counts as accepted.
AcceptedUnread(g) ==
    /\ pc[g] = "await" /\ answer \in {"ok", "none"}
    /\ row' = IF g \in noRow THEN row ELSE AsPlaced(pick[g])
    /\ Goto(g, "track")
    /\ answer' = "none"
    /\ UNCHANGED <<wire, order, held, age, adopted, lots, fired, mode, lock, pick, jobs,
                   checks, noRow, unbooked, todo, snap, rest>>

\* The reply carries an order_id: mark_placed, then lot and fill check.
Accepted(g) ==
    /\ pc[g] = "await" /\ answer = "ok"
    /\ \/ /\ row' = IF g \in noRow THEN row ELSE AsPlaced(pick[g])
          /\ UNCHANGED faults
       \/ g \notin noRow /\ LedgerFault /\ UNCHANGED row
    /\ Goto(g, "track")
    /\ answer' = "none"
    /\ UNCHANGED <<wire, order, held, age, adopted, lots, fired, mode, lock, pick, jobs,
                   checks, noRow, unbooked, todo, snap, paused, epoch, posts, blind, looked,
                   planning>>

Refused(g) ==
    /\ pc[g] = "await" /\ answer \in {"insufficient_funds", "blocked_location"}
    /\ WriteOutcome(g, answer)
    /\ Goto(g, "release")
    /\ answer' = "none"
    /\ UNCHANGED <<wire, order, held, age, adopted, lots, fired, mode, lock, pick, jobs,
                   checks, noRow, unbooked, todo, snap, paused, epoch, posts, blind, looked,
                   planning>>

\* Mutant of OutcomeUnknown: no usable reply means no order.
OutcomeFailed(g) ==
    /\ pc[g] = "await"
    /\ WriteOutcome(g, "failed")
    /\ Goto(g, "release")
    /\ answer' = "none"
    /\ UNCHANGED <<wire, order, held, age, adopted, lots, fired, mode, lock, pick, jobs,
                   checks, noRow, unbooked, todo, snap, paused, epoch, posts, blind, looked,
                   planning>>

\* Mutant of OutcomeUnknown: the evaluation is retried, as after a failed read.
OutcomeRetried(g) ==
    /\ pc[g] = "await"
    /\ WriteOutcome(g, "unconfirmed")
    /\ jobs' = [jobs EXCEPT ![g] = @ + 1]
    /\ lock' = Free
    /\ Goto(g, "idle")
    /\ answer' = "none"
    /\ UNCHANGED <<wire, order, held, age, adopted, lots, fired, mode, pick, checks, noRow,
                   unbooked, todo, snap, paused, epoch, posts, blind, looked, planning>>

\* Timeout, connection error, unusable reply or 409: the order may exist.
OutcomeUnknown(g) ==
    /\ pc[g] = "await"
    /\ WriteOutcome(g, "unconfirmed")
    /\ Goto(g, IF g \in noRow THEN "guess" ELSE "lookup")
    /\ answer' = "none"
    /\ UNCHANGED <<wire, order, held, age, adopted, lots, fired, mode, lock, pick, jobs,
                   checks, noRow, unbooked, todo, snap, paused, epoch, posts, blind, looked,
                   planning>>

\* _reconcile_ambiguous_order, the fallback without a row: ask for positions,
\* which shows nothing while the order is unfilled (or when the read fails).
GuessFromPositions(g) ==
    /\ pc[g] = "guess"
    /\ \E seen \in SUBSET ({pick[g]} \intersect held) : lots' = lots \union seen
    /\ Goto(g, "release")
    /\ UNCHANGED <<kalshi, row, adopted, fired, mode, lock, pick, jobs, checks, noRow,
                   unbooked, todo, snap, rest>>

Release(g) ==
    /\ pc[g] = "release"
    /\ lock' = Free
    /\ noRow' = noRow \ {g}
    /\ pick' = [pick EXCEPT ![g] = NoTicker]
    /\ marks' = marks \union {g}
    /\ Goto(g, "idle")
    /\ UNCHANGED <<kalshi, disk, mode, jobs, checks, unbooked, todo, snap, paused, epoch,
                   faults, posts, blind, looked, plan, fetched, known, setups>>

\* An evaluation of g is under way, queued, or about to be.
Pends(g) == g \in plan \/ pc[g] # "idle" \/ jobs[g] > 0

\* _safe_mark_fired, after the lock is released, or the final save of a setup.  It
\* may fail, or be lost with a row that a setup replaces (see GameSchedule).
MarkFired(g) ==
    /\ g \in marks
    /\ marks' = marks \ {g}
    /\ \/ /\ fired' = fired \union {g}
          /\ loose' = IF Pends(g) THEN loose \union {g} ELSE loose
          /\ UNCHANGED faults
       \/ LedgerFault /\ UNCHANGED <<fired, loose>>
    /\ UNCHANGED <<kalshi, row, adopted, lots, mode, lock, pc, pick, jobs, checks, noRow,
                   unbooked, todo, snap, paused, epoch, posts, blind, misread, credit, plan,
                   fetched, known, setups>>

PreGame(g) ==
    \/ Start(g) \/ LockTimeout(g) \/ Retry(g) \/ Skip(g) \/ EvalSync(g) \/ EvalAdopt(g)
    \/ \E t \in Tickers : Buy(g, t)
    \/ BeginOrder(g) \/ BeginOrderFails(g) \/ AlreadyBegun(g) \/ Recheck(g) \/ Post(g)
    \/ Accepted(g) \/ Refused(g) \/ OutcomeUnknown(g) \/ GuessFromPositions(g)
    \/ Release(g) \/ MarkFired(g)

-----------------------------------------------------------------------------
(* setup_daily_schedule: at startup, at 00:05 UTC, after a failed fetch     *)

\* Mutant of BeginSetup: the schedule is read without its fired marks.
BeginSetupUnmarked == plan' = Games

\* The saved schedule is read: the games that are not fired in it are recovered
\* (today's) or, as far as they are fetched again, planned anew.
BeginSetup == plan' = Games \ fired

\* The rollover, or the setup after a failed fetch.
SetupAgain ==
    /\ mode = "up" /\ setups < MaxSetups
    /\ setups' = setups + 1
    /\ BeginSetup
    /\ UNCHANGED <<kalshi, disk, memory, paused, epoch, faults, posts, blind, looked, marks,
                   fetched, known>>

\* A job at T-15, or an evaluation at once, whatever has been marked or queued since
\* the schedule was read.
SetupPlaces(g) ==
    /\ g \in plan \ tipped
    /\ plan' = plan \ {g}
    /\ Queue(g)
    /\ credit' = [credit EXCEPT ![g] = @ + 1]
    /\ UNCHANGED <<kalshi, disk, mode, lock, pc, pick, checks, noRow, unbooked, todo, snap,
                   paused, epoch, faults, posts, blind, misread, loose, marks, fetched,
                   known, setups>>

\* Tipped off, without open markets, or not fetched.
SetupOmits(g) ==
    /\ g \in plan
    /\ plan' = plan \ {g}
    /\ UNCHANGED <<kalshi, disk, memory, paused, epoch, faults, posts, blind, looked, marks,
                   fetched, known, setups>>

Setup == SetupAgain \/ \E g \in Games : SetupPlaces(g) \/ SetupOmits(g)

-----------------------------------------------------------------------------
(* Startup and the health job, one thread: recover_orders, then the first  *)
(* health cycle; from then on a cycle at intervals.                        *)

Restart ==
    /\ mode = "down"
    /\ mode' = "starting"
    /\ todo' = RowsIn(Pending)
    /\ Goto(Health, "recover")
    /\ UNCHANGED <<kalshi, disk, lock, pick, jobs, checks, noRow, unbooked, snap, rest>>

\* The next row of recover_orders or of _resolve_pending.
ResolveNext ==
    /\ pc[Health] \in {"recover", "resolve"}
    /\ \E t \in todo :
          /\ todo' = todo \ {t}
          /\ pick' = [pick EXCEPT ![Health] = t]
    /\ Goto(Health, "lookup")
    /\ UNCHANGED <<kalshi, disk, mode, lock, jobs, checks, noRow, unbooked, snap, rest>>

\* recover_orders ends by queueing the fill checks the crash has lost.
Requeue ==
    /\ pc[Health] = "recover" /\ todo = {}
    /\ checks' = checks \union {t \in Tickers : KnownId(t)}
    /\ Goto(Health, "idle")
    /\ UNCHANGED <<kalshi, disk, mode, lock, pick, jobs, noRow, unbooked, todo, snap, rest>>

\* Mutant of HealthLock: an order not found once is never looked up again.
HealthLockOnce ==
    /\ mode # "down" /\ pc[Health] = "idle" /\ lock = Free
    /\ lock' = Health
    /\ todo' = RowsIn(Pending)
    /\ Goto(Health, "resolve")
    /\ UNCHANGED <<kalshi, disk, mode, pick, jobs, checks, noRow, unbooked, snap, rest>>

\* _resolve_pending asks about every order in flight, and about one not found as
\* long as its row is younger than 48 hours.
HealthLock ==
    /\ mode # "down" /\ pc[Health] = "idle" /\ lock = Free
    /\ lock' = Health
    /\ todo' = RowsIn(Pending) \union {t \in RowsIn({"not_found"}) : GameOf[t] \notin old}
    /\ Goto(Health, "resolve")
    /\ UNCHANGED <<kalshi, disk, mode, pick, jobs, checks, noRow, unbooked, snap, rest>>

\* No balance, or the lock stayed busy: the fills are synced all the same.
HealthNoLock ==
    /\ mode # "down" /\ pc[Health] = "idle"
    /\ Goto(Health, "list")
    /\ UNCHANGED <<kalshi, disk, mode, lock, pick, jobs, checks, noRow, unbooked, todo,
                   snap, rest>>

HealthSync ==
    /\ pc[Health] = "resolve" /\ todo = {}
    /\ Sync({})
    /\ Goto(Health, "adopt")
    /\ UNCHANGED <<kalshi, mode, lock, pick, jobs, noRow, todo, snap, paused, epoch, posts,
                   blind, loose, credit, planning>>

\* The positions cannot be read, or resolving raised.
HealthSyncFails ==
    /\ pc[Health] = "resolve"
    /\ lock' = Free
    /\ todo' = {}
    /\ Goto(Health, "list")
    /\ UNCHANGED <<kalshi, disk, mode, pick, jobs, checks, noRow, unbooked, snap, rest>>

HealthAdopt ==
    /\ pc[Health] = "adopt"
    /\ BookPositions
    /\ lock' = Free
    /\ Goto(Health, "list")
    /\ UNCHANGED <<kalshi, row, lots, fired, mode, pick, jobs, checks, noRow, todo, snap,
                   paused, epoch, posts, blind, looked, planning>>

\* Mutant of ListFills: fills of tickers with a lot are taken for booked.
ListNewFills ==
    /\ pc[Health] = "list"
    /\ todo' = {t \in held \ lots : GameOf[t] \notin ancient}
    /\ snap' = RowsIn(Unresolved)
    /\ Goto(Health, "fills")
    /\ UNCHANGED <<kalshi, disk, mode, lock, pick, jobs, checks, noRow, unbooked, rest>>

\* sync_fills: the fills of the last 7 days, then the rows still without an
\* order_id.
ListFills ==
    /\ pc[Health] = "list"
    /\ todo' = {t \in held : GameOf[t] \notin ancient}
    /\ snap' = RowsIn(Unresolved)
    /\ Goto(Health, "fills")
    /\ UNCHANGED <<kalshi, disk, mode, lock, pick, jobs, checks, noRow, unbooked, rest>>

\* Mutant of Route: unresolved rows are not consulted.
RouteUnattributed(t) ==
    IF KnownId(t) THEN "fills" ELSE IF "bare" \in adopted[t] THEN "attach" ELSE "book"

\* What the fills of a ticker's order are attributed to.
Route(t) ==
    IF KnownId(t) THEN "fills"
    ELSE IF t \in snap THEN "attribute"
    ELSE IF "bare" \in adopted[t] THEN "attach" ELSE "book"

RouteFill ==
    /\ pc[Health] = "fills"
    /\ \E t \in todo :
          /\ todo' = todo \ {t}
          /\ pick' = [pick EXCEPT ![Health] = t]
          /\ Goto(Health, Route(t))
    /\ UNCHANGED <<kalshi, disk, mode, lock, jobs, checks, noRow, unbooked, snap, rest>>

\* (1) apply_order_state on the order we lost track of.
AttributeFill ==
    /\ pc[Health] = "attribute"
    /\ row' = AsPlaced(pick[Health])
    /\ Goto(Health, "fills")
    /\ UNCHANGED <<kalshi, adopted, lots, fired, mode, lock, pick, jobs, checks, noRow,
                   unbooked, todo, snap, rest>>

\* (2) attach_order_id on the row adopted from a position.
AttachFill ==
    /\ pc[Health] = "attach"
    /\ adopted' = [adopted EXCEPT ![pick[Health]] = (@ \ {"bare"}) \union {"id"}]
    /\ Goto(Health, "fills")
    /\ UNCHANGED <<kalshi, row, lots, fired, mode, lock, pick, jobs, checks, noRow,
                   unbooked, todo, snap, rest>>

\* (3) adopt_order, which does nothing if a row has the order_id by now.
BookFill ==
    /\ pc[Health] = "book"
    /\ adopted' = IF KnownId(pick[Health]) THEN adopted
                  ELSE [adopted EXCEPT ![pick[Health]] = @ \union {"id"}]
    /\ Goto(Health, "fills")
    /\ UNCHANGED <<kalshi, row, lots, fired, mode, lock, pick, jobs, checks, noRow,
                   unbooked, todo, snap, rest>>

\* The cycle ends, early if the fills could not be listed.  After the first one
\* the daily setup starts.
HealthEnd ==
    /\ \/ pc[Health] = "list"
       \/ pc[Health] = "fills" /\ todo = {}
    /\ mode' = "up"
    /\ IF mode = "starting" THEN BeginSetup ELSE UNCHANGED plan
    /\ snap' = {}
    /\ pick' = [pick EXCEPT ![Health] = NoTicker]
    /\ Goto(Health, "idle")
    /\ UNCHANGED <<kalshi, disk, lock, jobs, checks, noRow, unbooked, todo, paused, epoch,
                   faults, posts, blind, looked, marks, fetched, known, setups>>

HealthJob ==
    \/ Restart \/ ResolveNext \/ Requeue \/ HealthLock \/ HealthNoLock \/ HealthSync
    \/ HealthSyncFails \/ HealthAdopt \/ ListFills \/ RouteFill \/ AttributeFill
    \/ AttachFill \/ BookFill \/ HealthEnd

-----------------------------------------------------------------------------
(* confirm_fill_job, two minutes after tip-off *)

FillCheck(t) ==
    /\ t \in checks /\ GameOf[t] \in tipped /\ pc[Checker] = "idle" /\ lock = Free
    /\ lock' = Checker
    /\ Sync({t})
    /\ Goto(Checker, "adopt")
    /\ UNCHANGED <<kalshi, mode, pick, jobs, noRow, todo, snap, paused, epoch, posts, blind,
                   loose, credit, planning>>

\* get_order failed, the lock stayed busy or the positions could not be read.
FillCheckFails(t) ==
    /\ t \in checks /\ GameOf[t] \in tipped
    /\ checks' = checks \ {t}
    /\ UNCHANGED <<kalshi, disk, mode, lock, pc, pick, jobs, noRow, unbooked, todo, snap,
                   rest>>

FillCheckAdopt ==
    /\ pc[Checker] = "adopt"
    /\ BookPositions
    /\ lock' = Free
    /\ Goto(Checker, "idle")
    /\ UNCHANGED <<kalshi, row, lots, fired, mode, pick, jobs, checks, noRow, todo, snap,
                   paused, epoch, posts, blind, looked, planning>>

FillChecks == FillCheckAdopt \/ \E t \in Tickers : FillCheck(t) \/ FillCheckFails(t)

-----------------------------------------------------------------------------

\* The process dies: memory is gone, disk and wire are not.
Crash ==
    /\ mode # "down" /\ epoch < MaxCrashes
    /\ epoch' = epoch + 1
    /\ mode' = "down" /\ lock' = Free
    /\ pc' = [a \in Actors |-> "idle"] /\ pick' = [a \in Actors |-> NoTicker]
    /\ jobs' = [g \in Games |-> 0] /\ checks' = {} /\ noRow' = {} /\ unbooked' = {}
    /\ todo' = {} /\ snap' = {} /\ answer' = "none" /\ plan' = {} /\ marks' = {}
    /\ fetched' = {} /\ known' = {} /\ setups' = 0 /\ loose' = {}
    /\ credit' = [g \in Games |-> 0]
    /\ UNCHANGED <<wire, order, held, age, disk, paused, faults, posts, blind, misread>>

\* The operator pauses and resumes.
TogglePause ==
    /\ Pauses
    /\ paused' = ~paused
    /\ UNCHANGED <<kalshi, disk, memory, epoch, faults, posts, blind, looked, planning>>

Next ==
    \/ Kalshi \/ Resolving \/ Setup \/ HealthJob \/ FillChecks \/ Crash \/ TogglePause
    \/ \E g \in Games : PreGame(g)

Spec == Init /\ [][Next]_vars

\* Threads keep running, a dead process is restarted and games tip off (which ends
\* the retries of their jobs).  The trade lock is held for finite times, so the
\* health job gets it again and again, and an outage of Kalshi or of the disk ends:
\* what is tried for ever succeeds in the end.
Fairness ==
    /\ WF_vars(HealthJob) /\ WF_vars(Resolving) /\ WF_vars(FillChecks) /\ WF_vars(Setup)
    /\ \A g \in Games : WF_vars(PreGame(g)) /\ WF_vars(TipOff(g))
    /\ SF_vars(HealthLock) /\ SF_vars(ResolveNext) /\ SF_vars(HealthSync)
    /\ SF_vars(LookupFinds(Health)) /\ SF_vars(ListFills)

FairSpec == Spec /\ Fairness

-----------------------------------------------------------------------------
(* Properties *)

\* Rows of the ledger that stand, or may come to stand, for the trade on t.
RowsOfTrade(t) == (IF row[t] \in Unresolved \union {"placed"} THEN {"own"} ELSE {})
                     \union adopted[t]

InFlight(t) == \E r \in wire : r[1] = t

\* _pre_game_body, _resolve_order: "NEVER send it again".  However often the
\* process dies, times out or re-evaluates the game, an order whose write-ahead
\* row was stored leaves the building at most once.
AtMostOnePost == \A t \in Tickers \ blind : posts[t] <= 1

\* Write-ahead: an order that Kalshi has, or may still get, is in the ledger as
\* placed or as a question that recovery asks; never as rejected or not sent.
NothingLost ==
    \A t \in Tickers \ blind :
        InFlight(t) \/ order[t] # "none" => row[t] \in Unresolved \union {"placed"}

\* The ledger never claims a trade that Kalshi does not have.
PlacedIsReal ==
    \A t \in Tickers : Tracked(t) => order[t] # "none"

\* sync_fills, _adopt_unknown_positions: lookups, positions and fills, in
\* whatever order they arrive, book a trade once.  Not so in two cases the code
\* knows of: an order the ledger has no row of at all, which a position sync and
\* sync_fills that overlap both adopt; and a position adopted while the ledger
\* could not tell which orders are unresolved, whose own row is found to be placed
\* later on.
OneRowPerTrade ==
    \A t \in Tickers \ (blind \union misread) : Cardinality(RowsOfTrade(t)) <= 1

\* pre_game_job, setup_daily_schedule: what starts after a game has been marked
\* fired, be it a setup or a restart, does not order it.  Only an evaluation that
\* was pending when the mark was made can: the retry of one the setup called itself
\* (it marks the game all the same), or one that a setup asked for which had read
\* the schedule before the mark.
FiredIsFinal ==
    [][\A t \in Tickers : posts'[t] # posts[t] => GameOf[t] \notin fired \ loose]_vars

\* When a job sizes its order, every order of ours that rests at Kalshi and that
\* the ledger had as placed when the job fetched the positions counts as exposure:
\* by its lot, or as one of those positions.  (In a process that has restarted an
\* order may have its row and no lot; an order attributed from its fills after the
\* fetch has neither.)
CommittedMoneyCounted ==
    epoch = 0 =>
        \A g \in Games : pc[g] = "decide" =>
            \A t \in known : order[t] = "resting" => t \in lots \union fetched

\* An evaluation a setup asks for sends at most one order, for one of the game's
\* two teams: however often it is retried or waits for the lock, a process never
\* sends more orders for a game than its setups have asked for.
OneOrderPerRun == \A g \in Games : credit[g] >= 0

\* Every fill ends up under a ledger row that can be settled, also when the
\* reply was lost, the process died, or the write-ahead had failed; unless no fill
\* sync succeeds in the 7 days it looks back.
FilledIsBooked == \A t \in Tickers : t \in held ~> Tracked(t) \/ GameOf[t] \in ancient

\* The outcome of an order that landed is eventually known, also when a look-up
\* has not found it at first; unless it is still not found after 48 hours, when
\* nobody asks any more (a row in flight is asked about for ever).
LandedIsLearned ==
    \A t \in Tickers :
        order[t] # "none" /\ row[t] \in Unresolved
            ~> \/ row[t] = "placed" \/ t \in blind
               \/ row[t] = "not_found" /\ GameOf[t] \in old

\* The detailed steps keep the abstract promise: what the wire, Kalshi and the
\* ledger row go through is an execution of OrderPromise.
RequestOf(t) ==
    CASE t \in blind                                       -> "disowned"
      [] t \notin blind /\ order[t] # "none"                -> "landed"
      [] t \notin blind /\ order[t] = "none" /\ InFlight(t) -> "open"
      [] OTHER -> IF posts[t] = 0 THEN "unsent" ELSE "dead"
BeliefOf(t) ==
    CASE t \in blind                                -> "disowned"
      [] t \notin blind /\ row[t] = "none"           -> "nothing"
      [] t \notin blind /\ row[t] \in Unresolved     -> "maybe"
      [] t \notin blind /\ row[t] = "placed"         -> "traded"
      [] OTHER                                      -> "not traded"

Promise == INSTANCE OrderPromise WITH
    Orders  <- Tickers,
    request <- [t \in Tickers |-> RequestOf(t)],
    belief  <- [t \in Tickers |-> BeliefOf(t)]

PromiseKept == Promise!Spec

(* Stated by the repository, and not so *)

\* main.py: the fixed client_order_id and the position check "prevent a double
\* buy" when a restart re-evaluates a game.
OneOrderPerGame ==
    \A t, u \in Tickers : GameOf[t] = GameOf[u] /\ posts[t] > 0 /\ posts[u] > 0 => t = u
=============================================================================
