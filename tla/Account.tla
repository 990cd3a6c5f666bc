------------------------------- MODULE Account -------------------------------
(***************************************************************************)
(* The bot's money: the account at Kalshi, the orders of a few games, the  *)
(* evaluations that size them against equity, exposure cap and drawdown    *)
(* breaker (src/nba_trading/main.py, portfolio.py, strategy.py), and the   *)
(* health job, which prices equity and books the settled orders' profit    *)
(* and loss in the ledger from Kalshi's fills.  The reply to an order may  *)
(* be lost and the bot may crash at any step.  Every game has one ticker   *)
(* here; which order goes out, how often, and when a late one lands, is    *)
(* OrderLifecycle's subject.  An order's money leaves the balance when it  *)
(* is placed, as the bot assumes when it adds the lots of resting orders   *)
(* to the balance.                                                         *)
(***************************************************************************)
EXTENDS Integers, FiniteSets, Functions

CONSTANTS
    Games,          \* the games, one ticker each
    Free,           \* nobody holds the trade lock
    StartCash,      \* the balance at first
    StartPeak,      \* the high-water mark at first
    Ask,            \* what a contract is offered at
    Limit,          \* the order's limit price
    Paid,           \* what a game's order fills at: the limit, or better
    Payout,         \* what a contract pays when its team wins
    Fee,            \* Kalshi's fee per contract filled, by its price
    Fraction,       \* per cent of equity risked per trade
    MaxExposure,    \* per cent of equity that may be committed
    MaxDrawdown,    \* per cent below the peak that halts new orders
    MaxFaults       \* bound: crashes, and calls that fail or answer incompletely

ASSUME AccountAssumption ==
    /\ IsFiniteSet(Games)
    /\ {StartCash, StartPeak, Fraction, MaxDrawdown, MaxFaults} \subseteq Nat
    /\ MaxExposure \in 0 .. 100
    /\ Ask \in Nat \ {0} /\ Limit \in Nat \ {0} /\ Payout \in Nat
    /\ Paid \in [Games -> 1 .. Limit] /\ Fee \in [1 .. Limit -> Nat]
    /\ Free \notin Games

VARIABLES
    cash,           \* Kalshi: the balance
    qty, filled,    \* Kalshi: contracts ordered and filled, per game
    phase,          \* a game's time: before tip-off, played, then won or lost
    lots,           \* the bot's local lots, in contracts
    row,            \* the ledger's order row
    known, status,  \* the fill count and status the row has learned
    stored,         \* contracts in the ledger's stored fills
    pnl,            \* the booked profit and loss
    peak,           \* the high-water mark
    lock,           \* the trade lock
    eval,           \* each game's evaluation
    health,         \* the health job's pass
    short,          \* games booked on a wrong or missing fill count
    estimated,      \* games booked at the limit price, without their fills
    blind,          \* games whose order a crash or a failed look-up left without a lot
    faults

kalshi == <<cash, qty, filled, phase>>
ledger == <<row, known, status, stored, pnl>>
ghosts == <<short, estimated, blind>>
vars == <<kalshi, ledger, lots, peak, lock, eval, health, ghosts, faults>>

Total(f) == SumFunction(f)
Least(a, b) == IF a <= b THEN a ELSE b
Greatest(a, b) == IF a >= b THEN a ELSE b

Ended == {"won", "lost"}

\* list_positions: what Kalshi says is held.
Holding == [g \in Games |-> IF phase[g] \in Ended THEN 0 ELSE filled[g]]

\* What each order binds: what it holds at its price, what still rests at the limit.
Rest == [g \in Games |-> IF phase[g] = "before" THEN (qty[g] - filled[g]) * Limit ELSE 0]
Bound == [g \in Games |-> Holding[g] * Paid[g] + Rest[g]]
Equity == cash + Total(Bound)

\* What Portfolio.exposure_cents leaves out: the remainders of partly filled orders, and
\* the unfilled orders that a crash or a failed look-up left without a lot.
Uncounted == Total([g \in Games |->
    IF filled[g] > 0 \/ (g \in blind /\ lots[g] = 0) THEN Rest[g] ELSE 0])

NoEval == [step |-> "idle", balance |-> 0, equity |-> 0, cost |-> 0,
           truth |-> 0, uncounted |-> 0]
NoPass == [step |-> "idle", balance |-> 0, held |-> [g \in Games |-> 0],
           synced |-> FALSE, todo |-> {}]

Init ==
    /\ cash = StartCash
    /\ qty = [g \in Games |-> 0] /\ filled = [g \in Games |-> 0]
    /\ phase = [g \in Games |-> "before"]
    /\ lots = [g \in Games |-> 0]
    /\ row = [g \in Games |-> "none"]
    /\ known = [g \in Games |-> 0] /\ status = [g \in Games |-> "resting"]
    /\ stored = [g \in Games |-> 0]
    /\ pnl = [g \in Games |-> 0]
    /\ peak = StartPeak
    /\ lock = Free
    /\ eval = [g \in Games |-> NoEval]
    /\ health = NoPass
    /\ short = {} /\ estimated = {} /\ blind = {}
    /\ faults = 0

Fault == faults < MaxFaults /\ faults' = faults + 1

-----------------------------------------------------------------------------
(* Kalshi.                                                                 *)

Fill(g) ==
    /\ phase[g] = "before"
    /\ \E n \in 1 .. qty[g] - filled[g] :
          /\ filled' = [filled EXCEPT ![g] = @ + n]
          /\ cash' = cash + n * (Limit - Paid[g]) - n * Fee[Paid[g]]
    /\ UNCHANGED <<qty, phase, ledger, lots, peak, lock, eval, health, ghosts, faults>>

\* The order expires at tip-off, and what it did not fill is free again.
TipOff(g) ==
    /\ phase[g] = "before"
    /\ phase' = [phase EXCEPT ![g] = "played"]
    /\ cash' = cash + (qty[g] - filled[g]) * Limit
    /\ UNCHANGED <<qty, filled, ledger, lots, peak, lock, eval, health, ghosts, faults>>

\* A game the bot has no order on makes no difference.
Resolve(g) ==
    /\ phase[g] = "played" /\ qty[g] > 0
    /\ \E won \in BOOLEAN :
          /\ phase' = [phase EXCEPT ![g] = IF won THEN "won" ELSE "lost"]
          /\ cash' = cash + (IF won THEN filled[g] * Payout ELSE 0)
    /\ UNCHANGED <<qty, filled, ledger, lots, peak, lock, eval, health, ghosts, faults>>

\* GET /portfolio/orders: the order's status, and its fill count, or 0 when the field is
\* missing.
OrderStatus(g) == IF filled[g] = qty[g] THEN "executed"
                  ELSE IF phase[g] = "before" THEN "resting" ELSE "canceled"
Counts(g) == {filled[g]} \cup (IF faults < MaxFaults THEN {0} ELSE {})
CountFault(g, n) == faults' = IF n = filled[g] THEN faults ELSE faults + 1

-----------------------------------------------------------------------------
(* Portfolio, high-water mark and strategy.                                *)

\* _resolve_order for the games in who: their orders are found, the rows learn their state
\* and the local lots get what they lack.
Found(who) ==
    /\ row' = [g \in Games |-> IF g \in who /\ row[g] = "unknown" THEN "open" ELSE row[g]]
    /\ known' = [g \in Games |-> IF g \in who THEN filled[g] ELSE known[g]]
    /\ status' = [g \in Games |-> IF g \in who THEN OrderStatus(g) ELSE status[g]]
Tracked(who) ==
    [g \in Games |-> IF g \in who /\ lots[g] = 0
                     THEN (IF filled[g] > 0 THEN filled[g] ELSE qty[g]) ELSE lots[g]]

\* The look-ups of the games in asked that Kalshi answers: all, or some when a call fails.
Answered(asked) == {asked} \cup (IF faults < MaxFaults THEN SUBSET asked ELSE {})
CallFault(asked, who) == faults' = IF who = asked THEN faults ELSE faults + 1

\* The rows of orders whose outcome is not known, and which Kalshi has.
Lost == {g \in Games : row[g] = "unknown" /\ qty[g] > 0}

\* Portfolio.reconcile with adoption: Kalshi's count replaces the lot, and a lot Kalshi
\* does not hold goes when it is old enough or its grace is void.  The grace of half an
\* hour outlasts the quarter before tip-off and has passed when the game has ended.
Reconciled(held, local, fresh, noGrace) ==
    [g \in Games |->
        IF held[g] > 0 THEN held[g]
        ELSE IF (phase[g] \notin Ended \/ g \in fresh) /\ g \notin noGrace THEN local[g] ELSE 0]

\* Portfolio.exposure_cents: Kalshi's cost of what it shows, and the local lots of the rest.
Exposure(held, local) ==
    Total([g \in Games |-> IF held[g] > 0 THEN held[g] * Paid[g] ELSE local[g] * Limit])

\* HighWaterMark.update(equity, False).
Raised(equity) == IF equity < 0 THEN peak ELSE Greatest(peak, equity)

Broken(equity, mark) == equity < mark /\ (mark - equity) * 100 >= MaxDrawdown * mark

\* compute_shares_to_buy.
SharesFor(equity) == IF equity <= 0 THEN 0 ELSE (equity * Fraction) \div (100 * Ask)

\* cap_shares: affordable, and within what the exposure cap leaves.
CapShares(shares, balance, equity, cost) ==
    LET headroom == Greatest(equity * MaxExposure - 100 * cost, 0)
    IN  Greatest(Least(shares, Least(balance \div Limit, headroom \div (100 * Limit))), 0)

-----------------------------------------------------------------------------
(* The evaluation of a game, under the trade lock.                         *)

Done(g) == lock' = Free /\ eval' = [eval EXCEPT ![g] = [NoEval EXCEPT !.step = "done"]]

ReadBalanceUnlocked(g) ==
    /\ eval[g].step = "idle" /\ phase[g] = "before" /\ health.step # "recover"
    /\ lock' = g
    /\ eval' = [eval EXCEPT ![g].step = "positions", ![g].balance = cash, ![g].truth = Equity]
    /\ UNCHANGED <<kalshi, ledger, lots, peak, health, ghosts, faults>>

ReadBalance(g) ==
    /\ eval[g].step = "idle" /\ phase[g] = "before" /\ health.step # "recover"
    /\ lock = Free /\ lock' = g
    /\ eval' = [eval EXCEPT ![g].step = "positions", ![g].balance = cash, ![g].truth = Equity]
    /\ UNCHANGED <<kalshi, ledger, lots, peak, health, ghosts, faults>>

\* Lots are reconciled, and a lost order that shows as a position is asked for.  Equity is
\* priced, the peak raised and the breaker asked.
Price(g) ==
    /\ eval[g].step = "positions"
    /\ LET shown == {h \in Lost : Holding[h] > 0 /\ lots[h] = 0}
       IN  \E who \in Answered(shown) : CallFault(shown, who) /\ Found(who)
    /\ lots' = Reconciled(Holding, lots, {}, {})
    /\ LET cost == Exposure(Holding, lots')
           equity == eval[g].balance + cost
       IN /\ peak' = Raised(equity)
          /\ IF Broken(equity, peak') THEN Done(g)
             ELSE /\ eval' = [eval EXCEPT ![g].step = "order", ![g].equity = equity,
                                          ![g].cost = cost, ![g].uncounted = Uncounted]
                  /\ UNCHANGED lock
    /\ UNCHANGED <<kalshi, stored, pnl, health, ghosts>>

\* A read that fails, a game out of the band, a pause, an order already recorded: the
\* evaluation ends without an order.
GiveUp(g) ==
    /\ eval[g].step \in {"positions", "order"}
    /\ Done(g)
    /\ UNCHANGED <<kalshi, ledger, lots, peak, health, ghosts, faults>>

\* What the evaluation would buy, of a team it has no lot of.
Shares(g) ==
    LET e == eval[g]
    IN  IF e.step = "order" /\ lots[g] = 0
        THEN CapShares(SharesFor(e.equity), e.balance, e.equity, e.cost) ELSE 0

\* The order and its row.  Kalshi refuses what the balance does not cover.
Order(g) ==
    /\ Shares(g) > 0 /\ row[g] = "none"
    /\ \/ /\ cash >= Shares(g) * Limit /\ phase[g] = "before"
          /\ qty' = [qty EXCEPT ![g] = Shares(g)]
          /\ cash' = cash - Shares(g) * Limit
          /\ \/ row' = [row EXCEPT ![g] = "open"] /\ eval' = [eval EXCEPT ![g].step = "placed"]
             \/ row' = [row EXCEPT ![g] = "unknown"] /\ eval' = [eval EXCEPT ![g].step = "lookup"]
          /\ UNCHANGED lock
       \/ /\ cash < Shares(g) * Limit
          /\ row' = [row EXCEPT ![g] = "refused"]
          /\ Done(g)
          /\ UNCHANGED <<qty, cash>>
       \/ /\ row' = [row EXCEPT ![g] = "unknown"]
          /\ eval' = [eval EXCEPT ![g].step = "lookup"]
          /\ UNCHANGED <<qty, cash, lock>>
    /\ UNCHANGED <<filled, phase, known, status, stored, lots, peak, health, pnl, ghosts, faults>>

\* An evaluation after a crash comes to the row of an order that was in flight.
Again(g) ==
    /\ Shares(g) > 0 /\ row[g] = "unknown"
    /\ eval' = [eval EXCEPT ![g].step = "lookup"]
    /\ UNCHANGED <<kalshi, ledger, lots, peak, lock, health, ghosts, faults>>

AddLot(g) ==
    /\ eval[g].step = "placed"
    /\ lots' = [lots EXCEPT ![g] = @ + qty[g]]
    /\ Done(g)
    /\ UNCHANGED <<kalshi, ledger, peak, health, ghosts, faults>>

\* The reply was lost: the order is asked for, and tracked when Kalshi shows it.
Lookup(g) ==
    /\ eval[g].step = "lookup"
    /\ \/ qty[g] > 0 /\ Found({g}) /\ lots' = Tracked({g}) /\ UNCHANGED <<blind, faults>>
       \/ /\ IF qty[g] > 0 THEN Fault ELSE UNCHANGED faults
          /\ blind' = blind \cup {g}
          /\ UNCHANGED <<row, known, status, lots>>
    /\ Done(g)
    /\ UNCHANGED <<kalshi, stored, pnl, peak, health, short, estimated>>

\* confirm_fill_job, after tip-off: the row learns the order's end, and its lot loses its grace.
ConfirmFill(g) ==
    /\ row[g] = "open" /\ phase[g] # "before" /\ status[g] = "resting"
    /\ lock = Free /\ health.step # "recover"
    /\ \E n \in Counts(g) : CountFault(g, n) /\ known' = [known EXCEPT ![g] = n]
    /\ status' = [status EXCEPT ![g] = OrderStatus(g)]
    /\ lots' = Reconciled(Holding, lots, {}, {g})
    /\ UNCHANGED <<kalshi, row, stored, pnl, peak, lock, eval, health, ghosts>>

\* The process dies: the ledger, the lots and the peak are on disk.  recover_orders asks for
\* the lost orders before anything else runs.
Crash ==
    /\ Fault
    /\ lock' = Free /\ eval' = [g \in Games |-> NoEval]
    /\ health' = [NoPass EXCEPT !.step = "recover"]
    /\ blind' = blind \cup {g \in Games : eval[g].step \in {"placed", "lookup"}}
    /\ UNCHANGED <<kalshi, ledger, lots, peak, short, estimated>>

Recover ==
    /\ health.step = "recover"
    /\ \E who \in Answered(Lost) : CallFault(Lost, who) /\ Found(who) /\ lots' = Tracked(who)
    /\ health' = NoPass
    /\ UNCHANGED <<kalshi, stored, pnl, peak, lock, eval, ghosts>>

-----------------------------------------------------------------------------
(* The health job.                                                         *)

\* The balance is read before the lock is asked for.
HealthBalance ==
    /\ health.step = "idle"
    /\ health' = [NoPass EXCEPT !.step = "lock", !.balance = cash]
    /\ UNCHANGED <<kalshi, ledger, lots, peak, lock, eval, ghosts, faults>>

\* No balance, no lock in time or no positions: no equity this pass.
HealthSkips ==
    /\ health.step \in {"idle", "lock"}
    /\ Fault
    /\ health' = [NoPass EXCEPT !.step = "fills"]
    /\ UNCHANGED <<kalshi, ledger, lots, peak, lock, eval, ghosts>>

\* The lost orders are asked for first, then the lots are reconciled.
HealthPositions ==
    /\ health.step = "lock" /\ lock = Free
    /\ \E who \in Answered(Lost) :
          /\ CallFault(Lost, who)
          /\ Found(who)
          /\ lots' = Reconciled(Holding, Tracked(who), who, {})
    /\ health' = [health EXCEPT !.step = "equity", !.held = Holding]
    /\ UNCHANGED <<kalshi, stored, pnl, peak, lock, eval, ghosts>>

\* The lock is free again when the equity is priced.
HealthEquity ==
    /\ health.step = "equity"
    /\ peak' = Raised(health.balance + Exposure(health.held, lots))
    /\ health' = [NoPass EXCEPT !.step = "fills"]
    /\ UNCHANGED <<kalshi, ledger, lots, lock, eval, ghosts, faults>>

Open == {g \in Games : row[g] = "open"}

\* sync_fills: stored is what Kalshi lists of an order, which may lag behind.  Fills of an
\* order the ledger does not know are those of the row whose outcome is not known.
SyncFills ==
    /\ health.step = "fills"
    /\ \/ stored' = filled /\ UNCHANGED faults
       \/ Fault /\ \E g \in Games : \E n \in stored[g] .. filled[g] :
             stored' = [filled EXCEPT ![g] = n]
    /\ LET theirs == {g \in Lost : stored'[g] > 0}
       IN  /\ row' = [g \in Games |-> IF g \in theirs THEN "open" ELSE row[g]]
           /\ known' = [g \in Games |-> IF g \in theirs THEN stored'[g] ELSE known[g]]
           /\ health' = [health EXCEPT !.step = "settle", !.synced = TRUE,
                                       !.todo = Open \cup theirs]
    /\ UNCHANGED <<kalshi, lots, status, pnl, peak, lock, eval, ghosts>>

SyncFails ==
    /\ health.step = "fills" /\ Fault
    /\ health' = [health EXCEPT !.step = "settle", !.todo = Open]
    /\ UNCHANGED <<kalshi, ledger, lots, peak, lock, eval, ghosts>>

\* The market is not resolved or could not be read, or the fills could not.
NotYet(g) ==
    /\ health.step = "settle" /\ g \in health.todo
    /\ \/ (phase[g] \notin Ended \/ ~health.synced) /\ UNCHANGED faults
       \/ Fault
    /\ health' = [health EXCEPT !.todo = @ \ {g}]
    /\ UNCHANGED <<kalshi, ledger, lots, peak, lock, eval, ghosts>>

\* record_settlement_from_fills: what n contracts bought at p, with the fees at p, brought.
Book(g, n, p) ==
    /\ row' = [row EXCEPT ![g] = "settled"]
    /\ pnl' = [pnl EXCEPT ![g] = (IF phase[g] = "won" THEN n * Payout ELSE 0) - n * (p + Fee[p])]

\* One resolved order: booked when the stored fills are all of it, or when it has none
\* and the order itself tells a count or an unfilled end.  Otherwise it waits.
Resolvable(g) ==
    /\ health.step = "settle" /\ g \in health.todo
    /\ phase[g] \in Ended /\ health.synced
    /\ health' = [health EXCEPT !.todo = @ \ {g}]

SettleFromFillsUnasked(g) ==
    /\ Resolvable(g) /\ stored[g] > 0
    /\ Book(g, stored[g], Paid[g])
    /\ UNCHANGED <<kalshi, known, status, stored, lots, peak, lock, eval, ghosts, faults>>

SettleFromFills(g) ==
    /\ Resolvable(g) /\ stored[g] > 0
    /\ \E n \in Counts(g) :
          /\ CountFault(g, n)
          /\ IF n > stored[g] THEN UNCHANGED <<row, pnl, short>>
             ELSE /\ Book(g, stored[g], Paid[g])
                  /\ short' = IF stored[g] = filled[g] THEN short ELSE short \cup {g}
    /\ UNCHANGED <<kalshi, known, status, stored, lots, peak, lock, eval, estimated, blind>>

\* Without a stored fill the order is booked at its limit price and the fee there, on the
\* count it has, or the row had when the order could not be read.
BookEstimate(g, n, ended) ==
    IF n = 0 /\ ended # "canceled" THEN UNCHANGED <<row, pnl, short, estimated>>
    ELSE /\ Book(g, n, Limit)
         /\ estimated' = estimated \cup {g}
         /\ short' = IF n = filled[g] THEN short ELSE short \cup {g}

SettleKnownOnly(g) ==
    /\ Resolvable(g) /\ stored[g] = 0
    /\ BookEstimate(g, known[g], status[g])
    /\ UNCHANGED <<kalshi, known, status, stored, lots, peak, lock, eval, blind, faults>>

SettleFromOrder(g) ==
    /\ Resolvable(g) /\ stored[g] = 0
    /\ \/ \E n \in Counts(g) :
             /\ CountFault(g, n)
             /\ known' = [known EXCEPT ![g] = n]
             /\ status' = [status EXCEPT ![g] = OrderStatus(g)]
       \/ Fault /\ UNCHANGED <<known, status>>
    /\ BookEstimate(g, known'[g], status'[g])
    /\ UNCHANGED <<kalshi, stored, lots, peak, lock, eval, blind>>

HealthEnds ==
    /\ health.step = "settle" /\ health.todo = {}
    /\ health' = NoPass
    /\ UNCHANGED <<kalshi, ledger, lots, peak, lock, eval, ghosts, faults>>

HealthStep ==
    \/ HealthBalance \/ HealthSkips \/ HealthPositions \/ HealthEquity
    \/ SyncFills \/ SyncFails \/ HealthEnds
    \/ \E g \in Games : NotYet(g) \/ SettleFromFills(g) \/ SettleFromOrder(g)

Evaluate(g) ==
    ReadBalance(g) \/ Price(g) \/ GiveUp(g) \/ Order(g) \/ Again(g) \/ AddLot(g) \/ Lookup(g)

Exchange(g) == Fill(g) \/ TipOff(g) \/ Resolve(g)

Next ==
    \/ HealthStep \/ Crash \/ Recover
    \/ \E g \in Games : Evaluate(g) \/ ConfirmFill(g) \/ Exchange(g)

Spec == Init /\ [][Next]_vars

\* The health job's interval comes round, an evaluation it waits for returns, and a process
\* that died is started again.  Nothing need fill, no game need end, and no fill check need
\* run.
Working == HealthStep \/ Recover \/ \E g \in Games : lock = g /\ Evaluate(g)
FairSpec == Spec /\ WF_vars(Working)

-----------------------------------------------------------------------------
(* Properties.                                                             *)

\* With an order sent, the money at risk is within the cap on the equity there was when
\* the evaluation began, up to what the exposure cannot show when it is taken: the
\* remainders of orders partly filled, and the unfilled orders that a crash or a failed
\* look-up left without a lot.  Two games never size against the same headroom
\* (_TRADE_LOCK, cap_shares), and no order is without a lot for another reason.
OrdersWithinCap ==
    [][\A g \in Games :
          qty[g] = 0 /\ qty'[g] > 0 =>
              100 * Total(Bound') <= MaxExposure * eval[g].truth + 100 * eval[g].uncounted]_vars

\* What a booking at the limit price takes off too much.
Overstated ==
    [g \in Games |-> IF g \in estimated
                     THEN filled[g] * ((Limit + Fee[Limit]) - (Paid[g] + Fee[Paid[g]])) ELSE 0]

\* Once every order Kalshi took is settled, the profit and loss in the ledger is what the
\* account has gained or lost, but for what an order booked without its fills would have
\* cost at the limit price: nothing is booked twice or in part, unless Kalshi left out a
\* fill count (settle_open_orders).
BooksBalance ==
    (\A g \in Games : qty[g] > 0 => row[g] = "settled" /\ g \notin short) =>
        cash + Total(Bound) = StartCash + Total(pnl) + Total(Overstated)

\* Every order whose market has resolved is settled in the end, though replies are lost,
\* fills lag, calls fail and the bot crashes, and whether or not its fill check ever ran.
EveryTradeIsSettled ==
    []<>(\A g \in Games : phase[g] \in Ended => row[g] = "settled")

\* The high-water mark is never raised above the equity there is.
PeakIsEquity == [][peak' > peak => peak' <= Equity]_vars
=============================================================================
