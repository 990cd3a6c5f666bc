--------------------------- MODULE SportsbookPaper ---------------------------
(***************************************************************************)
(* The sportsbook scanner (src/sportsbook_sourced): one scan pairs Kalshi  *)
(* markets with sportsbook events, prices them from the books' odds and    *)
(* buys on paper (pipeline.py, mapper.py, pricing.py, scanner.py,          *)
(* paper.py); settlement checks, perhaps several at once, score what was   *)
(* bought (pipeline.py, evaluation.py) from the same database (storage.py).*)
(*                                                                         *)
(* Prices are in cents, probabilities in ten-thousandths, edges and fees   *)
(* per contract in ten-thousandths of a cent.                              *)
(***************************************************************************)
EXTENDS Integers, FiniteSets, Functions

CONSTANTS
    Markets, Games, Nowhere, NoMarket,
    Mascots,        \* NBA_MASCOTS: the words of a nickname, each a set of words
    Name,           \* the words of a market's YES, a tricode spelled out
    Team,           \* those of an event's home and away team
    Day, Closes,    \* a market: the day in its ticker, the minute it closes
    Days, Starts,   \* an event: its day in Eastern time, the minute it starts
    Books, Sharp,   \* bookmakers, and those of sharp_books
    OddsSets,       \* what the odds of an event may be: book -> home, away, age
    Quotes,         \* what a market's quote may be: bid, ask, and depth of each side
    StartCash,      \* STARTING_PAPER_CASH_CENTS
    MaxPosition,    \* max_position_usd, in cents
    Checkers,       \* settlement checks that may overlap
    MaxScans,       \* bound: scans
    MaxFaults       \* bound: writes that fail and markets that cannot be fetched

\* American odds, 0 for a side that is not offered; a longer shot than the last has a
\* probability that rounds to none.
Offered == {american \in Int : american <= 999900}

ASSUME PaperAssumption ==
    /\ Nowhere \notin Games /\ NoMarket \notin Markets
    /\ Sharp \subseteq Books /\ IsFiniteSet(Books)
    /\ \A odds \in OddsSets : \A k \in Books : {odds[k].home, odds[k].away} \subseteq Offered
    /\ \A m \in Markets : IsFiniteSet(Name[m])
    /\ \A e \in Games : IsFiniteSet(Team[e].home) /\ IsFiniteSet(Team[e].away)
    /\ {Day, Closes} \subseteq [Markets -> Int] /\ Starts \in [Games -> Int]
    /\ \A q \in Quotes : q.bid \in 0..100 /\ q.ask \in 0..100 /\ {q.yes, q.no} \subseteq Int
    /\ {StartCash, MaxPosition, MaxScans, MaxFaults} \subseteq Nat

VARIABLES
    scan,           \* the scan under way: its step, market, figures and portfolio
    held,           \* its positions
    scans,          \* scans begun
    priced,         \* rows of fair_price_snapshots, per event
    opps,           \* table opportunities, by scan and market
    orders,         \* table paper_orders, by opportunity
    evals,          \* table trade_evaluations, by opportunity
    paid,           \* history: what left the portfolio for an opportunity
    result,         \* Kalshi: the markets' results
    chk,            \* the settlement checks
    faults

db == <<opps, orders, evals>>
vars == <<scan, held, scans, priced, db, paid, result, chk, faults>>

Ids == (1..MaxScans) \X Markets
Max2(a, b) == IF a >= b THEN a ELSE b
Min2(a, b) == IF a <= b THEN a ELSE b
Distance(a, b) == Max2(a, b) - Min2(a, b)

Fault == /\ faults < MaxFaults
         /\ faults' = faults + 1

-----------------------------------------------------------------------------
(* Pairing a market with an event (mapper.py, pipeline.py).                *)

MinSimilarity == 55
AmbiguityGap == 8
Unknown == -1

\* How far two names are the same team, in hundredths: one nickname that both
\* contain, one name within the other, or else the share of common words.
Similarity(a, b) ==
    LET nicknames(name) == {k \in Mascots : k \subseteq name}
    IN  IF a = {} \/ b = {} THEN 0
        ELSE IF \/ Cardinality(nicknames(a)) = 1 /\ nicknames(a) = nicknames(b)
                \/ a \subseteq b \/ b \subseteq a
             THEN 100
        ELSE (100 * Cardinality(a \cap b)) \div Cardinality(a \cup b)

HomeScore(m, e) == Similarity(Name[m], Team[e].home)
AwayScore(m, e) == Similarity(Name[m], Team[e].away)
EventScore(m, e) == Max2(HomeScore(m, e), AwayScore(m, e))

\* Whether the market closes when the event does, in 240ths: not on another day nor
\* before the start, and less so the later it is after eight hours.
TimeFit(m, e) ==
    LET offset == Closes[m] - Starts[e]
        late == IF Closes[m] = Unknown THEN 0 ELSE Max2(0, offset - 480)
    IN  IF \/ Day[m] # Unknown /\ Day[m] \notin Days[e]
           \/ Closes[m] # Unknown /\ offset < -15
        THEN 0
        ELSE Max2(0, 240 - late)

Timely(m) == {e \in Games : TimeFit(m, e) > 0}

\* The best match among the events of the right day, if it is a real match and
\* no other comes close to it.
EventFor == [m \in Markets |->
    {e \in Timely(m) :
        /\ EventScore(m, e) >= MinSimilarity
        /\ \A f \in Timely(m) \ {e} : EventScore(m, e) - EventScore(m, f) >= AmbiguityGap}]

\* Whether YES is the home team, the away team, or cannot be told.
YesOutcome(m, e) ==
    IF \/ EventScore(m, e) < MinSimilarity
       \/ Distance(HomeScore(m, e), AwayScore(m, e)) < AmbiguityGap
    THEN "unknown"
    ELSE IF HomeScore(m, e) > AwayScore(m, e) THEN "home" ELSE "away"

Flagged(m, e) == YesOutcome(m, e) = "unknown" \/ TimeFit(m, e) < 240

-----------------------------------------------------------------------------
(* The fair price of an event (pricing.py).                                *)

MaxStaleness == 180

Implied(american) ==
    IF american > 0 THEN 1000000 \div (american + 100)
    ELSE (10000 * (-american)) \div (100 - american)

\* Books with both sides, whose fresher side is not stale.
Usable(odds) ==
    {k \in Books : odds[k].home # 0 /\ odds[k].away # 0 /\ odds[k].age <= MaxStaleness}

NoVig(row) == (10000 * Implied(row.home)) \div (Implied(row.home) + Implied(row.away))

Weight(k) == IF k \in Sharp THEN 3 ELSE 1

HomeProb(odds) ==
    SumFunction([k \in Usable(odds) |-> Weight(k) * NoVig(odds[k])])
        \div SumFunction([k \in Usable(odds) |-> Weight(k)])

\* Whether the standard deviation of the books is over 8 cents.
Disagree(odds) ==
    LET n == Cardinality(Usable(odds))
        sum == SumFunction([k \in Usable(odds) |-> NoVig(odds[k])])
        squares == SumFunction([k \in Usable(odds) |-> NoVig(odds[k]) * NoVig(odds[k])])
    IN n * squares - sum * sum > n * n * 800 * 800

-----------------------------------------------------------------------------
(* The opportunity (scanner.py) and its size (paper.py).                   *)

MinNetEdge == 30000
MinConfidence == 92
MinSources == 2
StaleBuffer == 10000

Confident(m, e) ==
    EventScore(m, e) >= MinConfidence /\ 100 * TimeFit(m, e) >= 240 * MinConfidence

Fee(price) == 7 * price * (100 - price)
ExactFee(count, price) == (count * Fee(price) + 9999) \div 10000

LiquidityBuffer(depth) ==
    IF depth = Unknown THEN 10000
    ELSE IF depth = 0 THEN 500000
    ELSE Min2(1000000 \div depth, 500000)

MaxContracts(price, depth) ==
    LET budget == IF price = 0 THEN 0 ELSE MaxPosition \div price
    IN IF depth = Unknown THEN budget ELSE Min2(budget, depth)

NoPriceFromAsk(quote) == 100 - quote.ask

NoPrice(quote) == 100 - quote.bid

\* What a row says beyond that nothing is bought is never read.
NoOpp == [buy |-> FALSE]

\* The better side at its price, with what is left of its edge.  The depth is that
\* of the bids of the side bought.
Opportunity(m, e, odds, quote) ==
    LET outcome == YesOutcome(m, e)
        fairYes == IF outcome = "home" THEN HomeProb(odds) ELSE 10000 - HomeProb(odds)
        yesEdge == 100 * fairYes - 10000 * quote.ask
        noEdge == 100 * (10000 - fairYes) - 10000 * NoPrice(quote)
        side == IF outcome = "unknown" \/ yesEdge >= noEdge THEN "yes" ELSE "no"
        price == IF side = "yes" THEN quote.ask ELSE NoPrice(quote)
        depth == IF side = "yes" THEN quote.yes ELSE quote.no
        net == IF outcome = "unknown" THEN 0
               ELSE Max2(yesEdge, noEdge) - Fee(price) - LiquidityBuffer(depth) - StaleBuffer
        most == IF outcome = "unknown" THEN 0 ELSE MaxContracts(price, depth)
        buy == /\ Confident(m, e) /\ ~Flagged(m, e)
               /\ Cardinality(Usable(odds)) >= MinSources /\ ~Disagree(odds)
               /\ net >= MinNetEdge
               /\ most > 0
    IN IF ~buy THEN NoOpp
       ELSE [side |-> side, buy |-> TRUE, price |-> price, net |-> net, most |-> most,
             fair |-> IF side = "yes" THEN fairYes ELSE 10000 - fairYes, quote |-> quote]

\* int(f * cash // price), for a quarter of Kelly's fraction.
QuarterKelly(opp, cash) ==
    (Min2(opp.net, 10000 * (100 - opp.price)) * cash) \div (40000 * (100 - opp.price) * opp.price)

Count(opp, cash) == Min2(opp.most, QuarterKelly(opp, cash))
Cost(opp, cash) == Count(opp, cash) * opp.price
Fills(opp, cash) == opp.buy /\ Count(opp, cash) > 0 /\ Cost(opp, cash) <= cash

-----------------------------------------------------------------------------
Rejected == [status |-> "rejected", side |-> "none", count |-> 0, price |-> 0]
NoOrder == [status |-> "none", side |-> "none", count |-> 0, price |-> 0]
NoEval == [side |-> "none", pnl |-> 0]
Idle == [step |-> "idle", todo |-> {}, market |-> NoMarket, event |-> Nowhere,
         seen |-> {}, cash |-> 0, opp |-> NoOpp, count |-> 0]
NoCheck == [at |-> "idle", todo |-> {}, due |-> {}, clean |-> TRUE, id |-> <<>>, won |-> "none"]
NothingHeld == [m \in Markets |-> [yes |-> 0, no |-> 0]]

Init ==
    /\ scan = Idle /\ held = NothingHeld /\ scans = 0
    /\ priced = [e \in Games |-> 0]
    /\ opps = [i \in Ids |-> NoOpp]
    /\ orders = [i \in Ids |-> NoOrder]
    /\ evals = [i \in Ids |-> NoEval]
    /\ paid = [i \in Ids |-> 0]
    /\ result = [m \in Markets |-> "open"]
    /\ chk = [c \in Checkers |-> NoCheck]
    /\ faults = 0

Id == <<scans, scan.market>>
Settling == <<evals, result, chk>>

\* The cli's scan: fresh cash, no positions, one list of markets, which a page that
\* fails cuts short.
Begin ==
    /\ scan.step = "idle" /\ scans < MaxScans
    /\ scans' = scans + 1
    /\ \E listed \in SUBSET Markets :
        scan' = [Idle EXCEPT !.step = "pick", !.todo = listed, !.cash = StartCash]
    /\ held' = NothingHeld
    /\ UNCHANGED <<priced, db, paid, result, chk, faults>>

Skipped == [scan EXCEPT !.step = "pick", !.market = NoMarket, !.event = Nowhere,
                        !.opp = NoOpp, !.count = 0]

\* A market without an event, or whose event another market has taken.
PassOver ==
    /\ scan.step = "pick"
    /\ \E m \in scan.todo :
        /\ EventFor[m] \subseteq scan.seen
        /\ scan' = [scan EXCEPT !.todo = @ \ {m}]
    /\ UNCHANGED <<held, scans, priced, opps, orders, paid, Settling, faults>>

PickUnmarked ==
    /\ scan.step = "pick"
    /\ \E m \in scan.todo : \E e \in EventFor[m] \ scan.seen :
        scan' = [scan EXCEPT !.step = "price", !.todo = @ \ {m}, !.market = m, !.event = e]
    /\ UNCHANGED <<held, scans, priced, opps, orders, paid, Settling, faults>>

\* The event counts as seen from here, whatever becomes of this market.
Pick ==
    /\ scan.step = "pick"
    /\ \E m \in scan.todo : \E e \in EventFor[m] \ scan.seen :
        scan' = [scan EXCEPT !.step = "price", !.todo = @ \ {m}, !.market = m,
                             !.event = e, !.seen = @ \cup {e}]
    /\ UNCHANGED <<held, scans, priced, opps, orders, paid, Settling, faults>>

\* Rows of the event, the market and the odds, the fair price, the mapping and the
\* opportunity.  Without a usable book the price raises.
Price ==
    /\ scan.step = "price"
    /\ \E odds \in OddsSets, quote \in Quotes :
        /\ Usable(odds) # {}
        /\ LET opp == Opportunity(scan.market, scan.event, odds, quote) IN
            /\ scan' = [scan EXCEPT !.step = "buy", !.opp = opp]
            /\ opps' = [opps EXCEPT ![Id] = opp]
    /\ priced' = [priced EXCEPT ![scan.event] = @ + 1]
    /\ UNCHANGED <<held, scans, orders, paid, Settling, faults>>

Unpriced ==
    /\ scan.step = "price"
    /\ \E odds \in OddsSets : Usable(odds) = {}
    /\ scan' = Skipped
    /\ UNCHANGED <<held, scans, priced, opps, orders, paid, Settling, faults>>

\* A write failed, before the row of the fair price or after it.
PriceFails ==
    /\ scan.step = "price"
    /\ Fault
    /\ scan' = Skipped
    /\ \E n \in {0, 1} : priced' = [priced EXCEPT ![scan.event] = @ + n]
    /\ UNCHANGED <<held, scans, opps, orders, paid, Settling>>

\* The fill, in memory; every price is less than 100 when there is an edge.
Buy ==
    /\ scan.step = "buy"
    /\ Fills(scan.opp, scan.cash)
    /\ LET opp == scan.opp
           n == Count(opp, scan.cash)
       IN  /\ scan' = [scan EXCEPT !.step = "book", !.count = n, !.cash = @ - Cost(opp, @)]
           /\ held' = [held EXCEPT ![scan.market] =
                        [yes |-> @.yes + IF opp.side = "yes" THEN n ELSE 0,
                         no |-> @.no + IF opp.side = "no" THEN n ELSE 0]]
           /\ paid' = [paid EXCEPT ![Id] = Cost(opp, scan.cash)]
    /\ UNCHANGED <<scans, priced, opps, orders, Settling, faults>>

Reject ==
    /\ scan.step = "buy"
    /\ ~Fills(scan.opp, scan.cash)
    /\ scan' = [scan EXCEPT !.step = "book"]
    /\ UNCHANGED <<held, scans, priced, opps, orders, paid, Settling, faults>>

\* The row of the fill.
Book ==
    /\ scan.step = "book"
    /\ orders' = [orders EXCEPT ![Id] =
                    IF scan.count = 0 THEN Rejected
                    ELSE [status |-> "filled", side |-> scan.opp.side,
                          count |-> scan.count, price |-> scan.opp.price]]
    /\ scan' = Skipped
    /\ UNCHANGED <<held, scans, priced, opps, paid, Settling, faults>>

\* The fill stays in the portfolio when its row cannot be written.
BookFails ==
    /\ scan.step = "book"
    /\ Fault
    /\ scan' = Skipped
    /\ UNCHANGED <<held, scans, priced, opps, orders, paid, Settling>>

\* The scan ends, by itself or killed, and its portfolio with it.
End ==
    /\ scan.step # "idle"
    /\ scan' = Idle /\ held' = NothingHeld
    /\ UNCHANGED <<scans, priced, opps, orders, paid, Settling, faults>>

-----------------------------------------------------------------------------
(* Kalshi, and the settlement checks.                                      *)

Market(i) == i[2]
Filled == {i \in Ids : orders[i].status = "filled"}
Scored == {i \in Ids : evals[i].side # "none"}
Pending == Filled \ Scored

\* The result of a market without a bet is never read.
Resolve(m) ==
    /\ result[m] = "open" /\ \E i \in Filled : Market(i) = m
    /\ \E r \in {"yes", "no"} : result' = [result EXCEPT ![m] = r]
    /\ UNCHANGED <<scan, held, scans, priced, db, paid, chk, faults>>

Becomes(c, r) == chk' = [chk EXCEPT ![c] = r]
Scanning == <<scan, held, scans, priced, opps, orders, paid>>

List(c) ==
    /\ chk[c].at \in {"idle", "done"}
    /\ Pending # {}
    /\ Becomes(c, [NoCheck EXCEPT !.at = "next", !.todo = Pending,
                              !.due = {i \in Pending : result[Market(i)] # "open"}])
    /\ UNCHANGED <<Scanning, evals, result, faults>>

Further(c) == [chk[c] EXCEPT !.at = "next", !.id = <<>>, !.won = "none"]

AskYesOrNo(c) ==
    /\ chk[c].at = "next"
    /\ \E i \in chk[c].todo :
        Becomes(c, [chk[c] EXCEPT !.at = "write", !.todo = @ \ {i}, !.id = i,
                                  !.won = IF result[Market(i)] = "yes" THEN "yes" ELSE "no"])
    /\ UNCHANGED <<Scanning, evals, result, faults>>

AskUntilUnsettled(c) ==
    /\ chk[c].at = "next"
    /\ \E i \in chk[c].todo :
        IF result[Market(i)] = "open"
        THEN Becomes(c, [Further(c) EXCEPT !.todo = {}])
        ELSE Becomes(c, [chk[c] EXCEPT !.at = "write", !.todo = @ \ {i}, !.id = i,
                                       !.won = result[Market(i)]])
    /\ UNCHANGED <<Scanning, evals, result, faults>>

\* get_market, and whether YES has won, lost or neither yet.
Ask(c) ==
    /\ chk[c].at = "next"
    /\ \E i \in chk[c].todo :
        IF result[Market(i)] = "open"
        THEN Becomes(c, [Further(c) EXCEPT !.todo = @ \ {i}])
        ELSE Becomes(c, [chk[c] EXCEPT !.at = "write", !.todo = @ \ {i}, !.id = i,
                                   !.won = result[Market(i)]])
    /\ UNCHANGED <<Scanning, evals, result, faults>>

AskFails(c) ==
    /\ chk[c].at = "next"
    /\ Fault
    /\ \E i \in chk[c].todo : Becomes(c, [Further(c) EXCEPT !.todo = @ \ {i}, !.clean = FALSE])
    /\ UNCHANGED <<Scanning, evals, result>>

PnlOfOffer(i, won) ==
    LET n == opps[i].most IN
    n * ((IF orders[i].side = won THEN 100 ELSE 0) - opps[i].price) - ExactFee(n, opps[i].price)

\* realized_pnl_cents, less the fee of the whole order.
Pnl(i, won) ==
    LET o == orders[i] IN
    o.count * ((IF o.side = won THEN 100 ELSE 0) - opps[i].price) - ExactFee(o.count, opps[i].price)

\* The upsert, which keeps what it is not given.
Write(c) ==
    /\ chk[c].at = "write"
    /\ LET i == chk[c].id IN
        evals' = [evals EXCEPT ![i] = [side |-> chk[c].won, pnl |-> Pnl(i, chk[c].won)]]
    /\ Becomes(c, Further(c))
    /\ UNCHANGED <<Scanning, result, faults>>

WriteFails(c) ==
    /\ chk[c].at = "write"
    /\ Fault
    /\ Becomes(c, [Further(c) EXCEPT !.clean = FALSE])
    /\ UNCHANGED <<Scanning, evals, result>>

Return(c) ==
    /\ chk[c].at = "next" /\ chk[c].todo = {}
    /\ Becomes(c, [chk[c] EXCEPT !.at = "done"])
    /\ UNCHANGED <<Scanning, evals, result, faults>>

Killed(c) ==
    /\ chk[c].at \in {"next", "write"}
    /\ Becomes(c, NoCheck)
    /\ UNCHANGED <<Scanning, evals, result, faults>>

Next ==
    \/ Begin \/ PassOver \/ Pick \/ Price \/ Unpriced \/ PriceFails
    \/ Buy \/ Reject \/ Book \/ BookFails \/ End
    \/ \E m \in Markets : Resolve(m)
    \/ \E c \in Checkers :
        \/ List(c) \/ Ask(c) \/ AskFails(c) \/ Write(c) \/ WriteFails(c)
        \/ Return(c) \/ Killed(c)

Spec == Init /\ [][Next]_vars

-----------------------------------------------------------------------------
\* A scan prices an event once and bets on one market of it at most, also when a
\* step for an earlier market of it has failed (pipeline.py:97).
OncePerScan ==
    /\ \A e \in Games : priced[e] <= scans
    /\ \A m, n \in Markets :
        /\ held[m].yes + held[m].no > 0 /\ held[n].yes + held[n].no > 0
        /\ EventFor[m] = EventFor[n]
        => m = n

\* What is bought is worth more than it costs, at the price the market really asked
\* and after the fee on the whole order, rounded up to a cent.
BuysAreWorthIt ==
    \A i \in Filled :
        LET o == orders[i]
            q == opps[i].quote
            ask == IF o.side = "yes" THEN q.ask ELSE 100 - q.bid
        IN  o.count * (100 * opps[i].fair - 10000 * ask) > 10000 * ExactFee(o.count, ask)

\* The score of a bet is what it pays less what left the portfolio for it, and the
\* fee; a market that has not settled is not scored.
PnlIsOfTheFill ==
    \A i \in Scored :
        /\ evals[i].side = result[Market(i)]
        /\ evals[i].pnl = (IF orders[i].side = evals[i].side THEN 100 * orders[i].count ELSE 0)
                            - paid[i] - ExactFee(orders[i].count, orders[i].price)

\* A check that returns and lost no call has scored every bet that was pending and
\* settled when it began.
CheckIsComplete ==
    \A c \in Checkers : chk[c].at = "done" /\ chk[c].clean => chk[c].due \subseteq Scored

\* A score is never changed, by another check either.
ScoreIsFinal ==
    [][\A i \in Scored : evals'[i] = evals[i]]_vars
=============================================================================
