----------------------- MODULE SportsbookPaperProofs -----------------------
(***************************************************************************)
(* What holds of SportsbookPaper for any markets, events, odds and quotes, *)
(* any number of scans and of settlement checks that overlap.              *)
(***************************************************************************)
EXTENDS SportsbookPaper, FiniteSetTheorems, WellFoundedInduction, TLAPS

Steps == {"idle", "pick", "price", "buy", "book"}
AtMarket == {"price", "buy", "book"}
Outcomes == {"yes", "no"}

Checks == [at : {"idle", "next", "write", "done"}, todo : SUBSET Ids, due : SUBSET Ids,
           clean : BOOLEAN, id : Ids \cup {<<>>}, won : Outcomes \cup {"none"}]

\* The figures of a scan and of its rows are computed from odds and quotes; no
\* argument below depends on what they come to.
Figures == scan = [step |-> scan.step, todo |-> scan.todo, market |-> scan.market,
                   event |-> scan.event, seen |-> scan.seen, cash |-> scan.cash,
                   opp |-> scan.opp, count |-> scan.count]

Typed ==
    /\ Figures /\ scan.step \in Steps /\ scan.todo \subseteq Markets /\ scan.seen \subseteq Games
    /\ scans \in 0..MaxScans /\ priced \in [Games -> Nat]
    /\ held = [m \in Markets |-> held[m]]
    /\ opps = [i \in Ids |-> opps[i]] /\ orders = [i \in Ids |-> orders[i]]
    /\ evals = [i \in Ids |-> evals[i]]
    /\ result \in [Markets -> Outcomes \cup {"open"}]
    /\ chk \in [Checkers -> Checks]

\* A scan has a number, and while it is at a market it has that market's event.
InScan ==
    /\ scan.step # "idle" => scans >= 1
    /\ scan.step \in AtMarket =>
        /\ scan.market \in Markets \ scan.todo
        /\ scan.event \in EventFor[scan.market] \cap scan.seen

ScanStep == \/ Begin \/ PassOver \/ Pick \/ Price \/ Unpriced \/ PriceFails
            \/ Buy \/ Reject \/ Book \/ BookFails \/ End

CheckStep(c) == \/ List(c) \/ Ask(c) \/ AskFails(c) \/ Write(c) \/ WriteFails(c)
                \/ Return(c) \/ Killed(c)

LEMMA Split == Next <=> ScanStep \/ (\E m \in Markets : Resolve(m)) \/ (\E c \in Checkers : CheckStep(c))
BY DEF Next, ScanStep, CheckStep

LEMMA EventsAreGames == \A m \in Markets : EventFor[m] \subseteq Games
BY DEF EventFor, Timely

LEMMA MarketOfId == \A i \in Ids : Market(i) \in Markets
BY DEF Ids, Market

-----------------------------------------------------------------------------
(* Types                                                                   *)

LEMMA TypedInit == Init => Typed /\ InScan
<1>. SUFFICES ASSUME Init PROVE Typed /\ InScan
  OBVIOUS
<1>1. NoCheck \in Checks
  BY DEF NoCheck, Checks
<1>2. Figures /\ InScan /\ scan.step \in Steps /\ scan.todo = {} /\ scan.seen = {}
  BY DEF Init, Idle, Figures, InScan, Steps, AtMarket
<1>3. scans \in 0..MaxScans
  BY PaperAssumption DEF Init
<1>4. held = [m \in Markets |-> held[m]]
  BY DEF Init, NothingHeld
<1>. QED
  BY <1>1, <1>2, <1>3, <1>4 DEF Init, Typed

LEMMA TypedScan ==
  ASSUME Typed, InScan, ScanStep
  PROVE  Typed' /\ InScan'
<1>. USE PaperAssumption, EventsAreGames
     DEF Typed, InScan, Figures, Steps, AtMarket, db, Settling, Id
<1>1. CASE Begin
  <2>1. held' = [m \in Markets |-> held'[m]]
    BY <1>1 DEF Begin, NothingHeld
  <2>2. scans' \in 0..MaxScans /\ scans' >= 1
    BY <1>1 DEF Begin
  <2>3. Figures' /\ scan'.step = "pick" /\ scan'.todo \subseteq Markets /\ scan'.seen = {}
    BY <1>1 DEF Begin, Idle
  <2>. QED
    BY <1>1, <2>1, <2>2, <2>3 DEF Begin
<1>2. CASE PassOver
  <2>1. PICK m \in scan.todo : scan' = [scan EXCEPT !.todo = @ \ {m}]
    BY <1>2 DEF PassOver
  <2>2. /\ Figures' /\ scan'.step = scan.step /\ scan'.todo = scan.todo \ {m}
        /\ scan'.seen = scan.seen
    BY <2>1
  <2>. QED
    BY <1>2, <2>2 DEF PassOver
<1>3. CASE Pick
  <2>1. PICK m \in scan.todo : \E e \in EventFor[m] \ scan.seen :
            scan' = [scan EXCEPT !.step = "price", !.todo = @ \ {m}, !.market = m,
                                 !.event = e, !.seen = @ \cup {e}]
    BY <1>3 DEF Pick
  <2>2. PICK e \in EventFor[m] \ scan.seen :
            scan' = [scan EXCEPT !.step = "price", !.todo = @ \ {m}, !.market = m,
                                 !.event = e, !.seen = @ \cup {e}]
    BY <2>1
  <2>3. m \in Markets /\ e \in Games
    BY <2>1, <2>2
  <2>4. /\ Figures' /\ scan'.step = "price" /\ scan'.todo = scan.todo \ {m} /\ scan'.market = m
        /\ scan'.event = e /\ scan'.seen = scan.seen \cup {e}
    BY <2>2
  <2>. QED
    BY <1>3, <2>2, <2>3, <2>4 DEF Pick
<1>4. CASE Price
  <2>1. PICK odds \in OddsSets, quote \in Quotes :
            /\ scan' = [scan EXCEPT !.step = "buy",
                                    !.opp = Opportunity(scan.market, scan.event, odds, quote)]
            /\ opps' = [opps EXCEPT ![<<scans, scan.market>>] =
                                    Opportunity(scan.market, scan.event, odds, quote)]
    BY <1>4 DEF Price
  <2>2. priced' \in [Games -> Nat]
    BY <1>4 DEF Price
  <2>. QED
    BY <1>4, <2>1, <2>2 DEF Price
<1>5. CASE Unpriced \/ BookFails
  <2>1. Figures' /\ scan'.step = "pick" /\ scan'.todo = scan.todo /\ scan'.seen = scan.seen
    BY <1>5 DEF Unpriced, BookFails, Skipped
  <2>. QED
    BY <1>5, <2>1 DEF Unpriced, BookFails
<1>6. CASE PriceFails
  <2>1. Figures' /\ scan'.step = "pick" /\ scan'.todo = scan.todo /\ scan'.seen = scan.seen
    BY <1>6 DEF PriceFails, Skipped
  <2>2. priced' \in [Games -> Nat]
    BY <1>6 DEF PriceFails
  <2>. QED
    BY <1>6, <2>1, <2>2 DEF PriceFails
<1>7. CASE Buy
  <2>1. /\ scan'.step = "book" /\ Figures' /\ scan'.todo = scan.todo /\ scan'.seen = scan.seen
        /\ scan'.market = scan.market /\ scan'.event = scan.event
    BY <1>7 DEF Buy
  <2>2. held' = [m \in Markets |-> held'[m]]
    BY <1>7 DEF Buy
  <2>. QED
    BY <1>7, <2>1, <2>2 DEF Buy
<1>8. CASE Reject
  BY <1>8 DEF Reject
<1>9. CASE Book
  BY <1>9 DEF Book, Skipped
<1>10. CASE End
  BY <1>10 DEF End, Idle, NothingHeld
<1>. QED
  BY <1>1, <1>2, <1>3, <1>4, <1>5, <1>6, <1>7, <1>8, <1>9, <1>10 DEF ScanStep

LEMMA TypedCheck ==
  ASSUME Typed, InScan, NEW c \in Checkers, CheckStep(c)
  PROVE  Typed' /\ InScan'
<1>1. UNCHANGED <<scan, held, scans, priced, opps, orders, result>>
  BY DEF CheckStep, List, Ask, AskFails, Write, WriteFails, Return, Killed, Scanning
<1>2. evals' = [i \in Ids |-> evals'[i]]
  BY DEF CheckStep, List, Ask, AskFails, Write, WriteFails, Return, Killed, Typed
<1>3. chk[c] \in Checks /\ Further(c) \in Checks
  <2>1. chk[c] \in Checks
    BY DEF Typed
  <2>. QED
    BY <2>1 DEF Further, Checks
<1>4. \E r \in Checks : Becomes(c, r)
  <2>1. CASE List(c)
    <3>1. Pending \subseteq Ids
      BY DEF Pending, Filled
    <3>. QED
      BY <2>1, <3>1 DEF List, NoCheck, Checks
  <2>2. ASSUME NEW i \in chk[c].todo, NEW w \in Outcomes
        PROVE  [chk[c] EXCEPT !.at = "write", !.todo = @ \ {i}, !.id = i, !.won = w] \in Checks
    BY <1>3, <2>2 DEF Checks
  <2>3. ASSUME NEW i \in chk[c].todo
        PROVE  /\ [Further(c) EXCEPT !.todo = @ \ {i}] \in Checks
               /\ [Further(c) EXCEPT !.todo = @ \ {i}, !.clean = FALSE] \in Checks
    BY <1>3, <2>3 DEF Checks
  <2>4. CASE Ask(c)
    <3>1. PICK i \in chk[c].todo :
            IF result[Market(i)] = "open"
            THEN Becomes(c, [Further(c) EXCEPT !.todo = @ \ {i}])
            ELSE Becomes(c, [chk[c] EXCEPT !.at = "write", !.todo = @ \ {i}, !.id = i,
                                           !.won = result[Market(i)]])
      BY <2>4 DEF Ask
    <3>2. result[Market(i)] \in Outcomes \cup {"open"}
      BY <1>3, MarketOfId DEF Typed, Checks
    <3>. QED
      BY <2>2, <2>3, <3>1, <3>2
  <2>5. CASE AskFails(c)
    BY <2>3, <2>5 DEF AskFails
  <2>6. CASE Write(c) \/ WriteFails(c)
    <3>1. [Further(c) EXCEPT !.clean = FALSE] \in Checks
      BY <1>3 DEF Checks
    <3>. QED
      BY <1>3, <2>6, <3>1 DEF Write, WriteFails
  <2>7. CASE Return(c)
    <3>1. [chk[c] EXCEPT !.at = "done"] \in Checks
      BY <1>3 DEF Checks
    <3>. QED
      BY <2>7, <3>1 DEF Return
  <2>8. CASE Killed(c)
    BY <2>8 DEF Killed, NoCheck, Checks
  <2>. QED
    BY <2>1, <2>4, <2>5, <2>6, <2>7, <2>8 DEF CheckStep
<1>5. chk' \in [Checkers -> Checks]
  BY <1>4 DEF Becomes, Typed
<1>. QED
  BY <1>1, <1>2, <1>5 DEF Typed, Figures, InScan

LEMMA TypedNext ==
  ASSUME Typed, InScan, [Next]_vars
  PROVE  Typed' /\ InScan'
<1>1. CASE UNCHANGED vars
  BY <1>1 DEF vars, db, Typed, Figures, InScan
<1>2. ASSUME NEW m \in Markets, Resolve(m)
      PROVE  Typed' /\ InScan'
  BY <1>2 DEF Resolve, db, Typed, Figures, InScan, Outcomes
<1>. QED
  BY <1>1, <1>2, TypedScan, TypedCheck, Split

LEMMA TypedAlways == Spec => [](Typed /\ InScan)
BY TypedInit, TypedNext, PTL DEF Spec

-----------------------------------------------------------------------------
(* A bet, once recorded, is not touched again *)

\* Rows are of scans that have begun; the scan under way has none yet for the
\* markets it has still to handle, nor for the one it is at.
Unused ==
    /\ \A i \in Ids : orders[i].status # "none" => i[1] <= scans
    /\ scan.step # "idle" => \A m \in scan.todo : orders[<<scans, m>>].status = "none"
    /\ scan.step \in AtMarket => orders[Id].status = "none"

\* Of the bets only the market at hand's row is written, and its opportunity's.
LEMMA BetFrame ==
  ASSUME Typed, InScan, [Next]_vars
  PROVE  \/ UNCHANGED <<opps, orders>>
         \/ /\ scan.step \in AtMarket
            /\ \A i \in Ids \ {Id} : opps'[i] = opps[i] /\ orders'[i] = orders[i]
            /\ orders' = orders \/ (scan.step = "book" /\ scan'.step = "pick")
<1>. USE DEF db, Settling, Scanning
<1>1. CASE Price
  BY <1>1 DEF Price, Typed, AtMarket
<1>2. CASE Book
  BY <1>2 DEF Book, Skipped, Typed, Figures, AtMarket
<1>3. CASE \/ UNCHANGED vars \/ (\E m \in Markets : Resolve(m)) \/ (\E c \in Checkers : CheckStep(c))
  BY <1>3 DEF vars, Resolve, CheckStep, List, Ask, AskFails, Write, WriteFails, Return, Killed
<1>4. CASE ScanStep /\ ~Price /\ ~Book
  BY <1>4 DEF ScanStep, Begin, PassOver, Pick, Unpriced, PriceFails, Buy, Reject, BookFails, End
<1>. QED
  BY <1>1, <1>2, <1>3, <1>4, Split

\* How a scan moves on: to the next market, to a market of its list, or on at the
\* one it has.
LEMMA ScanFrame ==
  ASSUME Typed, InScan, [Next]_vars
  PROVE  \/ UNCHANGED <<scan, scans>>
         \/ scan'.step = "idle" /\ scans' = scans
         \/ scan.step = "idle" /\ scans' = scans + 1 /\ scan'.step = "pick"
         \/ /\ scan.step # "idle" /\ scans' = scans /\ scan'.todo \subseteq scan.todo
            /\ scan'.step \in AtMarket =>
                  \/ scan'.market \in scan.todo
                  \/ scan.step \in AtMarket /\ scan'.market = scan.market
<1>. USE DEF Typed, Figures, AtMarket, db, Settling, Scanning
<1>1. CASE Begin
  BY <1>1 DEF Begin, Idle
<1>2. CASE PassOver
  BY <1>2 DEF PassOver
<1>3. CASE Pick
  BY <1>3 DEF Pick
<1>4. CASE Price \/ Unpriced \/ PriceFails \/ Buy \/ Reject \/ Book \/ BookFails
  BY <1>4 DEF Price, Unpriced, PriceFails, Buy, Reject, Book, BookFails, Skipped
<1>5. CASE End
  BY <1>5 DEF End, Idle
<1>6. CASE \/ UNCHANGED vars \/ (\E m \in Markets : Resolve(m)) \/ (\E c \in Checkers : CheckStep(c))
  BY <1>6 DEF vars, Resolve, CheckStep, List, Ask, AskFails, Write, WriteFails, Return, Killed
<1>. QED
  BY <1>1, <1>2, <1>3, <1>4, <1>5, <1>6, Split DEF ScanStep

LEMMA UnusedNext ==
  ASSUME Typed, InScan, Unused, [Next]_vars
  PROVE  Unused'
<1>1. Typed' /\ InScan' /\ scans \in Nat /\ scans' \in Nat
  BY TypedNext DEF Typed
<1>2. \A m \in Markets : scan.step # "idle" => <<scans, m>> \in Ids
  BY DEF Ids, Typed, InScan
<1>3. \A m \in Markets : scan'.step # "idle" => <<scans', m>> \in Ids
  BY <1>1 DEF Ids, Typed, InScan
<1>4. \A i \in Ids : i[1] \in Nat /\ i = <<i[1], i[2]>>
  BY DEF Ids
<1>5. scan.step \in AtMarket => Id \in Ids /\ scan.market \notin scan.todo
  BY <1>2 DEF InScan, Id, AtMarket
<1>6. \A i \in Ids : orders'[i].status # "none" => i[1] <= scans'
  <2>1. scans <= scans'
    BY <1>1, ScanFrame
  <2>2. \A i \in Ids : orders'[i].status # "none" => i[1] <= scans
    BY <1>1, <1>5, BetFrame DEF Unused, Id
  <2>. QED
    BY <1>1, <1>4, <2>1, <2>2
<1>7. ASSUME scan'.step # "idle", NEW m \in Markets,
             \/ m \in scan'.todo
             \/ scan'.step \in AtMarket /\ m = scan'.market
      PROVE  orders'[<<scans', m>>].status = "none"
  <2>1. CASE scan.step = "idle" /\ scans' = scans + 1
    <3>1. <<scans', m>> \in Ids
      BY <1>3, <1>7
    <3>2. orders[<<scans', m>>].status = "none"
      BY <1>1, <2>1, <3>1 DEF Unused
    <3>. QED
      BY <2>1, <3>1, <3>2, BetFrame DEF AtMarket
  <2>2. CASE scan.step # "idle" /\ scans' = scans
    <3>1. \/ m \in scan.todo
          \/ scan.step \in AtMarket /\ m = scan.market /\ scan'.step \in AtMarket
      BY <1>1, <1>7, <2>2, ScanFrame DEF Typed
    <3>2. <<scans, m>> \in Ids
      BY <1>2, <2>2
    <3>3. orders[<<scans, m>>].status = "none"
      BY <2>2, <3>1 DEF Unused, Id
    <3>4. orders'[<<scans, m>>] = orders[<<scans, m>>]
      BY <1>5, <3>1, <3>2, BetFrame DEF Id, AtMarket
    <3>. QED
      BY <2>2, <3>3, <3>4
  <2>3. CASE UNCHANGED <<scan, scans>> /\ scan.step = "idle"
    BY <1>7, <2>3
  <2>. QED
    BY <1>7, <2>1, <2>2, <2>3, ScanFrame
<1>8. scan'.step # "idle" => \A m \in scan'.todo : orders'[<<scans', m>>].status = "none"
  BY <1>1, <1>7 DEF Typed
<1>9. scan'.step \in AtMarket => orders'[<<scans', scan'.market>>].status = "none"
  BY <1>1, <1>7 DEF InScan, AtMarket
<1>. QED
  BY <1>6, <1>8, <1>9 DEF Unused, Id

LEMMA UnusedAlways == Spec => []Unused
<1>1. Init => Unused
  BY DEF Init, Unused, Idle, NoOrder, AtMarket
<1>. QED
  BY <1>1, TypedAlways, UnusedNext, PTL DEF Spec

\* What the checks read of a bet never changes.
LEMMA BetsStay ==
  ASSUME Typed, InScan, Unused, [Next]_vars
  PROVE  /\ Filled \subseteq Filled'
         /\ \A i \in Filled : orders'[i] = orders[i] /\ opps'[i] = opps[i]
<1>1. Id \in Filled => scan.step \notin AtMarket
  BY DEF Unused, Filled
<1>. QED
  BY <1>1, BetFrame DEF Filled

-----------------------------------------------------------------------------
(* A score is final, and a check scores what was due *)

Settled(i) == result[Market(i)] \in Outcomes
Score(i) == [side |-> result[Market(i)], pnl |-> Pnl(i, result[Market(i)])]

\* A score is a function of the bet and of the market's result, which no longer
\* change; so a check that is late writes what is there already.
Scores == \A i \in Scored : i \in Filled /\ Settled(i) /\ evals[i] = Score(i)

\* A check is about to write the result of a bet, has it on its list, has scored it
\* or knows that it has missed it.
Due(c) == Scored \cup chk[c].todo \cup IF chk[c].at = "write" THEN {chk[c].id} ELSE {}

Checking(c) ==
    /\ chk[c].todo \subseteq Filled
    /\ \A i \in chk[c].due : Settled(i)
    /\ chk[c].at = "write" =>
        chk[c].id \in Filled /\ chk[c].won \in Outcomes /\ chk[c].won = result[Market(chk[c].id)]
    /\ chk[c].at \in {"next", "write", "done"} /\ chk[c].clean => chk[c].due \subseteq Due(c)
    /\ chk[c].at = "done" => chk[c].todo = {}

Graded == Scores /\ \A c \in Checkers : Checking(c)

\* Steps of the scan and of Kalshi.
LEMMA GradedAside ==
  ASSUME Typed, InScan, Unused, Graded, [Next]_vars, UNCHANGED <<evals, chk>>
  PROVE  Graded'
<1>1. Filled \subseteq Filled' /\ Scored' = Scored
  BY BetsStay DEF Scored
<1>2. \A m \in Markets : result[m] \in Outcomes => result'[m] = result[m]
  <2>1. ASSUME NEW n \in Markets, Resolve(n)
        PROVE  \A m \in Markets : result[m] \in Outcomes => result'[m] = result[m]
    BY <2>1 DEF Resolve, Typed, Outcomes
  <2>2. CASE UNCHANGED result
    BY <2>2
  <2>3. CASE \/ UNCHANGED vars \/ ScanStep \/ \E c \in Checkers : CheckStep(c)
    BY <2>2, <2>3 DEF vars, ScanStep, Begin, PassOver, Pick, Price, Unpriced, PriceFails, Buy,
       Reject, Book, BookFails, End, CheckStep, List, Ask, AskFails, Write, WriteFails, Return,
       Killed, Settling
  <2>. QED
    BY <2>1, <2>3, Split
<1>3. \A i \in Filled : Settled(i) => Settled(i)' /\ Score(i)' = Score(i)
  BY <1>2, MarketOfId, BetsStay DEF Settled, Score, Pnl, Market, Filled
<1>4. Scores'
  BY <1>1, <1>3 DEF Graded, Scores
<1>5. ASSUME NEW c \in Checkers
      PROVE  Checking(c)'
  <2>1. Checking(c) /\ chk[c] \in Checks
    BY DEF Graded, Typed
  <2>2. \A i \in chk[c].due : Settled(i)'
    BY <1>2, <2>1, MarketOfId DEF Checking, Settled, Checks, Market
  <2>3. chk[c].at = "write" => chk[c].won = result'[Market(chk[c].id)]
    BY <1>2, <2>1, MarketOfId DEF Checking, Filled
  <2>. QED
    BY <1>1, <2>1, <2>2, <2>3 DEF Checking, Due
<1>. QED
  BY <1>4, <1>5 DEF Graded

\* What a check writes is the score of a bet; every other row stays.
LEMMA WriteScores ==
  ASSUME Typed, Graded, NEW c \in Checkers, Write(c)
  PROVE  LET i == chk[c].id IN
         /\ i \in Filled /\ Settled(i) /\ evals' = [evals EXCEPT ![i] = Score(i)]
         /\ Scored' = Scored \cup {i}
<1>. DEFINE i == chk[c].id
<1>1. i \in Filled /\ Settled(i) /\ chk[c].won = result[Market(i)]
  BY DEF Write, Graded, Checking, Settled
<1>2. evals' = [evals EXCEPT ![i] = Score(i)]
  BY <1>1 DEF Write, Score
<1>3. i \in Ids /\ Score(i).side # "none"
  BY <1>1 DEF Filled, Score, Settled, Outcomes
<1>4. \A j \in Ids : evals'[j] = IF j = i THEN Score(i) ELSE evals[j]
  BY <1>2, <1>3 DEF Typed
<1>. QED
  BY <1>1, <1>2, <1>3, <1>4 DEF Scored

LEMMA GradedCheck ==
  ASSUME Typed, InScan, Graded, NEW c \in Checkers, CheckStep(c)
  PROVE  Graded'
<1>1. UNCHANGED <<scan, scans, opps, orders, result>> /\ Filled' = Filled
  BY DEF CheckStep, List, Ask, AskFails, Write, WriteFails, Return, Killed, Scanning, Filled
<1>2. \A i : Settled(i)' = Settled(i) /\ Score(i)' = Score(i)
  BY <1>1 DEF Settled, Score, Pnl
<1>3. Scored \subseteq Scored' /\ Scores'
  <2>1. CASE Write(c)
    <3>1. \A i \in Ids : evals'[i] = IF i = chk[c].id THEN Score(chk[c].id) ELSE evals[i]
      BY <2>1, WriteScores DEF Typed
    <3>. QED
      BY <1>1, <1>2, <2>1, <3>1, WriteScores DEF Graded, Scores, Scored
  <2>2. CASE UNCHANGED evals
    BY <1>1, <1>2, <2>2 DEF Graded, Scores, Scored
  <2>. QED
    BY <2>1, <2>2 DEF CheckStep, List, Ask, AskFails, WriteFails, Return, Killed
<1>4. Typed' /\ chk[c] \in Checks /\ Checking(c)
  BY TypedCheck DEF Typed, Graded
<1>5. \A d \in Checkers \ {c} : chk'[d] = chk[d]
  BY DEF CheckStep, List, Ask, AskFails, Write, WriteFails, Return, Killed, Becomes, Typed
<1>6. ASSUME NEW d \in Checkers, d # c
      PROVE  Checking(d)'
  BY <1>1, <1>2, <1>3, <1>5, <1>6 DEF Graded, Checking, Due
<1>7. ASSUME NEW r, Becomes(c, r)
      PROVE  chk'[c] = r
  BY <1>7 DEF Becomes, Typed
<1>8. Checking(c)'
  <2>1. CASE List(c)
    <3>. DEFINE due == {i \in Pending : result[Market(i)] # "open"}
    <3>1. chk'[c] = [NoCheck EXCEPT !.at = "next", !.todo = Pending, !.due = due]
      BY <1>7, <2>1 DEF List
    <3>2. Pending \subseteq Filled /\ \A i \in due : Settled(i)
      BY MarketOfId DEF Pending, Filled, Settled, Typed
    <3>. QED
      BY <1>1, <1>2, <3>1, <3>2 DEF Checking, Due, NoCheck
  <2>2. CASE Ask(c)
    <3>1. PICK i \in chk[c].todo :
            IF result[Market(i)] = "open"
            THEN Becomes(c, [Further(c) EXCEPT !.todo = @ \ {i}])
            ELSE Becomes(c, [chk[c] EXCEPT !.at = "write", !.todo = @ \ {i}, !.id = i,
                                           !.won = result[Market(i)]])
      BY <2>2 DEF Ask
    <3>2. chk[c].at = "next" /\ Scored' = Scored
      BY <2>2 DEF Ask, Scored
    <3>3. CASE result[Market(i)] = "open"
      <4>1. chk'[c] = [Further(c) EXCEPT !.todo = @ \ {i}]
        BY <1>7, <3>1, <3>3
      <4>2. i \notin chk[c].due
        BY <1>4, <3>3 DEF Checking, Settled, Outcomes
      <4>. QED
        BY <1>1, <1>2, <1>4, <3>2, <4>1, <4>2 DEF Checking, Due, Further, Checks
    <3>4. CASE result[Market(i)] # "open"
      <4>1. chk'[c] = [chk[c] EXCEPT !.at = "write", !.todo = @ \ {i}, !.id = i,
                                     !.won = result[Market(i)]]
        BY <1>7, <3>1, <3>4
      <4>2. i \in Filled /\ result[Market(i)] \in Outcomes
        BY <1>4, <3>1, <3>4, MarketOfId DEF Checking, Typed, Checks
      <4>. QED
        BY <1>1, <1>2, <1>4, <3>2, <4>1, <4>2 DEF Checking, Due, Checks
    <3>. QED
      BY <3>3, <3>4
  <2>3. CASE AskFails(c)
    <3>1. PICK i \in chk[c].todo :
            chk'[c] = [Further(c) EXCEPT !.todo = @ \ {i}, !.clean = FALSE]
      BY <1>7, <2>3 DEF AskFails
    <3>. QED
      BY <1>1, <1>2, <1>4, <3>1 DEF Checking, Further, Checks
  <2>4. CASE Write(c)
    <3>1. chk'[c] = Further(c) /\ chk[c].at = "write"
      BY <1>7, <2>4 DEF Write
    <3>2. Scored' = Scored \cup {chk[c].id}
      BY <2>4, WriteScores
    <3>. QED
      BY <1>1, <1>2, <1>4, <3>1, <3>2 DEF Checking, Due, Further, Checks
  <2>5. CASE WriteFails(c)
    <3>1. chk'[c] = [Further(c) EXCEPT !.clean = FALSE]
      BY <1>7, <2>5 DEF WriteFails
    <3>. QED
      BY <1>1, <1>2, <1>4, <3>1 DEF Checking, Further, Checks
  <2>6. CASE Return(c)
    <3>1. chk'[c] = [chk[c] EXCEPT !.at = "done"] /\ chk[c].at = "next" /\ chk[c].todo = {}
      BY <1>7, <2>6 DEF Return
    <3>. QED
      BY <1>1, <1>2, <1>3, <1>4, <3>1 DEF Checking, Due, Checks
  <2>7. CASE Killed(c)
    <3>1. chk'[c] = NoCheck
      BY <1>7, <2>7 DEF Killed
    <3>. QED
      BY <3>1 DEF Checking, NoCheck
  <2>. QED
    BY <2>1, <2>2, <2>3, <2>4, <2>5, <2>6, <2>7 DEF CheckStep
<1>. QED
  BY <1>3, <1>6, <1>8 DEF Graded

LEMMA GradedNext ==
  ASSUME Typed, InScan, Unused, Graded, [Next]_vars
  PROVE  Graded'
<1>1. CASE UNCHANGED <<evals, chk>>
  BY <1>1, GradedAside
<1>2. CASE \E c \in Checkers : CheckStep(c)
  BY <1>2, GradedCheck
<1>. QED
  BY <1>1, <1>2, Split DEF vars, db, ScanStep, Begin, PassOver, Pick, Price, Unpriced, PriceFails,
     Buy, Reject, Book, BookFails, End, Settling, Resolve

LEMMA GradedAlways == Spec => []Graded
<1>1. Init => Graded
  BY DEF Init, Graded, Scores, Scored, NoEval, Checking, NoCheck
<1>. QED
  BY <1>1, TypedAlways, UnusedAlways, GradedNext, PTL DEF Spec

\* ScoreIsFinal of SportsbookPaper.tla, for every value of the constants: however
\* many checks overlap, are killed or fail, no score is ever changed.
THEOREM ScoredForGood == Spec => ScoreIsFinal
<1>1. ASSUME Typed, InScan, Unused, Graded, [Next]_vars
      PROVE  [\A i \in Scored : evals'[i] = evals[i]]_vars
  <2>1. ASSUME NEW c \in Checkers, Write(c)
        PROVE  \A i \in Scored : evals'[i] = evals[i]
    BY <1>1, <2>1, WriteScores DEF Graded, Scores, Scored, Typed
  <2>2. CASE \A c \in Checkers : ~Write(c)
    <3>1. UNCHANGED evals
      BY <1>1, <2>2, Split DEF vars, db, ScanStep, Begin, PassOver, Pick, Price, Unpriced,
         PriceFails, Buy, Reject, Book, BookFails, End, Settling, Resolve, CheckStep, List, Ask,
         AskFails, WriteFails, Return, Killed
    <3>. QED
      BY <3>1
  <2>. QED
    BY <2>1, <2>2
<1>. QED
  BY <1>1, TypedAlways, UnusedAlways, GradedAlways, PTL DEF Spec, ScoreIsFinal

\* CheckIsComplete of SportsbookPaper.tla, for every value of the constants: a check
\* that returns and lost no call has scored every bet that was due when it began.
THEOREM ChecksAreComplete == Spec => []CheckIsComplete
<1>1. Graded => CheckIsComplete
  BY DEF Graded, Checking, Due, CheckIsComplete
<1>. QED
  BY <1>1, GradedAlways, PTL

-----------------------------------------------------------------------------
(* One bet per event *)

LEMMA WholeScores ==
  ASSUME NEW a, NEW b, IsFiniteSet(a), IsFiniteSet(b)
  PROVE  Similarity(a, b) \in Int
<1>1. CASE a = {} \/ b = {}
  BY <1>1 DEF Similarity
<1>2. CASE a # {} /\ b # {}
  <2>1. IsFiniteSet(a \cup b) /\ IsFiniteSet(a \cap b) /\ a \cup b # {}
    BY <1>2, FS_Union, FS_Intersection
  <2>2. Cardinality(a \cap b) \in Nat /\ Cardinality(a \cup b) \in Nat /\ Cardinality(a \cup b) # 0
    BY <2>1, FS_CardinalityType, FS_EmptySet
  <2>3. (100 * Cardinality(a \cap b)) \div Cardinality(a \cup b) \in Int
    <3>. DEFINE x == 100 * Cardinality(a \cap b)
                y == Cardinality(a \cup b)
    <3>1. x \in Nat /\ y \in Nat /\ y > 0
      BY <2>2
    <3>. HIDE DEF x, y
    <3>2. x \div y \in Int
      BY <3>1
    <3>. QED
      BY <3>2 DEF x, y
  <2>. QED
    BY <1>2, <2>3 DEF Similarity
<1>. QED
  BY <1>1, <1>2

\* No other event comes close to the one a market is paired with, so there is one.
LEMMA OneEvent ==
  ASSUME NEW m \in Markets, NEW e \in EventFor[m], NEW f \in EventFor[m]
  PROVE  e = f
<1>1. \A g \in Games : EventScore(m, g) \in Int
  BY PaperAssumption, WholeScores DEF EventScore, HomeScore, AwayScore, Max2
<1>2. e \in Games /\ f \in Games
  BY EventsAreGames
<1>3. /\ \A g \in Timely(m) \ {e} : EventScore(m, e) - EventScore(m, g) >= AmbiguityGap
      /\ \A g \in Timely(m) \ {f} : EventScore(m, f) - EventScore(m, g) >= AmbiguityGap
      /\ e \in Timely(m) /\ f \in Timely(m)
  BY DEF EventFor
<1>. QED
  BY <1>1, <1>2, <1>3 DEF AmbiguityGap

\* What is held, and whether anything is.
Bet(m) == held[m] # [yes |-> 0, no |-> 0]

\* The rows of an event are fewer than the scans until the scan under way prices
\* it; what is held is on events seen, each by one market; and the market at hand
\* is of another event than these.
Single ==
    /\ \A e \in Games : priced[e] <= scans
    /\ scan.step # "idle" => \A e \in Games \ scan.seen : priced[e] < scans
    /\ scan.step = "price" => priced[scan.event] < scans
    /\ \A m \in Markets : Bet(m) => scan.step # "idle" /\ EventFor[m] \cap scan.seen # {}
    /\ \A m, n \in Markets : Bet(m) /\ Bet(n) /\ EventFor[m] \cap EventFor[n] # {} => m = n
    /\ scan.step \in {"price", "buy"} =>
        \A m \in Markets : Bet(m) => scan.event \notin EventFor[m]

LEMMA SingleNext ==
  ASSUME Typed, InScan, Single, [Next]_vars
  PROVE  Single'
<1>. USE EventsAreGames DEF Typed, Figures, InScan, AtMarket, Single, Bet, db, Settling, Id
<1>1. CASE \/ UNCHANGED vars \/ (\E m \in Markets : Resolve(m)) \/ (\E c \in Checkers : CheckStep(c))
  <2>1. UNCHANGED <<scan, held, scans, priced>>
    BY <1>1 DEF vars, Resolve, CheckStep, List, Ask, AskFails, Write, WriteFails, Return, Killed,
       Scanning
  <2>. QED
    BY <2>1
<1>2. CASE Begin
  <2>1. scan'.step = "pick" /\ scan'.seen = {} /\ scans' = scans + 1 /\ priced' = priced
    BY <1>2 DEF Begin, Idle
  <2>2. \A m \in Markets : ~Bet(m)'
    BY <1>2 DEF Begin, NothingHeld
  <2>. QED
    BY <2>1, <2>2
<1>3. CASE PassOver
  BY <1>3 DEF PassOver
<1>4. CASE Pick
  <2>1. PICK n \in scan.todo : \E e \in EventFor[n] \ scan.seen :
            scan' = [scan EXCEPT !.step = "price", !.todo = @ \ {n}, !.market = n,
                                 !.event = e, !.seen = @ \cup {e}]
    BY <1>4 DEF Pick
  <2>2. PICK e \in EventFor[n] \ scan.seen :
            scan' = [scan EXCEPT !.step = "price", !.todo = @ \ {n}, !.market = n,
                                 !.event = e, !.seen = @ \cup {e}]
    BY <2>1
  <2>3. /\ scan'.step = "price" /\ scan'.event = e /\ scan'.seen = scan.seen \cup {e} /\ e \in Games
        /\ scan.step = "pick" /\ UNCHANGED <<held, priced, scans>>
    BY <1>4, <2>1, <2>2 DEF Pick
  <2>4. ASSUME NEW m \in Markets, Bet(m)
        PROVE  e \notin EventFor[m]
    BY <2>2, <2>4, OneEvent
  <2>. QED
    BY <2>2, <2>3, <2>4
<1>5. CASE Price
  <2>1. /\ scan'.step = "buy" /\ scan'.event = scan.event /\ scan'.seen = scan.seen
        /\ scan.step = "price" /\ UNCHANGED <<held, scans>>
        /\ priced' = [priced EXCEPT ![scan.event] = @ + 1]
    BY <1>5 DEF Price
  <2>2. scan.event \in Games \cap scan.seen
    BY <2>1
  <2>3. \A e \in Games : /\ priced'[e] <= scans
                         /\ e # scan.event => priced'[e] = priced[e]
    BY <2>1, <2>2
  <2>. QED
    BY <2>1, <2>2, <2>3
<1>6. CASE PriceFails
  <2>1. /\ scan'.step = "pick" /\ scan'.seen = scan.seen
        /\ scan.step = "price" /\ UNCHANGED <<held, scans>>
    BY <1>6 DEF PriceFails, Skipped
  <2>2. scan.event \in Games \cap scan.seen
    BY <2>1
  <2>3. \A e \in Games : /\ priced'[e] <= scans
                         /\ e # scan.event => priced'[e] = priced[e]
    BY <1>6, <2>1, <2>2 DEF PriceFails
  <2>. QED
    BY <2>1, <2>2, <2>3
<1>7. CASE Unpriced \/ Reject \/ Book \/ BookFails
  <2>1. /\ scan'.step \in {"pick", "book"} /\ scan'.seen = scan.seen /\ scan.step # "idle"
        /\ UNCHANGED <<held, scans, priced>>
    BY <1>7 DEF Unpriced, Reject, Book, BookFails, Skipped
  <2>. QED
    BY <2>1
<1>8. CASE Buy
  <2>1. /\ scan.step = "buy" /\ scan'.step = "book" /\ scan'.seen = scan.seen
        /\ UNCHANGED <<priced, scans>>
        /\ \A m \in Markets \ {scan.market} : held'[m] = held[m]
    BY <1>8 DEF Buy
  <2>2. scan.event \in EventFor[scan.market] \cap scan.seen /\ scan.market \in Markets
    BY <2>1
  <2>3. ASSUME NEW m \in Markets \ {scan.market}, Bet(m)
        PROVE  EventFor[m] \cap EventFor[scan.market] = {}
    BY <2>1, <2>2, <2>3, OneEvent
  <2>. QED
    BY <2>1, <2>2, <2>3
<1>9. CASE End
  <2>1. scan'.step = "idle" /\ UNCHANGED <<priced, scans>>
    BY <1>9 DEF End, Idle
  <2>2. \A m \in Markets : ~Bet(m)'
    BY <1>9 DEF End, NothingHeld
  <2>. QED
    BY <2>1, <2>2
<1>. QED
  BY <1>1, <1>2, <1>3, <1>4, <1>5, <1>6, <1>7, <1>8, <1>9, Split DEF ScanStep

\* OncePerScan of SportsbookPaper.tla, for every value of the constants: a scan
\* prices an event once and holds one market of it at most, whatever fails.
THEOREM OneBetPerEvent == Spec => []OncePerScan
<1>1. Init => Single
  BY DEF Init, Single, Idle, NothingHeld, Bet
<1>2. Typed /\ Single => OncePerScan
  <2>1. SUFFICES ASSUME Typed, Single, NEW m \in Markets, NEW n \in Markets,
                        held[m].yes + held[m].no > 0, held[n].yes + held[n].no > 0,
                        EventFor[m] = EventFor[n]
                 PROVE  m = n
    BY DEF Single, OncePerScan
  <2>2. Bet(m) /\ Bet(n)
    BY <2>1 DEF Bet
  <2>. QED
    BY <2>1, <2>2 DEF Single
<1>. QED
  BY <1>1, <1>2, TypedAlways, SingleNext, PTL DEF Spec

-----------------------------------------------------------------------------
(* Sums over a finite set: a library's fold is a recursive function given by *)
(* CHOOSE; that there is one is shown by the smallest set without one.       *)

\* A set of natural numbers that is not empty has a least element.
LEMMA Smallest ==
  ASSUME NEW T \in SUBSET Nat, T # {}
  PROVE  \E m \in T : \A k \in T : m <= k
<1>. DEFINE R == {ss \in Nat \X Nat : ss[1] < ss[2]}
<1>1. IsWellFoundedOn(R, Nat)
  BY NatLessThanWellFounded DEF OpToRel
<1>. HIDE DEF R
<1>2. PICK m \in T : \A k \in T : <<k, m>> \notin R
  BY <1>1, WFMin
<1>3. \A k \in T : ~(k < m)
  BY <1>2 DEF R
<1>. QED
  BY <1>3

First(s) == CHOOSE x \in s : TRUE

\* The partial sums of f that a fold over S goes through.
Sums(f, S, it) ==
    it = [s \in SUBSET S |-> IF s = {} THEN 0 ELSE f[First(s)] + it[s \ {First(s)}]]

LEMMA FirstIs == ASSUME NEW s, s # {} PROVE First(s) \in s
  BY DEF First

\* Such partial sums exist: no size of subset is the least for which they do not.
LEMMA SumsExist ==
  ASSUME NEW S, IsFiniteSet(S), NEW f \in [S -> Int]
  PROVE  \E it \in [SUBSET S -> Int] : Sums(f, S, it)
<1>. DEFINE step(it, s) == IF s = {} THEN 0 ELSE f[First(s)] + it[s \ {First(s)}]
            To(n) == \E it \in [SUBSET S -> Int] :
                        \A s \in SUBSET S : Cardinality(s) <= n => it[s] = step(it, s)
            Bad == {n \in Nat : ~To(n)}
<1>1. \A s \in SUBSET S : /\ IsFiniteSet(s) /\ Cardinality(s) \in Nat
                          /\ Cardinality(s) <= Cardinality(S)
                          /\ Cardinality(s) = 0 <=> s = {}
  BY FS_Subset, FS_CardinalityType, FS_EmptySet
<1>2. \A s \in SUBSET S : s # {} => /\ First(s) \in s /\ s \ {First(s)} \in SUBSET S
                                   /\ Cardinality(s \ {First(s)}) = Cardinality(s) - 1
  BY <1>1, FirstIs, FS_RemoveElement
<1>3. To(0)
  <2>. DEFINE zero == [s \in SUBSET S |-> 0]
  <2>1. zero \in [SUBSET S -> Int]
    OBVIOUS
  <2>2. \A s \in SUBSET S : Cardinality(s) <= 0 => zero[s] = step(zero, s)
    BY <1>1
  <2>. HIDE DEF zero, step
  <2>. QED
    BY <2>1, <2>2
<1>4. ASSUME NEW n \in Nat, To(n) PROVE To(n + 1)
  <2>1. PICK it \in [SUBSET S -> Int] :
            \A s \in SUBSET S : Cardinality(s) <= n => it[s] = step(it, s)
    BY <1>4
  <2>. DEFINE next == [s \in SUBSET S |-> step(it, s)]
  <2>2. ASSUME NEW s \in SUBSET S PROVE step(it, s) \in Int
    BY <1>2
  <2>3. next \in [SUBSET S -> Int]
    BY <2>2
  <2>4. ASSUME NEW s \in SUBSET S, Cardinality(s) <= n + 1 PROVE next[s] = step(next, s)
    <3>1. CASE s = {}
      BY <3>1
    <3>2. CASE s # {}
      <4>. DEFINE t == s \ {First(s)}
      <4>1. t \in SUBSET S /\ Cardinality(t) <= n
        BY <1>1, <1>2, <2>4, <3>2
      <4>2. next[t] = it[t]
        BY <2>1, <4>1
      <4>. HIDE DEF t
      <4>3. next[s] = f[First(s)] + it[t]
        BY <3>2 DEF t
      <4>4. step(next, s) = f[First(s)] + next[t]
        BY <3>2 DEF t
      <4>. QED
        BY <4>2, <4>3, <4>4
    <3>. QED
      BY <3>1, <3>2
  <2>. HIDE DEF next, step
  <2>. QED
    BY <2>3, <2>4
<1>5. To(Cardinality(S))
  <2>. HIDE DEF To
  <2>1. SUFFICES ASSUME Bad # {} PROVE FALSE
    BY <1>1 DEF Bad
  <2>2. PICK m \in Bad : \A k \in Bad : m <= k
    <3>1. Bad \in SUBSET Nat
      OBVIOUS
    <3>. HIDE DEF Bad
    <3>. QED
      BY <2>1, <3>1, Smallest
  <2>3. m # 0 /\ m - 1 \in Nat /\ m - 1 \notin Bad
    BY <1>3, <2>2
  <2>4. To((m - 1) + 1)
    BY <1>4, <2>3
  <2>. QED
    BY <2>2, <2>4
<1>6. PICK it \in [SUBSET S -> Int] :
        \A s \in SUBSET S : Cardinality(s) <= Cardinality(S) => it[s] = step(it, s)
  BY <1>5
<1>7. it = [s \in SUBSET S |-> step(it, s)]
  BY <1>1, <1>6
<1>. QED
  BY <1>7 DEF Sums


\* What holds of the empty set, and of a set when it holds of the set without its first
\* element, holds of every subset of a finite set.
LEMMA SubsetInduction ==
  ASSUME NEW S, IsFiniteSet(S), NEW Good \in SUBSET SUBSET S,
         {} \in Good,
         \A s \in SUBSET S : s # {} /\ s \ {First(s)} \in Good => s \in Good
  PROVE  \A s \in SUBSET S : s \in Good
<1>. DEFINE Bad == {n \in Nat : \E s \in SUBSET S : s \notin Good /\ Cardinality(s) = n}
<1>1. SUFFICES ASSUME NEW s0 \in SUBSET S, s0 \notin Good PROVE FALSE
  OBVIOUS
<1>2. \A s \in SUBSET S : IsFiniteSet(s) /\ Cardinality(s) \in Nat
  BY FS_Subset, FS_CardinalityType
<1>3. Bad \in SUBSET Nat /\ Cardinality(s0) \in Bad
  BY <1>1, <1>2
<1>4. PICK m \in Bad : \A k \in Bad : m <= k
  <2>. HIDE DEF Bad
  <2>. QED
    BY <1>3, Smallest
<1>5. PICK s \in SUBSET S : s \notin Good /\ Cardinality(s) = m
  BY <1>4
<1>6. s # {}
  BY <1>5
<1>7. s \ {First(s)} \in SUBSET S /\ s \ {First(s)} \notin Good
  BY <1>5, <1>6
<1>8. Cardinality(s \ {First(s)}) = m - 1 /\ m - 1 \in Nat
  <2>1. First(s) \in s /\ IsFiniteSet(s)
    BY <1>2, <1>6, FirstIs
  <2>2. Cardinality(s \ {First(s)}) = Cardinality(s) - 1
    BY <2>1, FS_RemoveElement
  <2>3. Cardinality(s \ {First(s)}) \in Nat
    BY <1>2, <1>7
  <2>. QED
    BY <1>5, <2>2, <2>3
<1>9. m - 1 \in Bad
  BY <1>7, <1>8
<1>. QED
  BY <1>4, <1>8, <1>9

Partial(f, S) == CHOOSE it : Sums(f, S, it)

\* What partial sums of f are good for.
Adds(p, f, S) ==
    /\ p[{}] = 0
    /\ \A s \in SUBSET S : p[s] \in Int
    /\ \A s \in SUBSET S : s # {} =>
          /\ First(s) \in s /\ s \ {First(s)} \in SUBSET S
          /\ p[s] = f[First(s)] + p[s \ {First(s)}]

LEMMA PartialIs ==
  ASSUME NEW S, IsFiniteSet(S), NEW f \in [S -> Int]
  PROVE  Adds(Partial(f, S), f, S)
<1>. DEFINE p == Partial(f, S)
            Good == {s \in SUBSET S : p[s] \in Int}
<1>1. Sums(f, S, p)
  BY SumsExist DEF Partial
<1>. HIDE DEF p
<1>2. \A s \in SUBSET S : p[s] = IF s = {} THEN 0 ELSE f[First(s)] + p[s \ {First(s)}]
  BY <1>1 DEF Sums
<1>3. \A s \in SUBSET S : s # {} => First(s) \in s /\ s \ {First(s)} \in SUBSET S
  BY FirstIs
<1>4. {} \in Good
  <2>1. {} \in SUBSET S /\ p[{}] = 0
    BY <1>2
  <2>. QED
    BY <2>1
<1>5. ASSUME NEW s \in SUBSET S, s # {}, s \ {First(s)} \in Good PROVE s \in Good
  <2>1. f[First(s)] \in Int /\ p[s \ {First(s)}] \in Int
    BY <1>3, <1>5
  <2>2. p[s] = f[First(s)] + p[s \ {First(s)}]
    BY <1>2, <1>5
  <2>. QED
    BY <2>1, <2>2
<1>6. \A s \in SUBSET S : s \in Good
  <2>1. Good \in SUBSET SUBSET S
    OBVIOUS
  <2>. HIDE DEF Good
  <2>. QED
    BY <1>4, <1>5, <2>1, SubsetInduction
<1>7. \A s \in SUBSET S : p[s] \in Int
  BY <1>6
<1>8. p[{}] = 0
  BY <1>2
<1>9. \A s \in SUBSET S : s # {} => p[s] = f[First(s)] + p[s \ {First(s)}]
  BY <1>2
<1>. QED
  BY <1>3, <1>7, <1>8, <1>9 DEF p, Adds

LEMMA SumIsPartial ==
  ASSUME NEW S, NEW f, DOMAIN f = S
  PROVE  SumFunction(f) = Partial(f, S)[S]
  BY DEF SumFunction, SumFunctionOnSet, FoldFunctionOnSet, MapThenFoldSet, Partial, Sums, First

\* A weighted sum of numbers up to some top is at most as many times the weights.
LEMMA WeightedSum ==
  ASSUME NEW S, IsFiniteSet(S), S # {}, NEW top \in Nat,
         NEW w \in [S -> Nat \ {0}], NEW f \in [S -> Int],
         \A k \in S : 0 <= f[k] /\ f[k] <= top * w[k]
  PROVE  /\ SumFunction(w) \in Nat \ {0} /\ SumFunction(f) \in Nat
         /\ SumFunction(f) <= top * SumFunction(w)
<1>. DEFINE F == Partial(f, S)
            W == Partial(w, S)
            Good == {s \in SUBSET S : /\ 0 <= F[s] /\ F[s] <= top * W[s]
                                      /\ 0 <= W[s] /\ (s # {} => 0 < W[s])}
<1>1. Adds(F, f, S) /\ Adds(W, w, S)
  <2>1. Adds(F, f, S)
    BY PartialIs
  <2>2. Adds(W, w, S)
    <3>1. w \in [S -> Int]
      OBVIOUS
    <3>. QED
      BY <3>1, PartialIs
  <2>. QED
    BY <2>1, <2>2
<1>2. SumFunction(f) = F[S] /\ SumFunction(w) = W[S]
  BY SumIsPartial
<1>. HIDE DEF F, W
<1>3. {} \in Good
  BY <1>1 DEF Adds
<1>4. ASSUME NEW s \in SUBSET S, s # {}, s \ {First(s)} \in Good PROVE s \in Good
  <2>. DEFINE c == First(s)
              t == s \ {c}
  <2>1. c \in S /\ t \in SUBSET S /\ F[s] = f[c] + F[t] /\ W[s] = w[c] + W[t]
    BY <1>1, <1>4 DEF Adds
  <2>2. 0 <= F[t] /\ F[t] <= top * W[t] /\ 0 <= W[t]
    BY <1>4
  <2>. HIDE DEF c, t
  <2>3. /\ f[c] \in Int /\ w[c] \in Nat /\ w[c] > 0 /\ F[t] \in Int /\ W[t] \in Int
        /\ 0 <= f[c] /\ f[c] <= top * w[c]
    BY <1>1, <2>1 DEF Adds
  <2>4. top * (w[c] + W[t]) = top * w[c] + top * W[t] /\ top * w[c] \in Int /\ top * W[t] \in Int
    BY <2>3
  <2>5. 0 <= F[s] /\ F[s] <= top * W[s] /\ 0 < W[s] /\ 0 <= W[s]
    <3>1. 0 <= F[s] /\ 0 < W[s]
      BY <2>1, <2>2, <2>3
    <3>2. F[s] <= top * W[s]
      BY <2>1, <2>2, <2>3, <2>4
    <3>3. W[s] \in Int
      BY <1>1 DEF Adds
    <3>. QED
      BY <3>1, <3>2, <3>3
  <2>. QED
    BY <2>5
<1>5. \A s \in SUBSET S : s \in Good
  <2>1. Good \in SUBSET SUBSET S
    OBVIOUS
  <2>. HIDE DEF Good
  <2>. QED
    BY <1>3, <1>4, <2>1, SubsetInduction
<1>6. F[S] \in Int /\ W[S] \in Int
  BY <1>1 DEF Adds
<1>. QED
  BY <1>2, <1>5, <1>6

-----------------------------------------------------------------------------
(* What an opportunity promises                                            *)

\* A probability, in ten-thousandths.
IsProb(x) == x \in Int /\ 0 <= x /\ x <= 10000

LEMMA ImpliedIsPositive ==
  ASSUME NEW american \in Offered, american # 0
  PROVE  Implied(american) \in Nat \ {0}
<1>1. american \in Int /\ american <= 999900
  BY DEF Offered
<1>2. CASE american > 0
  <2>. DEFINE d == american + 100
  <2>1. d \in Nat /\ d > 0 /\ d <= 1000000
    BY <1>1, <1>2
  <2>. HIDE DEF d
  <2>2. 1000000 \div d \in Nat \ {0}
    BY <2>1
  <2>. QED
    BY <1>2, <2>2 DEF Implied, d
<1>3. CASE american < 0
  <2>. DEFINE n == 10000 * (-american)
              d == 100 - american
  <2>1. n \in Nat /\ d \in Nat /\ d > 0 /\ d <= n
    BY <1>1, <1>3
  <2>. HIDE DEF n, d
  <2>2. n \div d \in Nat \ {0}
    BY <2>1
  <2>. QED
    BY <1>1, <1>3, <2>2 DEF Implied, n, d
<1>. QED
  BY <1>1, <1>2, <1>3

LEMMA NoVigInRange ==
  ASSUME NEW odds \in OddsSets, NEW k \in Usable(odds)
  PROVE  IsProb(NoVig(odds[k]))
<1>. DEFINE a == Implied(odds[k].home)
            b == Implied(odds[k].away)
<1>1. a \in Nat \ {0} /\ b \in Nat \ {0}
  <2>1. k \in Books /\ odds[k].home # 0 /\ odds[k].away # 0
    BY DEF Usable
  <2>2. odds[k].home \in Offered /\ odds[k].away \in Offered
    BY <2>1, PaperAssumption
  <2>. QED
    BY <2>1, <2>2, ImpliedIsPositive
<1>. HIDE DEF a, b
<1>2. 10000 * a <= 10000 * (a + b) /\ a + b \in Nat /\ a + b > 0
  BY <1>1
<1>3. IsProb((10000 * a) \div (a + b))
  <2>. DEFINE n == 10000 * a
              d == a + b
  <2>1. n \in Nat /\ d \in Nat /\ d > 0 /\ n <= 10000 * d
    BY <1>1, <1>2
  <2>. HIDE DEF n, d
  <2>2. n \div d \in Int /\ 0 <= n \div d /\ n \div d <= 10000
    BY <2>1
  <2>. QED
    BY <2>2 DEF n, d, IsProb
<1>4. NoVig(odds[k]) = (10000 * a) \div (a + b)
  BY DEF NoVig, a, b
<1>. QED
  BY <1>3, <1>4

\* build_fair_price: the consensus of the books is a probability.
LEMMA ConsensusIsProbability ==
  ASSUME NEW odds \in OddsSets, Usable(odds) # {}
  PROVE  IsProb(HomeProb(odds))
<1>. DEFINE S == Usable(odds)
<1>0. \A k \in S : IsProb(NoVig(odds[k]))
  BY NoVigInRange
<1>. DEFINE f == [k \in S |-> Weight(k) * NoVig(odds[k])]
            w == [k \in S |-> Weight(k)]
<1>1. IsFiniteSet(S)
  <2>1. S \subseteq Books
    BY DEF Usable
  <2>. QED
    BY <2>1, PaperAssumption, FS_Subset
<1>2. ASSUME NEW k \in S
      PROVE  /\ Weight(k) \in Nat \ {0} /\ Weight(k) * NoVig(odds[k]) \in Int
             /\ 0 <= Weight(k) * NoVig(odds[k])
             /\ Weight(k) * NoVig(odds[k]) <= 10000 * Weight(k)
  <2>. DEFINE wt == Weight(k)
              nv == NoVig(odds[k])
  <2>1. nv \in Int /\ 0 <= nv /\ nv <= 10000
    BY <1>0 DEF IsProb
  <2>2. wt \in {1, 3}
    BY DEF Weight
  <2>. HIDE DEF wt, nv
  <2>3. wt \in Nat \ {0} /\ wt * nv \in Int /\ 0 <= wt * nv /\ wt * nv <= 10000 * wt
    BY <2>1, <2>2
  <2>. QED
    BY <2>3 DEF wt, nv
<1>3. /\ w \in [S -> Nat \ {0}] /\ f \in [S -> Int]
      /\ \A k \in S : 0 <= f[k] /\ f[k] <= 10000 * w[k]
  BY <1>2
<1>. HIDE DEF f, w
<1>4. /\ SumFunction(w) \in Nat \ {0} /\ SumFunction(f) \in Nat
      /\ SumFunction(f) <= 10000 * SumFunction(w)
  BY <1>1, <1>3, WeightedSum
<1>5. IsProb(HomeProb(odds))
  <2>. DEFINE n == SumFunction(f)
              d == SumFunction(w)
  <2>1. n \in Nat /\ d \in Nat /\ d > 0 /\ n <= 10000 * d
    BY <1>4
  <2>. HIDE DEF n, d
  <2>2. n \div d \in Int /\ 0 <= n \div d /\ n \div d <= 10000
    BY <2>1
  <2>3. HomeProb(odds) = n \div d
    BY DEF HomeProb, n, d, f, w
  <2>. QED
    BY <2>2, <2>3 DEF IsProb
<1>. QED
  BY <1>5

\* An opportunity to buy: its price is the one asked on its side, and its edge at that price,
\* above the fee, is at least what is required.
Sound(opp) ==
    /\ opp.side \in Outcomes
    /\ opp.price = (IF opp.side = "yes" THEN opp.quote.ask ELSE 100 - opp.quote.bid)
    /\ opp.price \in 1..99 /\ opp.most \in Nat /\ opp.fair \in Int
    /\ opp.net \in Int /\ opp.net >= MinNetEdge
    /\ 100 * opp.fair - 10000 * opp.price >= opp.net + Fee(opp.price)

LEMMA BuffersTake ==
  ASSUME NEW depth \in Int, depth = Unknown \/ depth >= 0
  PROVE  LiquidityBuffer(depth) \in Nat
<1>1. CASE depth = Unknown \/ depth = 0
  BY <1>1 DEF LiquidityBuffer, Unknown
<1>2. CASE depth > 0
  <2>1. 1000000 \div depth \in Nat
    BY <1>2
  <2>. QED
    BY <1>2, <2>1 DEF LiquidityBuffer, Min2, Unknown
<1>. QED
  BY <1>1, <1>2 DEF Unknown

\* MaxContracts: something can be bought only at a price, and within the depth that is known.
LEMMA MostIs ==
  ASSUME NEW price \in 0..100, NEW depth \in Int, MaxContracts(price, depth) > 0
  PROVE  /\ MaxContracts(price, depth) \in Nat /\ price > 0
         /\ depth = Unknown \/ depth >= 0
<1>1. MaxPosition \in Nat
  BY PaperAssumption
<1>2. CASE price = 0
  BY <1>2 DEF MaxContracts, Min2, Unknown
<1>3. CASE price > 0
  <2>1. MaxPosition \div price \in Nat
    BY <1>1, <1>3
  <2>. QED
    BY <1>3, <2>1 DEF MaxContracts, Min2, Unknown
<1>. QED
  BY <1>2, <1>3

LEMMA BuyIsSound ==
  ASSUME NEW m, NEW e, NEW odds \in OddsSets, NEW quote \in Quotes, Usable(odds) # {},
         Opportunity(m, e, odds, quote).buy
  PROVE  Sound(Opportunity(m, e, odds, quote))
<1>. DEFINE outcome == YesOutcome(m, e)
            fairYes == IF outcome = "home" THEN HomeProb(odds) ELSE 10000 - HomeProb(odds)
            yesEdge == 100 * fairYes - 10000 * quote.ask
            noEdge == 100 * (10000 - fairYes) - 10000 * NoPrice(quote)
            side == IF outcome = "unknown" \/ yesEdge >= noEdge THEN "yes" ELSE "no"
            price == IF side = "yes" THEN quote.ask ELSE NoPrice(quote)
            depth == IF side = "yes" THEN quote.yes ELSE quote.no
            net == IF outcome = "unknown" THEN 0
                   ELSE Max2(yesEdge, noEdge) - Fee(price) - LiquidityBuffer(depth) - StaleBuffer
            most == IF outcome = "unknown" THEN 0 ELSE MaxContracts(price, depth)
            fair == IF side = "yes" THEN fairYes ELSE 10000 - fairYes
            opp == [side |-> side, buy |-> TRUE, price |-> price, net |-> net, most |-> most,
                    fair |-> fair, quote |-> quote]
<1>1. /\ Opportunity(m, e, odds, quote) = opp
      /\ ~Flagged(m, e) /\ net >= MinNetEdge /\ most > 0
  BY DEF Opportunity, NoOpp
<1>2. outcome # "unknown"
  BY <1>1 DEF Flagged
<1>3. fairYes \in Int /\ 0 <= fairYes /\ fairYes <= 10000
  <2>1. HomeProb(odds) \in Int /\ 0 <= HomeProb(odds) /\ HomeProb(odds) <= 10000
    BY ConsensusIsProbability DEF IsProb
  <2>. HIDE DEF outcome
  <2>. QED
    BY <2>1
<1>. HIDE DEF outcome, fairYes
<1>4. /\ quote.ask \in 0..100 /\ quote.bid \in 0..100 /\ NoPrice(quote) \in 0..100
      /\ quote.yes \in Int /\ quote.no \in Int
  BY PaperAssumption DEF NoPrice
<1>5. yesEdge \in Int /\ noEdge \in Int /\ price \in 0..100 /\ depth \in Int /\ fair \in Int
  BY <1>3, <1>4
<1>. HIDE DEF yesEdge, noEdge, price, depth
<1>51. fair <= 10000
  BY <1>3
<1>. USE DEF yesEdge, noEdge, price, depth
<1>6. Max2(yesEdge, noEdge) = 100 * fair - 10000 * price
  BY <1>2, <1>3, <1>4 DEF Max2
<1>. HIDE DEF yesEdge, noEdge
<1>7. side \in Outcomes /\ price = (IF side = "yes" THEN quote.ask ELSE 100 - quote.bid)
  BY DEF Outcomes, NoPrice
<1>. HIDE DEF side, price, depth, fair
<1>8. most = MaxContracts(price, depth)
  BY <1>2
<1>9. most \in Nat /\ price > 0 /\ LiquidityBuffer(depth) \in Nat
  <2>. HIDE DEF most
  <2>1. MaxContracts(price, depth) > 0
    BY <1>1, <1>8
  <2>2. MaxContracts(price, depth) \in Nat /\ price > 0 /\ (depth = Unknown \/ depth >= 0)
    BY <1>5, <2>1, MostIs
  <2>. QED
    BY <1>5, <1>8, <2>2, BuffersTake
<1>10. Fee(price) \in Nat
  <2>1. price \in Nat /\ 100 - price \in Nat
    BY <1>5
  <2>2. 7 * price * (100 - price) \in Nat
    BY <2>1
  <2>. QED
    BY <2>2 DEF Fee
<1>11. net = 100 * fair - 10000 * price - Fee(price) - LiquidityBuffer(depth) - 10000
  BY <1>2, <1>6 DEF StaleBuffer
<1>. HIDE DEF net, most
<1>12. net \in Int /\ net >= 30000 /\ 100 * fair - 10000 * price >= net + Fee(price)
  BY <1>1, <1>5, <1>9, <1>10, <1>11 DEF MinNetEdge
<1>13. price \in 1..99
  <2>1. price \in 1..100 /\ fair \in Int /\ fair <= 10000
    BY <1>5, <1>51, <1>9
  <2>2. 100 * fair - 10000 * price > 0
    BY <1>10, <1>12, <2>1
  <2>. QED
    BY <2>1, <2>2
<1>14. /\ opp.side = side /\ opp.price = price /\ opp.net = net /\ opp.most = most
       /\ opp.fair = fair /\ opp.quote = quote
  OBVIOUS
<1>. HIDE DEF opp
<1>15. Sound(opp)
  BY <1>5, <1>7, <1>9, <1>12, <1>13, <1>14 DEF Sound, MinNetEdge
<1>. QED
  BY <1>1, <1>15

\* PaperPortfolio.buy: a fill is of some contracts, paid within the cash.
LEMMA FillIs ==
  ASSUME NEW opp, Sound(opp), NEW cash \in Nat, Fills(opp, cash)
  PROVE  /\ Count(opp, cash) \in Nat \ {0}
         /\ Cost(opp, cash) = Count(opp, cash) * opp.price
         /\ cash - Cost(opp, cash) \in Nat
<1>. DEFINE a == Min2(opp.net, 10000 * (100 - opp.price)) * cash
            b == 40000 * (100 - opp.price) * opp.price
<1>1. a \in Int /\ b \in Nat /\ b > 0
  <2>1. opp.net \in Int /\ opp.price \in Nat /\ opp.price > 0 /\ 100 - opp.price \in Nat
        /\ 100 - opp.price > 0
    BY DEF Sound
  <2>2. Min2(opp.net, 10000 * (100 - opp.price)) \in Int
    BY <2>1 DEF Min2
  <2>3. (100 - opp.price) * opp.price \in Nat /\ (100 - opp.price) * opp.price > 0
    BY <2>1
  <2>4. b = 40000 * ((100 - opp.price) * opp.price)
    BY <2>1
  <2>. QED
    BY <2>2, <2>3, <2>4
<1>. HIDE DEF a, b
<1>2. a \div b \in Int
  BY <1>1
<1>3. QuarterKelly(opp, cash) \in Int
  BY <1>2 DEF QuarterKelly, a, b
<1>4. Count(opp, cash) \in Nat \ {0} /\ Cost(opp, cash) <= cash
  BY <1>3 DEF Fills, Count, Min2, Sound
<1>5. Cost(opp, cash) \in Int
  BY <1>4 DEF Cost, Sound
<1>. QED
  BY <1>4, <1>5 DEF Cost

-----------------------------------------------------------------------------
(* What is bought and booked                                               *)

\* The row of a bet tells what was paid for it, on a sound opportunity.
Honest(i) ==
    /\ Sound(opps[i])
    /\ orders[i].side = opps[i].side /\ orders[i].price = opps[i].price
    /\ orders[i].count \in Nat \ {0}
    /\ paid[i] = orders[i].count * orders[i].price

\* The scan at a market has its opportunity in hand, and a fill has been paid for.
InHand ==
    /\ scan.cash \in Nat /\ scan.count \in Nat
    /\ scan.step # "book" => scan.count = 0
    /\ scan.step \in {"buy", "book"} => opps[Id] = scan.opp /\ (scan.opp.buy => Sound(scan.opp))
    /\ scan.count > 0 => scan.opp.buy /\ paid[Id] = scan.count * scan.opp.price

Told == paid = [i \in Ids |-> paid[i]] /\ InHand /\ \A i \in Filled : Honest(i)

LEMMA IdIsOne ==
  ASSUME Typed, InScan, scan.step \in AtMarket
  PROVE  Id \in Ids
<1>1. scans \in 1..MaxScans /\ scan.market \in Markets
  BY PaperAssumption DEF Typed, InScan, AtMarket
<1>. QED
  BY <1>1 DEF Id, Ids

\* Rows and payments of bets recorded are not touched.
LEMMA HonestStays ==
  ASSUME Typed, InScan, Unused, Told, [Next]_vars
  PROVE  /\ paid' = [i \in Ids |-> paid'[i]]
         /\ \A i \in Filled : Honest(i)'
<1>1. \/ UNCHANGED paid
      \/ /\ scan.step \in AtMarket
         /\ paid' = [paid EXCEPT ![Id] = Cost(scan.opp, scan.cash)]
  <2>1. CASE Buy
    BY <2>1 DEF Buy, AtMarket
  <2>2. CASE ~Buy
    BY <2>2, Split DEF vars, ScanStep, Begin, PassOver, Pick, Price, Unpriced, PriceFails, Reject,
       Book, BookFails, End, Resolve, CheckStep, List, Ask, AskFails, Write, WriteFails, Return,
       Killed, Scanning
  <2>. QED
    BY <2>1, <2>2
<1>2. paid' = [i \in Ids |-> paid'[i]]
  BY <1>1 DEF Told
<1>3. ASSUME NEW i \in Filled PROVE Honest(i)'
  <2>1. i \in Ids /\ orders'[i] = orders[i] /\ opps'[i] = opps[i]
    BY BetsStay DEF Filled
  <2>2. paid'[i] = paid[i]
    <3>1. scan.step \in AtMarket => i # Id
      BY DEF Unused, Filled
    <3>. QED
      BY <1>1, <2>1, <3>1 DEF Told
  <2>. QED
    BY <2>1, <2>2 DEF Told, Honest
<1>. QED
  BY <1>2, <1>3

LEMMA InHandNext ==
  ASSUME Typed, InScan, Told, [Next]_vars
  PROVE  InHand'
<1>. USE DEF Typed, Figures, Told, InHand, AtMarket
<1>1. CASE \/ UNCHANGED vars \/ (\E m \in Markets : Resolve(m)) \/ (\E c \in Checkers : CheckStep(c))
  <2>1. UNCHANGED <<scan, scans, opps, paid>>
    BY <1>1 DEF vars, db, Resolve, CheckStep, List, Ask, AskFails, Write, WriteFails, Return,
       Killed, Scanning
  <2>. QED
    BY <2>1 DEF Id
<1>2. CASE Begin
  BY <1>2, PaperAssumption DEF Begin, Idle
<1>3. CASE PassOver
  BY <1>3 DEF PassOver
<1>4. CASE Pick
  BY <1>4 DEF Pick
<1>5. CASE Price
  <2>1. PICK odds \in OddsSets, quote \in Quotes :
            /\ Usable(odds) # {}
            /\ scan' = [scan EXCEPT !.step = "buy",
                                    !.opp = Opportunity(scan.market, scan.event, odds, quote)]
            /\ opps' = [opps EXCEPT ![Id] = Opportunity(scan.market, scan.event, odds, quote)]
    BY <1>5 DEF Price
  <2>. DEFINE opp == Opportunity(scan.market, scan.event, odds, quote)
  <2>2. opp.buy => Sound(opp)
    BY <2>1, BuyIsSound
  <2>. HIDE DEF opp
  <2>3. /\ scan'.step = "buy" /\ scan'.opp = opp /\ scan'.count = scan.count
        /\ scan'.cash = scan.cash /\ scan.step = "price" /\ Id' = Id
    BY <1>5, <2>1 DEF Price, opp, Id
  <2>4. opps'[Id] = opp
    BY <2>1, <2>3, IdIsOne DEF opp
  <2>. QED
    BY <2>2, <2>3, <2>4
<1>6. CASE Unpriced \/ PriceFails \/ Book \/ BookFails
  <2>1. scan' = Skipped
    BY <1>6 DEF Unpriced, PriceFails, Book, BookFails
  <2>2. scan'.step = "pick" /\ scan'.count = 0 /\ scan'.cash = scan.cash
    BY <2>1 DEF Skipped
  <2>. QED
    BY <2>2
<1>7. CASE Buy
  <2>1. /\ scan.step = "buy" /\ Fills(scan.opp, scan.cash) /\ scan'.step = "book"
        /\ scan'.count = Count(scan.opp, scan.cash) /\ scan'.opp = scan.opp
        /\ scan'.cash = scan.cash - Cost(scan.opp, scan.cash)
        /\ Id' = Id /\ opps' = opps
        /\ paid' = [paid EXCEPT ![Id] = Cost(scan.opp, scan.cash)]
    BY <1>7 DEF Buy, Id
  <2>2. scan.opp.buy /\ Sound(scan.opp) /\ opps[Id] = scan.opp
    BY <2>1 DEF Fills
  <2>3. paid'[Id] = Cost(scan.opp, scan.cash)
    BY <2>1, IdIsOne
  <2>4. /\ Count(scan.opp, scan.cash) \in Nat
        /\ Cost(scan.opp, scan.cash) = Count(scan.opp, scan.cash) * scan.opp.price
        /\ scan.cash - Cost(scan.opp, scan.cash) \in Nat
    BY <2>1, <2>2, FillIs
  <2>. QED
    BY <2>1, <2>2, <2>3, <2>4
<1>8. CASE Reject
  BY <1>8 DEF Reject, Id
<1>9. CASE End
  BY <1>9 DEF End, Idle
<1>. QED
  BY <1>1, <1>2, <1>3, <1>4, <1>5, <1>6, <1>7, <1>8, <1>9, Split DEF ScanStep

LEMMA ToldNext ==
  ASSUME Typed, InScan, Unused, Told, [Next]_vars
  PROVE  Told'
<1>1. ASSUME NEW i \in Filled', i \notin Filled PROVE Honest(i)'
  <2>1. i \in Ids /\ orders'[i].status = "filled" /\ orders[i].status # "filled"
    BY <1>1 DEF Filled
  <2>2. scan.step = "book" /\ i = Id /\ Book
    <3>1. CASE Book
      BY <2>1, <3>1 DEF Book, Typed
    <3>2. CASE ~Book
      <4>1. UNCHANGED orders
        BY <3>2, Split DEF vars, db, ScanStep, Begin, PassOver, Pick, Price, Unpriced, PriceFails,
           Buy, Reject, BookFails, End, Resolve, CheckStep, List, Ask, AskFails, Write, WriteFails,
           Return, Killed, Scanning
      <4>. QED
        BY <2>1, <4>1
    <3>. QED
      BY <3>1, <3>2
  <2>3. orders'[i] = IF scan.count = 0 THEN Rejected
                     ELSE [status |-> "filled", side |-> scan.opp.side,
                           count |-> scan.count, price |-> scan.opp.price]
    BY <2>1, <2>2 DEF Book, Typed
  <2>4. scan.count \in Nat \ {0}
    BY <2>1, <2>3 DEF Told, InHand, Rejected
  <2>5. opps'[i] = scan.opp /\ Sound(scan.opp) /\ paid'[i] = scan.count * scan.opp.price
    BY <2>2, <2>4 DEF Told, InHand, Book
  <2>. QED
    BY <2>3, <2>4, <2>5 DEF Honest
<1>. QED
  BY <1>1, HonestStays, InHandNext DEF Told

LEMMA ToldAlways == Spec => []Told
<1>1. Init => Told
  BY PaperAssumption DEF Init, Told, InHand, Idle, Filled, NoOrder
<1>. QED
  BY <1>1, TypedAlways, UnusedAlways, ToldNext, PTL DEF Spec

\* The exact fee, rounded up to a cent, of an order whose edge is above the fee by more
\* than a cent.
LEMMA FeeIsCovered ==
  ASSUME NEW n \in Nat \ {0}, NEW fee \in Nat, NEW edge \in Int, edge >= fee + 30000
  PROVE  n * edge > 10000 * ((n * fee + 9999) \div 10000)
<1>1. n * fee \in Nat /\ n * edge \in Int /\ n * (fee + 30000) = n * fee + n * 30000
  OBVIOUS
<1>2. n * edge >= n * (fee + 30000)
  OBVIOUS
<1>3. n * edge >= n * fee + 30000
  BY <1>1, <1>2
<1>. DEFINE x == n * fee + 9999
<1>4. x \in Nat /\ n * edge > x
  BY <1>1, <1>3
<1>. HIDE DEF x
<1>5. 10000 * (x \div 10000) <= x /\ x \div 10000 \in Int
  BY <1>4
<1>. QED
  BY <1>1, <1>4, <1>5 DEF x

\* BuysAreWorthIt of SportsbookPaper.tla, for every value of the constants: what is bought
\* is worth more than it costs, at the price asked and after the rounded fee.
THEOREM BuysPay == Spec => []BuysAreWorthIt
<1>1. Told => BuysAreWorthIt
  <2>. SUFFICES ASSUME Told, NEW i \in Filled
                PROVE  LET o == orders[i]
                           q == opps[i].quote
                           ask == IF o.side = "yes" THEN q.ask ELSE 100 - q.bid
                       IN  o.count * (100 * opps[i].fair - 10000 * ask)
                              > 10000 * ExactFee(o.count, ask)
    BY DEF BuysAreWorthIt
  <2>. DEFINE n == orders[i].count
              p == opps[i].price
              edge == 100 * opps[i].fair - 10000 * p
  <2>1. Honest(i) /\ Sound(opps[i])
    BY DEF Told, Honest
  <2>2. n \in Nat \ {0} /\ p \in 1..99 /\ opps[i].fair \in Int /\ opps[i].net \in Int
        /\ opps[i].net >= 30000 /\ edge >= opps[i].net + Fee(p)
        /\ p = (IF orders[i].side = "yes" THEN opps[i].quote.ask ELSE 100 - opps[i].quote.bid)
    BY <2>1 DEF Honest, Sound, MinNetEdge
  <2>3. Fee(p) \in Nat
    <3>1. p \in Nat /\ 100 - p \in Nat
      BY <2>2
    <3>. HIDE DEF p
    <3>2. 7 * p * (100 - p) \in Nat
      BY <3>1
    <3>. QED
      BY <3>2 DEF Fee
  <2>4. edge \in Int /\ edge >= Fee(p) + 30000
    <3>. DEFINE fee == Fee(p)
                net == opps[i].net
    <3>1. edge \in Int
      BY <2>2
    <3>2. fee \in Nat /\ net \in Int /\ net >= 30000 /\ edge >= net + fee
      BY <2>2, <2>3
    <3>. HIDE DEF fee, net, edge
    <3>3. edge >= fee + 30000
      BY <3>1, <3>2
    <3>. QED
      BY <3>1, <3>3 DEF fee
  <2>. HIDE DEF n, p, edge
  <2>5. n * edge > 10000 * ((n * Fee(p) + 9999) \div 10000)
    BY <2>2, <2>3, <2>4, FeeIsCovered
  <2>. QED
    BY <2>2, <2>5 DEF ExactFee, n, p, edge
<1>. QED
  BY <1>1, ToldAlways, PTL

\* PnlIsOfTheFill of SportsbookPaper.tla, for every value of the constants: a bet is scored
\* by its market's result, with what it pays less what left the portfolio for it and its fee.
THEOREM ScoresAreOfFills == Spec => []PnlIsOfTheFill
<1>1. Graded /\ Told => PnlIsOfTheFill
  <2>. SUFFICES ASSUME Graded, Told, NEW i \in Scored
                PROVE  /\ evals[i].side = result[Market(i)]
                       /\ evals[i].pnl =
                            (IF orders[i].side = evals[i].side THEN 100 * orders[i].count ELSE 0)
                              - paid[i] - ExactFee(orders[i].count, orders[i].price)
    BY DEF PnlIsOfTheFill
  <2>. DEFINE n == orders[i].count
              p == opps[i].price
              won == result[Market(i)]
              fee == ExactFee(n, p)
  <2>1. evals[i] = Score(i) /\ Honest(i) /\ Sound(opps[i])
    BY DEF Graded, Scores, Told, Honest
  <2>2. /\ n \in Nat /\ p \in Nat /\ orders[i].price = p /\ paid[i] = n * p
    BY <2>1 DEF Honest, Sound
  <2>3. evals[i].side = won /\ evals[i].pnl = Pnl(i, won)
    BY <2>1 DEF Score
  <2>4. Pnl(i, won) = n * ((IF orders[i].side = won THEN 100 ELSE 0) - p) - fee
    BY DEF Pnl
  <2>. HIDE DEF n, p, won, fee
  <2>5. n * (100 - p) = 100 * n - n * p /\ n * (0 - p) = 0 - n * p
    BY <2>2
  <2>6. Pnl(i, won) = (IF orders[i].side = won THEN 100 * n ELSE 0) - n * p - fee
    BY <2>2, <2>4, <2>5
  <2>. QED
    BY <2>2, <2>3, <2>6 DEF n, p, won, fee
<1>. QED
  BY <1>1, GradedAlways, ToldAlways, PTL
=============================================================================
