--------------------------- MODULE ResearchDataset ---------------------------
(***************************************************************************)
(* The dataset of settled games (src/misprice_discovery,                   *)
(* build_multisport_research_dataset.py, with what it takes from           *)
(* build_nba_research_dataset.py).  A run lists each sport's settled       *)
(* markets at Kalshi's two endpoints, joins their events with the sport's  *)
(* schedule, prices the favourite from the candles before the game, and    *)
(* appends the rows to one CSV file.  Runs are started by hand: they may   *)
(* overlap, fail in part and be killed.                                    *)
(*                                                                         *)
(* Times are in minutes.  An event of Kalshi and the game it is about have *)
(* the same name here; that the code finds the one for the other is what   *)
(* is modelled.                                                            *)
(***************************************************************************)
EXTENDS Integers, FiniteSets

CONSTANTS
    Sports, Events, Markets,
    SportOf, Matchup,   \* an event: its sport, its teams
    Day, Clock,         \*   the day and the time of day in its ticker (local)
    UtcDay, Start,      \*   the day the schedule files it under, and its start
    EventOf, Wins,      \* a market's event, and the markets that resolve yes
    Candles,            \* a market: minute -> YES ask at its end, in cents
    OldMarkets,         \* markets that are settled from the beginning
    MaxRuns,            \* bound: runs
    MaxMoves,           \* bound: changes at Kalshi
    MaxFaults           \* bound: calls that fail and runs that are killed

Twins == [e \in Events |->
    {f \in Events : SportOf[f] = SportOf[e] /\ Day[f] = Day[e] /\ Matchup[f] = Matchup[e]}]

MarketsOf == [e \in Events |-> {m \in Markets : EventOf[m] = e}]

\* An event has a market for each team.  A schedule's calendar is a day ahead or behind at
\* most, and the games of a doubleheader are in the order of their tickers' times.
ASSUME DatasetAssumption ==
    /\ IsFiniteSet(Events)
    /\ SportOf \in [Events -> Sports] /\ EventOf \in [Markets -> Events]
    /\ \A e \in Events : \E a, b \in Markets : a # b /\ MarketsOf[e] = {a, b}
    /\ \A m \in Markets : DOMAIN Candles[m] \subseteq Int
    /\ {Day, Clock, UtcDay, Start} \subseteq [Events -> Int]
    /\ \A e \in Events : UtcDay[e] \in (Day[e] - 1)..(Day[e] + 1)
    /\ \A e \in Events, f \in Events : f \in Twins[e] \ {e} =>
        Clock[e] # Clock[f] /\ (Clock[e] < Clock[f] <=> Start[e] < Start[f])
    /\ Wins \cup OldMarkets \subseteq Markets
    /\ {MaxRuns, MaxMoves, MaxFaults} \subseteq Nat

VARIABLES
    place,      \* Kalshi: where a market is listed
    file,       \* the CSV file: whether it has a header, its rows, its last line
    run,        \* the runs
    moves,
    faults,
    clash       \* history: two runs have been in append_rows at once

vars == <<place, file, run, moves, faults, clash>>

Runs == 1..MaxRuns
Endpoints == {"live", "historical"}

Fault == /\ faults < MaxFaults
         /\ faults' = faults + 1

-----------------------------------------------------------------------------
(* Kalshi.                                                                 *)

Settle(m) ==
    /\ place[m] = "open"
    /\ moves < MaxMoves /\ moves' = moves + 1
    /\ place' = [place EXCEPT ![m] = "live"]
    /\ UNCHANGED <<file, run, faults, clash>>

\* A settled market moves to the historical endpoint; a run that reads one endpoint
\* before and the other after may miss it or see it twice.
Archive(m) ==
    /\ place[m] = "live"
    /\ moves < MaxMoves /\ moves' = moves + 1
    /\ place' = [place EXCEPT ![m] = "historical"]
    /\ run' = [r \in Runs |-> [run[r] EXCEPT !.due = @ \ Twins[EventOf[m]]]]
    /\ UNCHANGED <<file, faults, clash>>

-----------------------------------------------------------------------------
(* What a row says (summarize_market_window, process_event).               *)

Lookback == 15

Quoted(price) == 1 < price /\ price < 99

Starts == {Start[e] : e \in Events}

\* The minutes of the window before a start with a usable ask.
Window == [m \in Markets |-> [start \in Starts |->
    {t \in DOMAIN Candles[m] : start - Lookback <= t /\ t < start /\ Quoted(Candles[m][t])}]]

\* round(): halves to the even neighbour.
Rounded(sum, n) ==
    LET q == sum \div n
        half == 2 * (sum % n)
    IN  IF half > n \/ (half = n /\ q % 2 = 1) THEN q + 1 ELSE q

\* The asks of the window, cent by cent: as many as their sum.
Cents(m, start) == {tc \in Window[m][start] \X (1..98) : tc[2] <= Candles[m][tc[1]]}

AverageAsk == [m \in Markets |-> [start \in Starts |->
    IF Window[m][start] = {} THEN 0
    ELSE Rounded(Cardinality(Cents(m, start)), Cardinality(Window[m][start]))]]

Priced(pair, start) == \A m \in pair : Window[m][start] # {}

\* Either market when their asks are equal.
Favourites(pair, start) ==
    {m \in pair : \A n \in pair : AverageAsk[m][start] >= AverageAsk[n][start]}

Pnl(m, entry) == IF m \in Wins THEN 100 - entry ELSE -entry

-----------------------------------------------------------------------------
(* One sport of a run (build_dataset_for_sport).                           *)

NotBegun == [step |-> "list", asked |-> {}, seen |-> {}, games |-> {}]
NoRun == [at |-> "off", known |-> {}, got |-> {}, made |-> FALSE, fresh |-> {},
          due |-> {}, part |-> [s \in Sports |-> NotBegun]]

Init ==
    /\ place = [m \in Markets |-> IF m \in OldMarkets THEN "live" ELSE "open"]
    /\ file = [head |-> "none", rows |-> {}, tail |-> "whole"]
    /\ run = [r \in Runs |-> NoRun]
    /\ moves = 0 /\ faults = 0 /\ clash = FALSE

Keys == {row.event : row \in file.rows}
Settled(e) == \A m \in MarketsOf[e] : place[m] # "open"

\* load_existing_keys.  History: what the run has to find as long as nothing fails.
Begin(r) ==
    /\ run[r].at = "off" /\ \A q \in 1..(r - 1) : run[q].at # "off"
    /\ run' = [run EXCEPT ![r] = [NoRun EXCEPT !.at = "build", !.known = Keys,
                !.due = {e \in Events : \A f \in Twins[e] :
                            Settled(f) /\ f \notin Keys /\ Priced(MarketsOf[f], Start[f])}]]
    /\ UNCHANGED <<place, file, moves, faults, clash>>

Part(r, s) == run[r].part[s]
Working(r, s, step) == run[r].at = "build" /\ Part(r, s).step = step
Becomes(r, s, p, clean) ==
    run' = [run EXCEPT ![r].part[s] = p, ![r].due = IF clean THEN @ ELSE {}]

Listing(s, src) == {<<src, m>> : m \in {n \in Markets : SportOf[EventOf[n]] = s /\ place[n] = src}}

\* All pages of one endpoint, or those before the page that failed.
List(r, s, src) ==
    /\ Working(r, s, "list") /\ src \notin Part(r, s).asked
    /\ \/ /\ Becomes(r, s, [Part(r, s) EXCEPT !.asked = @ \cup {src}, !.seen = @ \cup Listing(s, src)], TRUE)
          /\ UNCHANGED faults
       \/ /\ Fault
          /\ \E got \in SUBSET Listing(s, src) :
                Becomes(r, s, [Part(r, s) EXCEPT !.asked = @ \cup {src}, !.seen = @ \cup got], FALSE)
    /\ UNCHANGED <<place, file, moves, clash>>

\* The markets of an event, each once although both endpoints may have listed it.
Pair(p, e) == {m \in Markets : EventOf[m] = e /\ \E src \in Endpoints : <<src, m>> \in p.seen}

Paired(p, e) == Cardinality(Pair(p, e)) = 2

NewOnes(r, s) == {EventOf[x[2]] : x \in Part(r, s).seen} \ run[r].known

AskedUnpadded(dates) == dates

\* The schedules are filed under another calendar: a day on each side as well.
Asked(dates) == UNION {(d - 1)..(d + 1) : d \in dates}

\* The events that are not in the file yet, and the games of their days; a day whose
\* request failed is left out.
Fetch(r, s) ==
    /\ Working(r, s, "list") /\ Part(r, s).asked = Endpoints
    /\ LET p == Part(r, s)
           listed == {g \in Events : SportOf[g] = s /\ UtcDay[g] \in Asked({Day[e] : e \in NewOnes(r, s)})}
           next(games) == [p EXCEPT !.step = "rows", !.games = games]
       IN  \/ Becomes(r, s, next(listed), TRUE) /\ UNCHANGED faults
           \/ /\ Fault /\ listed # {}
              /\ \E lost \in SUBSET {UtcDay[g] : g \in listed} \ {{}} :
                    Becomes(r, s, next({g \in listed : UtcDay[g] \notin lost}), FALSE)
    /\ UNCHANGED <<place, file, moves, clash>>

FirstGame(r, s, e) ==
    {g \in Part(r, s).games \cap Twins[e] :
        \A h \in Part(r, s).games \cap Twins[e] : Start[g] <= Start[h]}

\* The n-th new event of a day and matchup, by its time of day, is the n-th game there.
GameFor(r, s, e) ==
    LET entries == NewOnes(r, s) \cap Twins[e]
        games == Part(r, s).games \cap Twins[e]
    IN  {g \in games : Cardinality({h \in games : Start[h] < Start[g]})
                        = Cardinality({f \in entries : Clock[f] < Clock[e]})}

\* process_event.  History: who wrote the row, and whether its doubleheader was whole.
RowsFor(r, s, e) ==
    LET pair == Pair(Part(r, s), e)
        row(g, m) ==
            [event |-> e, start |-> Start[g], fav |-> m, entry |-> AverageAsk[m][Start[g]],
             pnl |-> Pnl(m, AverageAsk[m][Start[g]]), by |-> r, torn |-> FALSE,
             whole |-> Twins[e] \subseteq NewOnes(r, s) \cap Part(r, s).games]
    IN  IF ~Paired(Part(r, s), e) THEN {}
        ELSE UNION {{row(g, m) : m \in Favourites(pair, Start[g])} :
                        g \in {x \in GameFor(r, s, e) : Priced(pair, Start[x])}}

Collected(r, s, rows, clean) ==
    run' = [run EXCEPT ![r].part[s] = [NotBegun EXCEPT !.step = "done"],
                       ![r].got = @ \cup rows,
                       ![r].due = IF clean THEN @ ELSE {},
                       ![r].at = IF \A q \in Sports \ {s} : Part(r, q).step = "done"
                                 THEN "append" ELSE "build"]

\* Events whose candles neither endpoint gives in any attempt, or whose thread raises.
Unpriced(r, s) == SUBSET NewOnes(r, s)

\* The threads' results, in one step: nothing they read changes meanwhile.
Collect(r, s) ==
    /\ Working(r, s, "rows")
    /\ \E lost \in Unpriced(r, s) :
        LET all == UNION {RowsFor(r, s, e) : e \in NewOnes(r, s) \ lost}
        IN  /\ IF lost = {} THEN UNCHANGED faults ELSE Fault
            /\ \E rows \in SUBSET all :
                /\ \A x \in all : \E y \in rows : {z \in rows : z.event = x.event} = {y}
                /\ Collected(r, s, rows, lost = {})
    /\ UNCHANGED <<place, file, moves, clash>>

\* The sport raises over its schedule: main goes on with the others.
SportFails(r, s) ==
    /\ Working(r, s, "list") /\ Part(r, s).asked = Endpoints
    /\ Fault
    /\ Collected(r, s, {}, FALSE)
    /\ UNCHANGED <<place, file, moves, clash>>

-----------------------------------------------------------------------------
(* append_rows.                                                            *)

Leaves(r, at, due) == run' = [run EXCEPT ![r] = [NoRun EXCEPT !.at = at, !.due = due]]

\* os.path.exists and the check of the header.
LookAtFile(r) ==
    /\ run[r].at = "append"
    /\ IF run[r].got = {} THEN Leaves(r, "done", run[r].due) /\ UNCHANGED clash
       ELSE IF file.head = "cut" THEN Leaves(r, "failed", {}) /\ UNCHANGED clash
       ELSE /\ run' = [run EXCEPT ![r].at = "reread", ![r].made = file.head # "none"]
            /\ clash' = (clash \/ \E q \in Runs \ {r} : run[q].at \in {"reread", "write"})
    /\ UNCHANGED <<place, file, moves, faults>>

FreshAll(rows) == rows

Fresh(rows) == {row \in rows : row.event \notin Keys}

\* The keys are read again, for what another run has written meanwhile.
Reread(r) ==
    /\ run[r].at = "reread"
    /\ IF Fresh(run[r].got) = {} THEN Leaves(r, "done", run[r].due)
       ELSE run' = [run EXCEPT ![r].at = "write", ![r].fresh = Fresh(run[r].got)]
    /\ UNCHANGED <<place, file, moves, faults, clash>>

KeptAnew(r) == {}

Kept(r) == IF run[r].made THEN file.rows ELSE {}

\* What reaches the file of some rows: behind a line that was cut after its key the
\* first is lost, behind one cut before it is spoiled.
Landed(r, rows) ==
    IF ~run[r].made \/ file.tail = "whole" \/ rows = {} THEN {rows}
    ELSE {(rows \ {x}) \cup (IF file.tail = "stub" THEN {[x EXCEPT !.torn = TRUE]} ELSE {}) : x \in rows}

Write(r) ==
    /\ run[r].at = "write"
    /\ \E rows \in Landed(r, run[r].fresh) :
        file' = [head |-> "ok", rows |-> Kept(r) \cup rows, tail |-> "whole"]
    /\ Leaves(r, "done", IF file.tail = "whole" THEN run[r].due ELSE {})
    /\ UNCHANGED <<place, moves, faults, clash>>

\* The run is killed while it writes: the header of a new file, or some of the rows
\* and a piece of the next one.
WriteDies(r) ==
    /\ run[r].at = "write"
    /\ Fault
    /\ \/ ~run[r].made /\ file' = [head |-> "cut", rows |-> {}, tail |-> "whole"]
       \/ \E some \in SUBSET run[r].fresh : \E x \in run[r].fresh \ some, cut \in {"whole", "cut", "stub"} :
            \E rows \in Landed(r, some \cup IF cut = "cut" THEN {[x EXCEPT !.torn = TRUE]} ELSE {}) :
                file' = [head |-> "ok", rows |-> Kept(r) \cup rows, tail |-> cut]
    /\ Leaves(r, "failed", {})
    /\ UNCHANGED <<place, moves, clash>>

Killed(r) ==
    /\ run[r].at \in {"build", "append", "reread"}
    /\ Fault
    /\ Leaves(r, "failed", {})
    /\ UNCHANGED <<place, file, moves, clash>>

Next ==
    \/ \E m \in Markets : Settle(m) \/ Archive(m)
    \/ \E r \in Runs :
        \/ Begin(r) \/ LookAtFile(r) \/ Reread(r) \/ Write(r) \/ WriteDies(r) \/ Killed(r)
        \/ \E s \in Sports :
            \/ \E src \in Endpoints : List(r, s, src)
            \/ Fetch(r, s) \/ Collect(r, s) \/ SportFails(r, s)

Spec == Init /\ [][Next]_vars

-----------------------------------------------------------------------------
Entries == UNION {{AverageAsk[m][t] : t \in Starts} : m \in Markets}
Results == {100 - a : a \in Entries} \cup {-a : a \in Entries}

RowType ==
    [event : Events, start : Starts, fav : Markets, entry : Entries,
     pnl : Results,
     by : Runs, torn : BOOLEAN, whole : BOOLEAN]

PartState ==
    [step : {"list", "rows", "done"}, asked : SUBSET Endpoints,
     seen : SUBSET (Endpoints \X Markets), games : SUBSET Events]

RunState ==
    [at : {"off", "build", "append", "reread", "write", "done", "failed"},
     known : SUBSET Events, got : SUBSET RowType, made : BOOLEAN,
     fresh : SUBSET RowType, due : SUBSET Events, part : [Sports -> PartState]]

FileState ==
    [head : {"none", "cut", "ok"}, rows : SUBSET RowType, tail : {"whole", "cut", "stub"}]

\* Type invariant.
TypeOK ==
    /\ place \in [Markets -> {"open"} \cup Endpoints]
    /\ file \in FileState
    /\ run \in [Runs -> RunState]
    /\ moves \in Nat /\ faults \in Nat /\ clash \in BOOLEAN

\* Two runs that both began before either had written leave one row per event, unless
\* they are in append_rows at the same time (build_nba_research_dataset.py:874).
OneRowPerEvent ==
    ~clash => \A x, y \in file.rows : x.event = y.event => x = y

\* A row that is in the file stays there as it is, whichever run fails or is killed.
RowsAreKept ==
    [][~clash' => file.rows \subseteq file'.rows]_vars

\* A row is about its own game: its favourite is the dearer market and the entry the
\* average ask before that game's start, of a doubleheader as well if the run saw both
\* games of it (resolve_events_to_metadata).
RowIsOfItsGame ==
    \A x \in file.rows : x.whole /\ ~x.torn =>
        /\ x.start = Start[x.event] /\ EventOf[x.fav] = x.event
        /\ \A m \in MarketsOf[x.event] : x.entry >= AverageAsk[m][Start[x.event]]
        /\ x.pnl = (IF x.fav \in Wins THEN 100 ELSE 0) - x.entry

\* A run that lost no call finds every game that had settled when it began, unless a
\* market of it changed endpoints meanwhile or the file ended in half a line.
CleanRunIsComplete ==
    ~clash => \A r \in Runs : run[r].at = "done" => run[r].due \subseteq Keys
=============================================================================
