------------------------ MODULE ResearchDatasetProofs ------------------------
(***************************************************************************)
(* What holds of ResearchDataset for any sports, schedules, markets and    *)
(* candles, and any number of runs, changes at Kalshi and faults.          *)
(***************************************************************************)
EXTENDS ResearchDataset, FiniteSetTheorems, TLAPS

Distinct(rows) == \A x, y \in rows : x.event = y.event => x = y
EventsIn(rows) == {x.event : x \in rows}

InAppend(r) == run[r].at \in {"reread", "write"}

\* What a run has gathered: markets of the sport it lists, and one row per event of the
\* sports it is done with.
Gathered ==
    \A r \in Runs :
        /\ \A s \in Sports : \A x \in Part(r, s).seen : SportOf[EventOf[x[2]]] = s
        /\ \A x \in run[r].got : Part(r, SportOf[x.event]).step = "done"
        /\ Distinct(run[r].got)
        /\ run[r].fresh \subseteq run[r].got

\* While no two runs are in append_rows at once, what a run has seen of the file there
\* is still true when it writes.
Current ==
    /\ file.head # "ok" => file.rows = {}
    /\ ~clash =>
        /\ Distinct(file.rows)
        /\ \A r, q \in Runs : InAppend(r) /\ InAppend(q) => r = q
        /\ \A r \in Runs : InAppend(r) /\ ~run[r].made => file.head = "none"
        /\ \A r \in Runs : run[r].at = "write" => EventsIn(run[r].fresh) \cap Keys = {}

-----------------------------------------------------------------------------
(* The data.                                                               *)

LEMMA Data ==
  /\ SportOf \in [Events -> Sports] /\ EventOf \in [Markets -> Events]
  /\ \A e \in Events : Start[e] \in Starts
  /\ MaxRuns \in Nat
  BY DatasetAssumption DEF Starts

\* The events that a ticker without its time of day does not tell apart.
LEMMA TwinsAre ==
  ASSUME NEW e \in Events, NEW f \in Twins[e]
  PROVE  /\ f \in Events /\ SportOf[f] = SportOf[e] /\ Twins[f] = Twins[e]
         /\ e \in Twins[e] /\ Twins[e] \subseteq Events /\ IsFiniteSet(Twins[e])
<1>1. f \in Events /\ SportOf[f] = SportOf[e] /\ Day[f] = Day[e] /\ Matchup[f] = Matchup[e]
  BY DEF Twins
<1>2. Twins[e] \subseteq Events /\ e \in Twins[e]
  BY DEF Twins
<1>3. Twins[f] = Twins[e]
  BY <1>1 DEF Twins
<1>4. IsFiniteSet(Twins[e])
  BY <1>2, DatasetAssumption, FS_Subset
<1>. QED
  BY <1>1, <1>2, <1>3, <1>4

LEMMA OfItself == ASSUME NEW e \in Events PROVE e \in Twins[e]
  BY DEF Twins

\* Two markets of an event are the markets of the event.
LEMMA BothMarkets ==
  ASSUME NEW e \in Events, NEW pair \in SUBSET MarketsOf[e]
  PROVE  Cardinality(pair) = 2 <=> pair = MarketsOf[e]
<1>1. PICK a \in Markets, b \in Markets : a # b /\ MarketsOf[e] = {a, b}
  BY DatasetAssumption
<1>2. IsFiniteSet(MarketsOf[e]) /\ Cardinality(MarketsOf[e]) = 2
  <2>1. IsFiniteSet({a}) /\ Cardinality({a}) = 1
    BY FS_Singleton
  <2>2. b \notin {a} /\ {a} \cup {b} = MarketsOf[e]
    BY <1>1
  <2>3. IsFiniteSet({a} \cup {b}) /\ Cardinality({a} \cup {b}) = Cardinality({a}) + 1
    BY <2>1, <2>2, FS_AddElement
  <2>. QED
    BY <2>1, <2>2, <2>3
<1>. QED
  BY <1>2, FS_Subset

LEMMA FewerAre ==
  ASSUME NEW S, NEW T, IsFiniteSet(T), S \subseteq T, NEW x \in T, x \notin S
  PROVE  Cardinality(S) # Cardinality(T)
  BY FS_Subset

\* resolve_events_to_metadata: where a doubleheader and its schedule are whole, as many games
\* start before a game as events have an earlier ticker only for the event it is about.
LEMMA OwnGame ==
  ASSUME NEW e \in Events, NEW g \in Twins[e]
  PROVE  Cardinality({h \in Twins[e] : Start[h] < Start[g]})
            = Cardinality({f \in Twins[e] : Clock[f] < Clock[e]}) <=> g = e
<1>. DEFINE Sooner(x) == {h \in Twins[e] : Start[h] < Start[x]}
<1>1. Twins[e] \subseteq Events /\ e \in Twins[e] /\ IsFiniteSet(Twins[e])
  BY TwinsAre
<1>2. \A x \in Events : Start[x] \in Int /\ Clock[x] \in Int
  BY DatasetAssumption
<1>3. \A x, y \in Twins[e] : x # y =>
        Clock[x] # Clock[y] /\ (Clock[x] < Clock[y] <=> Start[x] < Start[y])
  <2>. SUFFICES ASSUME NEW x \in Twins[e], NEW y \in Twins[e], x # y
                PROVE  Clock[x] # Clock[y] /\ (Clock[x] < Clock[y] <=> Start[x] < Start[y])
    OBVIOUS
  <2>1. x \in Events /\ y \in Twins[x] \ {x} /\ y \in Events
    BY TwinsAre
  <2>. QED
    BY <2>1, DatasetAssumption
<1>4. {f \in Twins[e] : Clock[f] < Clock[e]} = Sooner(e)
  BY <1>1, <1>2, <1>3
<1>5. CASE g = e
  BY <1>4, <1>5
<1>6. CASE g # e
  <2>1. Start[g] < Start[e] \/ Start[e] < Start[g]
    BY <1>1, <1>2, <1>3, <1>6
  <2>2. IsFiniteSet(Sooner(g)) /\ IsFiniteSet(Sooner(e))
    BY <1>1, FS_Subset
  <2>3. CASE Start[g] < Start[e]
    <3>1. Sooner(g) \subseteq Sooner(e) /\ g \in Sooner(e) /\ g \notin Sooner(g)
      BY <1>1, <1>2, <2>3
    <3>. QED
      BY <1>4, <1>6, <2>2, <3>1, FewerAre
  <2>4. CASE Start[e] < Start[g]
    <3>1. Sooner(e) \subseteq Sooner(g) /\ e \in Sooner(g) /\ e \notin Sooner(e)
      BY <1>1, <1>2, <2>4
    <3>. QED
      BY <1>4, <1>6, <2>2, <3>1, FewerAre
  <2>. QED
    BY <2>1, <2>3, <2>4
<1>. QED
  BY <1>5, <1>6

LEMMA GameForIs ==
  ASSUME NEW r, NEW s, NEW e \in Events,
         Twins[e] \subseteq NewOnes(r, s) \cap Part(r, s).games
  PROVE  GameFor(r, s, e) = {e}
<1>1. NewOnes(r, s) \cap Twins[e] = Twins[e] /\ Part(r, s).games \cap Twins[e] = Twins[e]
  OBVIOUS
<1>2. GameFor(r, s, e) = {g \in Twins[e] : Cardinality({h \in Twins[e] : Start[h] < Start[g]})
                                = Cardinality({f \in Twins[e] : Clock[f] < Clock[e]})}
  BY <1>1 DEF GameFor
<1>3. e \in Twins[e]
  BY OfItself
<1>. QED
  BY <1>2, <1>3, OwnGame

\* summarize_market_window: an average of asks is a number of cents.
LEMMA AveragesAreCents ==
  ASSUME NEW m \in Markets, NEW start \in Starts
  PROVE  AverageAsk[m][start] \in Int
<1>. DEFINE W == Window[m][start]
<1>0. AverageAsk[m][start] = IF W = {} THEN 0
                             ELSE Rounded(Cardinality(Cents(m, start)), Cardinality(W))
  BY DEF AverageAsk
<1>1. IsFiniteSet(W)
  <2>1. start \in Int /\ start - Lookback \in Int /\ start - 1 \in Int
    BY DatasetAssumption DEF Starts, Lookback
  <2>2. W \subseteq (start - Lookback)..(start - 1)
    BY <2>1, DatasetAssumption DEF Window
  <2>. QED
    BY <2>1, <2>2, FS_Interval, FS_Subset
<1>2. IsFiniteSet(Cents(m, start))
  <2>. DEFINE top == 98
  <2>1. top \in Int
    OBVIOUS
  <2>2. Cents(m, start) \subseteq W \X (1..top)
    BY DEF Cents
  <2>. HIDE DEF W, top
  <2>3. IsFiniteSet(1..top)
    BY <2>1, FS_Interval
  <2>4. IsFiniteSet(W \X (1..top))
    BY <1>1, <2>3, FS_Product
  <2>. QED
    BY <2>2, <2>4, FS_Subset
<1>3. Cardinality(Cents(m, start)) \in Nat /\ Cardinality(W) \in Nat
      /\ (W # {} => Cardinality(W) # 0)
  BY <1>1, <1>2, FS_CardinalityType, FS_EmptySet
<1>. HIDE DEF W
<1>. DEFINE sum == Cardinality(Cents(m, start))
            n == Cardinality(W)
<1>4. ASSUME W # {} PROVE Rounded(sum, n) \in Int
  <2>1. sum \in Nat /\ n \in Nat /\ n > 0
    BY <1>3, <1>4
  <2>. HIDE DEF sum, n
  <2>2. sum \div n \in Int
    BY <2>1
  <2>. QED
    BY <2>2 DEF Rounded
<1>. QED
  BY <1>0, <1>4

LEMMA EntriesAreCents == Entries \subseteq Int
  BY AveragesAreCents DEF Entries

-----------------------------------------------------------------------------
(* Types.                                                                  *)

LEMMA NoRunIs == NoRun \in RunState
<1>1. [s \in Sports |-> NotBegun] \in [Sports -> PartState]
  BY DEF NotBegun, PartState
<1>. QED
  BY <1>1 DEF NoRun, RunState

LEMMA RunIs ==
  ASSUME TypeOK, NEW r \in Runs
  PROVE  /\ run[r] \in RunState
         /\ \A s \in Sports : Part(r, s) \in PartState
         /\ \A q \in RunState : [run EXCEPT ![r] = q] \in [Runs -> RunState]
  BY DEF TypeOK, RunState, Part

LEMMA KeysAre == ASSUME TypeOK PROVE Keys \subseteq Events
  BY DEF TypeOK, FileState, RowType, Keys

LEMMA TornIs ==
  ASSUME NEW x \in RowType
  PROVE  [x EXCEPT !.torn = TRUE] \in RowType /\ [x EXCEPT !.torn = TRUE].event = x.event
  BY DEF RowType

LEMMA TypeInit == Init => TypeOK
<1>. SUFFICES ASSUME Init PROVE TypeOK
  OBVIOUS
<1>1. file \in FileState
  BY DEF Init, FileState
<1>2. place \in [Markets -> {"open"} \cup Endpoints]
  BY DEF Init, Endpoints
<1>. QED
  BY <1>1, <1>2, NoRunIs DEF Init, TypeOK

\* The ends of a run, in append_rows or killed.
LEMMA LeavesIs ==
  ASSUME TypeOK, NEW r \in Runs, NEW at \in {"done", "failed"}, NEW due \in SUBSET Events,
         Leaves(r, at, due)
  PROVE  run' \in [Runs -> RunState]
<1>1. [NoRun EXCEPT !.at = at, !.due = due] \in RunState
  BY NoRunIs DEF RunState
<1>. QED
  BY <1>1, RunIs DEF Leaves

LEMMA BecomesIs ==
  ASSUME TypeOK, NEW r \in Runs, NEW s \in Sports, NEW p \in PartState,
         NEW clean \in BOOLEAN, Becomes(r, s, p, clean)
  PROVE  run' \in [Runs -> RunState]
<1>1. run[r] \in RunState
  BY RunIs
<1>2. [run[r].part EXCEPT ![s] = p] \in [Sports -> PartState]
  BY <1>1 DEF RunState
<1>. DEFINE q == [run[r] EXCEPT !.part = [run[r].part EXCEPT ![s] = p],
                               !.due = IF clean THEN run[r].due ELSE {}]
<1>3. q \in RunState
  BY <1>1, <1>2 DEF RunState
<1>4. run' = [run EXCEPT ![r] = q]
  BY <1>1 DEF Becomes
<1>. QED
  BY <1>3, <1>4, RunIs

LEMMA CollectedIs ==
  ASSUME TypeOK, NEW r \in Runs, NEW s \in Sports, NEW rows \in SUBSET RowType,
         NEW clean \in BOOLEAN, Collected(r, s, rows, clean)
  PROVE  run' \in [Runs -> RunState]
<1>1. run[r] \in RunState
  BY RunIs
<1>. DEFINE p == [NotBegun EXCEPT !.step = "done"]
            part == [run[r].part EXCEPT ![s] = p]
            at == IF \A k \in Sports \ {s} : Part(r, k).step = "done" THEN "append" ELSE "build"
            q == [run[r] EXCEPT !.part = part, !.got = run[r].got \cup rows,
                                !.due = IF clean THEN run[r].due ELSE {}, !.at = at]
<1>2. p \in PartState
  BY DEF NotBegun, PartState
<1>3. part \in [Sports -> PartState]
  BY <1>1, <1>2 DEF RunState
<1>4. at \in {"append", "build"}
  OBVIOUS
<1>5. run' = [run EXCEPT ![r] = q]
  BY <1>1 DEF Collected
<1>. HIDE DEF p, part, at
<1>6. q \in RunState
  BY <1>1, <1>3, <1>4 DEF RunState
<1>. QED
  BY <1>5, <1>6, RunIs

LEMMA RowsAre ==
  ASSUME TypeOK, NEW r \in Runs, NEW s \in Sports, NEW e \in Events
  PROVE  RowsFor(r, s, e) \subseteq RowType /\ \A x \in RowsFor(r, s, e) : x.event = e
<1>. DEFINE pair == Pair(Part(r, s), e)
            row(g, m) ==
              [event |-> e, start |-> Start[g], fav |-> m, entry |-> AverageAsk[m][Start[g]],
               pnl |-> Pnl(m, AverageAsk[m][Start[g]]), by |-> r, torn |-> FALSE,
               whole |-> Twins[e] \subseteq NewOnes(r, s) \cap Part(r, s).games]
<1>1. pair \subseteq Markets
  BY DEF Pair
<1>2. GameFor(r, s, e) \subseteq Events
  <2>1. Part(r, s).games \subseteq Events
    BY RunIs DEF PartState
  <2>. QED
    BY <2>1 DEF GameFor
<1>3. ASSUME NEW g \in Events, NEW m \in Markets PROVE row(g, m) \in RowType /\ row(g, m).event = e
  <2>1. Start[g] \in Starts
    BY Data
  <2>2. AverageAsk[m][Start[g]] \in Entries
    BY <2>1 DEF Entries
  <2>3. Pnl(m, AverageAsk[m][Start[g]]) \in Results
    BY <2>2 DEF Results, Pnl
  <2>. QED
    BY <2>1, <2>2, <2>3 DEF RowType
<1>4. ASSUME NEW x \in RowsFor(r, s, e) PROVE \E g \in Events, m \in Markets : x = row(g, m)
  <2>1. PICK g \in {h \in GameFor(r, s, e) : Priced(pair, Start[h])} :
            x \in {row(g, m) : m \in Favourites(pair, Start[g])}
    BY DEF RowsFor
  <2>. HIDE DEF row
  <2>2. PICK m \in Favourites(pair, Start[g]) : x = row(g, m)
    BY <2>1
  <2>. QED
    BY <1>1, <1>2, <2>1, <2>2 DEF Favourites
<1>. HIDE DEF row
<1>. QED
  BY <1>3, <1>4

\* Which fields of which runs a step changes.
Unmoved ==
    \A q \in Runs : /\ run'[q].at = run[q].at /\ run'[q].got = run[q].got
                    /\ run'[q].made = run[q].made /\ run'[q].fresh = run[q].fresh

LEMMA BecomesKeeps ==
  ASSUME TypeOK, NEW r \in Runs, NEW s \in Sports, NEW p \in PartState,
         NEW clean \in BOOLEAN, Becomes(r, s, p, clean)
  PROVE  /\ Unmoved
         /\ \A k \in Sports : run'[r].part[k] = IF k = s THEN p ELSE run[r].part[k]
         /\ \A q \in Runs \ {r} : run'[q] = run[q]
<1>1. run[r] \in RunState
  BY RunIs
<1>. DEFINE part == [run[r].part EXCEPT ![s] = p]
            q == [run[r] EXCEPT !.part = part, !.due = IF clean THEN run[r].due ELSE {}]
<1>2. run' = [run EXCEPT ![r] = q]
  BY <1>1 DEF Becomes
<1>3. \A k \in Sports : part[k] = IF k = s THEN p ELSE run[r].part[k]
  BY <1>1 DEF RunState
<1>. HIDE DEF part
<1>4. q.part = part /\ q.at = run[r].at /\ q.got = run[r].got /\ q.made = run[r].made /\ q.fresh = run[r].fresh
  BY <1>1 DEF RunState
<1>. HIDE DEF q
<1>. QED
  BY <1>2, <1>3, <1>4 DEF TypeOK, Unmoved

LEMMA CollectedKeeps ==
  ASSUME TypeOK, NEW r \in Runs, NEW s \in Sports, NEW rows \in SUBSET RowType,
         NEW clean \in BOOLEAN, Collected(r, s, rows, clean)
  PROVE  /\ run'[r].at \in {"append", "build"} /\ run'[r].got = run[r].got \cup rows
         /\ run'[r].made = run[r].made /\ run'[r].fresh = run[r].fresh
         /\ \A k \in Sports : run'[r].part[k] = IF k = s THEN [NotBegun EXCEPT !.step = "done"]
                                                ELSE run[r].part[k]
         /\ \A q \in Runs \ {r} : run'[q] = run[q]
<1>1. run[r] \in RunState
  BY RunIs
<1>. DEFINE part == [run[r].part EXCEPT ![s] = [NotBegun EXCEPT !.step = "done"]]
            at == IF \A k \in Sports \ {s} : Part(r, k).step = "done" THEN "append" ELSE "build"
            q == [run[r] EXCEPT !.part = part, !.got = run[r].got \cup rows,
                                !.due = IF clean THEN run[r].due ELSE {}, !.at = at]
<1>2. \A k \in Sports : part[k] = IF k = s THEN [NotBegun EXCEPT !.step = "done"] ELSE run[r].part[k]
  BY <1>1 DEF RunState
<1>3. at \in {"append", "build"}
  OBVIOUS
<1>4. run' = [run EXCEPT ![r] = q]
  BY <1>1 DEF Collected
<1>. HIDE DEF part, at
<1>5. /\ q.part = part /\ q.at = at /\ q.got = run[r].got \cup rows
      /\ q.made = run[r].made /\ q.fresh = run[r].fresh
  BY <1>1 DEF RunState
<1>. HIDE DEF q
<1>. QED
  BY <1>2, <1>3, <1>4, <1>5 DEF TypeOK

\* The run after it has left append_rows or was killed; the run before its first list.
LEMMA LeavesKeeps ==
  ASSUME TypeOK, NEW r \in Runs, NEW at, NEW due, Leaves(r, at, due)
  PROVE  /\ run'[r].at = at /\ run'[r].got = {} /\ run'[r].fresh = {}
         /\ \A k \in Sports : run'[r].part[k].seen = {}
         /\ \A q \in Runs \ {r} : run'[q] = run[q]
<1>. DEFINE n == [NoRun EXCEPT !.at = at, !.due = due]
<1>1. n.at = at /\ n.got = {} /\ n.fresh = {} /\ \A k \in Sports : n.part[k].seen = {}
  BY DEF NoRun, NotBegun
<1>2. run' = [run EXCEPT ![r] = n]
  BY DEF Leaves
<1>. HIDE DEF n
<1>. QED
  BY <1>1, <1>2 DEF TypeOK

LEMMA ArchiveKeeps ==
  ASSUME TypeOK, NEW m \in Markets, Archive(m)
  PROVE  /\ run' \in [Runs -> RunState] /\ Unmoved
         /\ \A q \in Runs : run'[q].part = run[q].part
<1>1. \A q \in Runs : run[q] \in RunState
  BY RunIs
<1>. DEFINE after(q) == [run[q] EXCEPT !.due = run[q].due \ Twins[EventOf[m]]]
<1>2. run' = [q \in Runs |-> after(q)]
  BY DEF Archive
<1>3. ASSUME NEW q \in Runs
      PROVE  /\ after(q) \in RunState /\ after(q).part = run[q].part
             /\ after(q).at = run[q].at /\ after(q).got = run[q].got
             /\ after(q).made = run[q].made /\ after(q).fresh = run[q].fresh
  BY <1>1 DEF RunState
<1>. HIDE DEF after
<1>. QED
  BY <1>2, <1>3 DEF Unmoved

\* The settled markets of a sport that an endpoint lists.
LEMMA Listed ==
  ASSUME NEW s \in Sports, NEW src \in Endpoints, NEW x \in Listing(s, src)
  PROVE  x \in Endpoints \X Markets /\ SportOf[EventOf[x[2]]] = s
  BY DEF Listing

LEMMA ListIs ==
  ASSUME TypeOK, NEW r \in Runs, NEW s \in Sports, NEW src \in Endpoints, List(r, s, src)
  PROVE  \E p \in PartState, clean \in BOOLEAN :
            /\ Becomes(r, s, p, clean) /\ p.step = "list"
            /\ p.seen \subseteq Part(r, s).seen \cup Listing(s, src)
<1>. DEFINE p(got) == [Part(r, s) EXCEPT !.asked = Part(r, s).asked \cup {src},
                                        !.seen = Part(r, s).seen \cup got]
<1>1. Part(r, s) \in PartState /\ Part(r, s).step = "list"
  BY RunIs DEF List, Working
<1>2. ASSUME NEW got \in SUBSET Listing(s, src)
      PROVE  p(got) \in PartState /\ p(got).step = "list" /\ p(got).seen = Part(r, s).seen \cup got
  BY <1>1, Listed DEF PartState
<1>3. \E got \in SUBSET Listing(s, src), clean \in BOOLEAN : Becomes(r, s, p(got), clean)
  BY <1>1 DEF List
<1>4. PICK got \in SUBSET Listing(s, src), clean \in BOOLEAN : Becomes(r, s, p(got), clean)
  BY <1>3
<1>. HIDE DEF p
<1>. QED
  BY <1>2, <1>4

LEMMA FetchIs ==
  ASSUME TypeOK, NEW r \in Runs, NEW s \in Sports, Fetch(r, s)
  PROVE  \E p \in PartState, clean \in BOOLEAN :
            /\ Becomes(r, s, p, clean) /\ p.step = "rows" /\ p.seen = Part(r, s).seen
<1>. DEFINE p(games) == [Part(r, s) EXCEPT !.step = "rows", !.games = games]
            listed == {g \in Events : SportOf[g] = s /\
                        UtcDay[g] \in Asked({Day[e] : e \in NewOnes(r, s)})}
            left(lost) == {g \in listed : UtcDay[g] \notin lost}
<1>1. ASSUME NEW games \in SUBSET Events
      PROVE  p(games) \in PartState /\ p(games).step = "rows" /\ p(games).seen = Part(r, s).seen
  BY RunIs DEF PartState
<1>2. \/ Becomes(r, s, p(listed), TRUE)
      \/ \E lost \in SUBSET {UtcDay[g] : g \in listed} : Becomes(r, s, p(left(lost)), FALSE)
  BY DEF Fetch
<1>3. listed \in SUBSET Events /\ \A lost : left(lost) \in SUBSET Events
  OBVIOUS
<1>. HIDE DEF p, listed, left
<1>. QED
  BY <1>1, <1>2, <1>3

LEMMA CollectIs ==
  ASSUME TypeOK, NEW r \in Runs, NEW s \in Sports, Collect(r, s)
  PROVE  \E rows \in SUBSET RowType, clean \in BOOLEAN :
            /\ Collected(r, s, rows, clean) /\ Distinct(rows)
            /\ \A x \in rows : \E y \in Part(r, s).seen : x.event = EventOf[y[2]]
<1>1. PICK lost \in Unpriced(r, s) :
        \E rows \in SUBSET UNION {RowsFor(r, s, e) : e \in NewOnes(r, s) \ lost} :
            /\ \A x \in UNION {RowsFor(r, s, e) : e \in NewOnes(r, s) \ lost} :
                \E y \in rows : {z \in rows : z.event = x.event} = {y}
            /\ Collected(r, s, rows, lost = {})
  BY DEF Collect
<1>. DEFINE all == UNION {RowsFor(r, s, e) : e \in NewOnes(r, s) \ lost}
<1>2. PICK rows \in SUBSET all :
        /\ \A x \in all : \E y \in rows : {z \in rows : z.event = x.event} = {y}
        /\ Collected(r, s, rows, lost = {})
  BY <1>1
<1>3. \A e \in NewOnes(r, s) : e \in Events /\ \E y \in Part(r, s).seen : e = EventOf[y[2]]
  <2>1. \A y \in Part(r, s).seen : y[2] \in Markets
    BY RunIs DEF PartState
  <2>. QED
    BY <2>1, Data DEF NewOnes
<1>4. \A x \in all : x \in RowType /\ \E y \in Part(r, s).seen : x.event = EventOf[y[2]]
  <2>. SUFFICES ASSUME NEW x \in all
                PROVE  x \in RowType /\ \E y \in Part(r, s).seen : x.event = EventOf[y[2]]
    OBVIOUS
  <2>1. PICK e \in NewOnes(r, s) : x \in RowsFor(r, s, e)
    OBVIOUS
  <2>2. x \in RowType /\ x.event = e
    BY <1>3, <2>1, RowsAre
  <2>. QED
    BY <1>3, <2>1, <2>2
<1>. HIDE DEF all
<1>5. Distinct(rows)
  <2>. SUFFICES ASSUME NEW x \in rows, NEW y \in rows, x.event = y.event
                PROVE  x = y
    BY DEF Distinct
  <2>1. PICK z \in rows : {w \in rows : w.event = x.event} = {z}
    BY <1>2
  <2>2. x = z /\ y = z
    BY <2>1
  <2>. QED
    BY <2>2
<1>6. rows \in SUBSET RowType /\ (lost = {}) \in BOOLEAN
  BY <1>2, <1>4
<1>. QED
  BY <1>2, <1>4, <1>5, <1>6

\* Where a run that is to append goes, and what it takes along.
Appends(r, at) ==
    /\ run'[r].at = at /\ run'[r].got = run[r].got /\ run'[r].part = run[r].part
    /\ \A q \in Runs \ {r} : run'[q] = run[q]

LEMMA LookAtFileIs ==
  ASSUME TypeOK, NEW r \in Runs, LookAtFile(r)
  PROVE  \/ /\ \E at \in {"done", "failed"}, due \in SUBSET Events : Leaves(r, at, due)
            /\ UNCHANGED clash
         \/ /\ Appends(r, "reread") /\ run' \in [Runs -> RunState]
            /\ run'[r].made = (file.head # "none") /\ run'[r].fresh = run[r].fresh
            /\ clash' = (clash \/ \E q \in Runs \ {r} : InAppend(q))
<1>1. run[r] \in RunState
  BY RunIs
<1>2. run[r].due \subseteq Events /\ {} \subseteq Events
  BY <1>1 DEF RunState
<1>. DEFINE n == [run[r] EXCEPT !.at = "reread", !.made = file.head # "none"]
<1>3. n \in RunState /\ n.at = "reread" /\ n.got = run[r].got /\ n.part = run[r].part
      /\ n.made = (file.head # "none") /\ n.fresh = run[r].fresh
  BY <1>1 DEF RunState
<1>4. CASE run[r].got = {} \/ file.head = "cut"
  BY <1>2, <1>4 DEF LookAtFile
<1>5. CASE ~(run[r].got = {} \/ file.head = "cut")
  <2>1. run' = [run EXCEPT ![r] = n]
    BY <1>1, <1>5 DEF LookAtFile
  <2>2. clash' = (clash \/ \E q \in Runs \ {r} : InAppend(q))
    BY <1>5 DEF LookAtFile, InAppend
  <2>. HIDE DEF n
  <2>3. Appends(r, "reread") /\ run'[r].made = (file.head # "none") /\ run'[r].fresh = run[r].fresh
    BY <1>3, <2>1 DEF TypeOK, Appends
  <2>4. run' \in [Runs -> RunState]
    BY <1>3, <2>1, RunIs
  <2>. QED
    BY <2>2, <2>3, <2>4
<1>. QED
  BY <1>4, <1>5

LEMMA RereadIs ==
  ASSUME TypeOK, NEW r \in Runs, Reread(r)
  PROVE  \/ \E due \in SUBSET Events : Leaves(r, "done", due)
         \/ /\ Appends(r, "write") /\ run' \in [Runs -> RunState]
            /\ run'[r].made = run[r].made /\ run'[r].fresh = Fresh(run[r].got)
<1>1. run[r] \in RunState
  BY RunIs
<1>2. run[r].due \subseteq Events /\ Fresh(run[r].got) \subseteq RowType
  BY <1>1 DEF RunState, Fresh
<1>. DEFINE n == [run[r] EXCEPT !.at = "write", !.fresh = Fresh(run[r].got)]
<1>3. n \in RunState /\ n.at = "write" /\ n.got = run[r].got /\ n.part = run[r].part
      /\ n.made = run[r].made /\ n.fresh = Fresh(run[r].got)
  BY <1>1, <1>2 DEF RunState
<1>4. CASE Fresh(run[r].got) = {}
  BY <1>2, <1>4 DEF Reread
<1>5. CASE Fresh(run[r].got) # {}
  <2>1. run' = [run EXCEPT ![r] = n]
    BY <1>1, <1>5 DEF Reread
  <2>. HIDE DEF n
  <2>2. Appends(r, "write") /\ run'[r].made = run[r].made /\ run'[r].fresh = Fresh(run[r].got)
    BY <1>3, <2>1 DEF TypeOK, Appends
  <2>3. run' \in [Runs -> RunState]
    BY <1>3, <2>1, RunIs
  <2>. QED
    BY <2>2, <2>3
<1>. QED
  BY <1>4, <1>5

\* What lands of some rows is about the same events, one row for each.
LEMMA LandedIs ==
  ASSUME NEW r \in Runs, NEW given \in SUBSET RowType, Distinct(given),
         NEW rows \in Landed(r, given)
  PROVE  /\ rows \subseteq RowType /\ Distinct(rows) /\ EventsIn(rows) \subseteq EventsIn(given)
<1>1. CASE rows = given
  BY <1>1 DEF Distinct
<1>2. CASE rows # given
  <2>1. PICK x \in given :
          rows = (given \ {x}) \cup (IF file.tail = "stub" THEN {[x EXCEPT !.torn = TRUE]} ELSE {})
    BY <1>2 DEF Landed
  <2>2. rows \subseteq (given \ {x}) \cup {[x EXCEPT !.torn = TRUE]}
    BY <2>1
  <2>. DEFINE y == [x EXCEPT !.torn = TRUE]
  <2>3. y \in RowType /\ y.event = x.event
    BY TornIs
  <2>. HIDE DEF y
  <2>4. rows \subseteq (given \ {x}) \cup {y}
    BY <2>2 DEF y
  <2>. QED
    BY <2>3, <2>4 DEF Distinct, EventsIn
<1>. QED
  BY <1>1, <1>2

\* What a write leaves in the file, whether it is finished or not.
Adds(r, rows) ==
    /\ file'.head = "ok" /\ file'.rows = Kept(r) \cup rows
    /\ rows \subseteq RowType /\ Distinct(rows) /\ EventsIn(rows) \subseteq EventsIn(run[r].fresh)

LEMMA KeptIs ==
  ASSUME TypeOK, NEW r \in Runs
  PROVE  Kept(r) \subseteq RowType /\ run[r].fresh \subseteq RowType
  BY RunIs DEF TypeOK, FileState, RunState, Kept

LEMMA WriteIs ==
  ASSUME TypeOK, Gathered, NEW r \in Runs, Write(r)
  PROVE  /\ \E due \in SUBSET Events : Leaves(r, "done", due)
         /\ file' \in FileState /\ \E rows : Adds(r, rows)
<1>1. Distinct(run[r].fresh)
  BY DEF Gathered, Distinct
<1>2. PICK rows \in Landed(r, run[r].fresh) :
        file' = [head |-> "ok", rows |-> Kept(r) \cup rows, tail |-> "whole"]
  BY DEF Write
<1>3. Adds(r, rows)
  BY <1>1, <1>2, KeptIs, LandedIs DEF Adds
<1>4. file' \in FileState
  BY <1>2, <1>3, KeptIs DEF Adds, FileState
<1>5. \E due \in SUBSET Events : Leaves(r, "done", due)
  <2>1. run[r].due \subseteq Events
    BY RunIs DEF RunState
  <2>. QED
    BY <2>1 DEF Write
<1>. QED
  BY <1>3, <1>4, <1>5

LEMMA WriteDiesIs ==
  ASSUME TypeOK, Gathered, NEW r \in Runs, WriteDies(r)
  PROVE  /\ Leaves(r, "failed", {}) /\ file' \in FileState
         /\ \/ ~run[r].made /\ file'.head = "cut" /\ file'.rows = {}
            \/ \E rows : Adds(r, rows)
<1>1. CASE ~run[r].made /\ file' = [head |-> "cut", rows |-> {}, tail |-> "whole"]
  BY <1>1 DEF WriteDies, FileState
<1>2. CASE \E some \in SUBSET run[r].fresh : \E x \in run[r].fresh \ some, cut \in {"whole", "cut", "stub"} :
            \E rows \in Landed(r, some \cup IF cut = "cut" THEN {[x EXCEPT !.torn = TRUE]} ELSE {}) :
                file' = [head |-> "ok", rows |-> Kept(r) \cup rows, tail |-> cut]
  <2>0. PICK some \in SUBSET run[r].fresh : \E x \in run[r].fresh \ some, cut \in {"whole", "cut", "stub"} :
            \E rows \in Landed(r, some \cup IF cut = "cut" THEN {[x EXCEPT !.torn = TRUE]} ELSE {}) :
                file' = [head |-> "ok", rows |-> Kept(r) \cup rows, tail |-> cut]
    BY <1>2
  <2>1. PICK x \in run[r].fresh \ some, cut \in {"whole", "cut", "stub"} :
            \E rows \in Landed(r, some \cup IF cut = "cut" THEN {[x EXCEPT !.torn = TRUE]} ELSE {}) :
                file' = [head |-> "ok", rows |-> Kept(r) \cup rows, tail |-> cut]
    BY <2>0
  <2>. DEFINE y == [x EXCEPT !.torn = TRUE]
              given == some \cup IF cut = "cut" THEN {y} ELSE {}
  <2>2. PICK rows \in Landed(r, given) :
            file' = [head |-> "ok", rows |-> Kept(r) \cup rows, tail |-> cut]
    BY <2>1
  <2>3. y \in RowType /\ y.event = x.event
    BY KeptIs, TornIs
  <2>. HIDE DEF y
  <2>4. given \in SUBSET RowType
    BY <2>3, KeptIs
  <2>5. given \subseteq some \cup {y}
    OBVIOUS
  <2>6. Distinct(run[r].fresh)
    BY DEF Gathered, Distinct
  <2>. HIDE DEF given
  <2>7. Distinct(given) /\ EventsIn(given) \subseteq EventsIn(run[r].fresh)
    BY <2>3, <2>5, <2>6 DEF Distinct, EventsIn
  <2>8. Adds(r, rows)
    BY <2>2, <2>4, <2>7, LandedIs DEF Adds
  <2>9. file' \in FileState
    BY <2>2, <2>8, KeptIs DEF Adds, FileState
  <2>. QED
    BY <2>8, <2>9 DEF WriteDies
<1>. QED
  BY <1>1, <1>2 DEF WriteDies

LEMMA BeginIs ==
  ASSUME TypeOK, NEW r \in Runs, Begin(r)
  PROVE  /\ run' \in [Runs -> RunState] /\ run'[r].at = "build" /\ run'[r].got = {}
         /\ run'[r].fresh = {} /\ \A k \in Sports : run'[r].part[k].seen = {}
         /\ \A q \in Runs \ {r} : run'[q] = run[q]
<1>1. PICK due \in SUBSET Events : run' = [run EXCEPT ![r] = [NoRun EXCEPT !.at = "build", !.known = Keys, !.due = due]]
  BY DEF Begin
<1>. DEFINE n == [NoRun EXCEPT !.at = "build", !.known = Keys, !.due = due]
<1>2. n \in RunState
  BY NoRunIs, KeysAre DEF RunState
<1>3. n.at = "build" /\ n.got = {} /\ n.fresh = {} /\ \A k \in Sports : n.part[k].seen = {}
  BY DEF NoRun, NotBegun
<1>4. run' = [run EXCEPT ![r] = n]
  BY <1>1
<1>. HIDE DEF n
<1>. QED
  BY <1>2, <1>3, <1>4, RunIs DEF TypeOK

LEMMA TypeStep == TypeOK /\ Gathered /\ [Next]_vars => TypeOK'
<1>. SUFFICES ASSUME TypeOK, Gathered, [Next]_vars PROVE TypeOK'
  OBVIOUS
<1>. USE DEF Fault
<1>1. CASE \E m \in Markets : Settle(m)
  BY <1>1 DEF Settle, TypeOK, Endpoints
<1>2. CASE \E m \in Markets : Archive(m)
  <2>1. run' \in [Runs -> RunState]
    BY <1>2, ArchiveKeeps
  <2>2. PICK m \in Markets : place' = [place EXCEPT ![m] = "historical"] /\ moves' = moves + 1
                            /\ UNCHANGED <<file, faults, clash>>
    BY <1>2 DEF Archive
  <2>. QED
    BY <2>1, <2>2 DEF TypeOK, Endpoints
<1>3. CASE \E r \in Runs : Begin(r)
  BY <1>3, BeginIs DEF Begin, TypeOK
<1>4. CASE \E r \in Runs, s \in Sports, src \in Endpoints : List(r, s, src)
  <2>1. run' \in [Runs -> RunState]
    BY <1>4, ListIs, BecomesIs
  <2>2. UNCHANGED <<place, file, moves, clash>> /\ (faults' = faults \/ faults' = faults + 1)
    BY <1>4 DEF List
  <2>. QED
    BY <2>1, <2>2 DEF TypeOK
<1>5. CASE \E r \in Runs, s \in Sports : Fetch(r, s)
  <2>1. run' \in [Runs -> RunState]
    BY <1>5, FetchIs, BecomesIs
  <2>2. UNCHANGED <<place, file, moves, clash>> /\ (faults' = faults \/ faults' = faults + 1)
    BY <1>5 DEF Fetch
  <2>. QED
    BY <2>1, <2>2 DEF TypeOK
<1>6. CASE \E r \in Runs, s \in Sports : Collect(r, s)
  <2>1. run' \in [Runs -> RunState]
    BY <1>6, CollectIs, CollectedIs
  <2>2. UNCHANGED <<place, file, moves, clash>> /\ faults' \in Nat
    BY <1>6 DEF Collect, TypeOK
  <2>. QED
    BY <2>1, <2>2 DEF TypeOK
<1>7. CASE \E r \in Runs, s \in Sports : SportFails(r, s)
  <2>1. run' \in [Runs -> RunState]
    BY <1>7, CollectedIs DEF SportFails
  <2>. QED
    BY <1>7, <2>1 DEF SportFails, TypeOK
<1>8. CASE \E r \in Runs : LookAtFile(r)
  <2>1. PICK r \in Runs : LookAtFile(r)
    BY <1>8
  <2>2. run' \in [Runs -> RunState] /\ clash' \in BOOLEAN
    BY <2>1, LookAtFileIs, LeavesIs DEF TypeOK
  <2>. QED
    BY <2>1, <2>2 DEF LookAtFile, TypeOK
<1>9. CASE \E r \in Runs : Reread(r)
  <2>1. run' \in [Runs -> RunState]
    BY <1>9, RereadIs, LeavesIs
  <2>. QED
    BY <1>9, <2>1 DEF Reread, TypeOK
<1>10. CASE \E r \in Runs : Write(r)
  <2>1. run' \in [Runs -> RunState] /\ file' \in FileState
    BY <1>10, WriteIs, LeavesIs
  <2>. QED
    BY <1>10, <2>1 DEF Write, TypeOK
<1>11. CASE \E r \in Runs : WriteDies(r)
  <2>1. run' \in [Runs -> RunState] /\ file' \in FileState
    BY <1>11, WriteDiesIs, LeavesIs
  <2>. QED
    BY <1>11, <2>1 DEF WriteDies, TypeOK
<1>12. CASE \E r \in Runs : Killed(r)
  <2>1. run' \in [Runs -> RunState]
    BY <1>12, LeavesIs DEF Killed
  <2>. QED
    BY <1>12, <2>1 DEF Killed, TypeOK
<1>13. CASE UNCHANGED vars
  BY <1>13 DEF vars, TypeOK
<1>. QED
  BY <1>1, <1>2, <1>3, <1>4, <1>5, <1>6, <1>7, <1>8, <1>9, <1>10, <1>11, <1>12, <1>13 DEF Next

-----------------------------------------------------------------------------
(* What a run gathers.                                                     *)

GatheredBy(r) ==
    /\ \A s \in Sports : \A x \in run[r].part[s].seen : SportOf[EventOf[x[2]]] = s
    /\ \A x \in run[r].got : run[r].part[SportOf[x.event]].step = "done"
    /\ Distinct(run[r].got)
    /\ run[r].fresh \subseteq run[r].got

LEMMA GatheredOne == Gathered <=> \A r \in Runs : GatheredBy(r)
  BY DEF Gathered, GatheredBy, Part

LEMMA OneStep ==
  ASSUME \A q \in Runs : GatheredBy(q), NEW r \in Runs,
         \A q \in Runs \ {r} : run'[q] = run[q], GatheredBy(r)'
  PROVE  \A q \in Runs : GatheredBy(q)'
  BY DEF GatheredBy

LEMMA NothingYet ==
  ASSUME NEW r \in Runs, run'[r].got = {}, run'[r].fresh = {},
         \A k \in Sports : run'[r].part[k].seen = {}
  PROVE  GatheredBy(r)'
  BY DEF GatheredBy, Distinct

LEMMA EventsOfRows == ASSUME TypeOK, NEW r \in Runs
  PROVE \A x \in run[r].got : SportOf[x.event] \in Sports
  BY RunIs, Data DEF RunState, RowType

\* A sport that is not done yet has given no rows.
LEMMA BecomesGathers ==
  ASSUME TypeOK, NEW r \in Runs, GatheredBy(r), NEW s \in Sports, NEW p \in PartState,
         NEW clean \in BOOLEAN, Becomes(r, s, p, clean), run[r].part[s].step # "done",
         \A x \in p.seen : SportOf[EventOf[x[2]]] = s
  PROVE  GatheredBy(r)'
<1>1. run'[r].got = run[r].got /\ run'[r].fresh = run[r].fresh
  BY BecomesKeeps DEF Unmoved
<1>2. \A k \in Sports : run'[r].part[k] = IF k = s THEN p ELSE run[r].part[k]
  BY BecomesKeeps
<1>3. \A x \in run[r].got : SportOf[x.event] \in Sports /\ SportOf[x.event] # s
  BY EventsOfRows DEF GatheredBy
<1>. QED
  BY <1>1, <1>2, <1>3 DEF GatheredBy

LEMMA CollectedGathers ==
  ASSUME TypeOK, NEW r \in Runs, GatheredBy(r), NEW s \in Sports, NEW rows \in SUBSET RowType,
         NEW clean \in BOOLEAN, Collected(r, s, rows, clean), run[r].part[s].step # "done",
         Distinct(rows), \A x \in rows : SportOf[x.event] = s
  PROVE  GatheredBy(r)'
<1>1. run'[r].got = run[r].got \cup rows /\ run'[r].fresh = run[r].fresh
  BY CollectedKeeps
<1>2. \A k \in Sports : run'[r].part[k] = IF k = s THEN [NotBegun EXCEPT !.step = "done"]
                                           ELSE run[r].part[k]
  BY CollectedKeeps
<1>3. [NotBegun EXCEPT !.step = "done"].step = "done" /\ [NotBegun EXCEPT !.step = "done"].seen = {}
  BY DEF NotBegun
<1>4. \A x \in run[r].got : SportOf[x.event] \in Sports /\ SportOf[x.event] # s
  BY EventsOfRows DEF GatheredBy
<1>5. Distinct(run[r].got \cup rows)
  BY <1>4 DEF GatheredBy, Distinct
<1>6. \A k \in Sports : \A x \in run'[r].part[k].seen : SportOf[EventOf[x[2]]] = k
  BY <1>2, <1>3 DEF GatheredBy
<1>7. \A x \in run'[r].got : run'[r].part[SportOf[x.event]].step = "done"
  BY <1>1, <1>2, <1>3, <1>4 DEF GatheredBy
<1>. QED
  BY <1>1, <1>5, <1>6, <1>7 DEF GatheredBy

LEMMA GatheredStep == TypeOK /\ Gathered /\ [Next]_vars => Gathered'
<1>. SUFFICES ASSUME TypeOK, \A r \in Runs : GatheredBy(r), [Next]_vars
              PROVE  \A r \in Runs : GatheredBy(r)'
  <2>1. Gathered' <=> \A r \in Runs : GatheredBy(r)'
    BY DEF Gathered, GatheredBy, Part
  <2>. QED
    BY <2>1, GatheredOne
<1>1. CASE (\E m \in Markets : Settle(m)) \/ UNCHANGED vars
  BY <1>1 DEF Settle, vars, GatheredBy
<1>2. CASE \E m \in Markets : Archive(m)
  BY <1>2, ArchiveKeeps DEF Unmoved, GatheredBy
<1>3. CASE \E r \in Runs : Begin(r)
  <2>1. PICK r \in Runs : Begin(r)
    BY <1>3
  <2>. QED
    BY <2>1, BeginIs, NothingYet, OneStep
<1>4. CASE \E r \in Runs, s \in Sports, src \in Endpoints : List(r, s, src)
  <2>1. PICK r \in Runs, s \in Sports, src \in Endpoints : List(r, s, src)
    BY <1>4
  <2>2. PICK p \in PartState, clean \in BOOLEAN :
            /\ Becomes(r, s, p, clean) /\ p.step = "list"
            /\ p.seen \subseteq Part(r, s).seen \cup Listing(s, src)
    BY <2>1, ListIs
  <2>3. \A x \in p.seen : SportOf[EventOf[x[2]]] = s
    BY <2>2, Listed DEF GatheredBy, Part
  <2>4. run[r].part[s].step # "done"
    BY <2>1 DEF List, Working, Part
  <2>5. GatheredBy(r)'
    BY <2>2, <2>3, <2>4, BecomesGathers
  <2>. QED
    BY <2>2, <2>5, BecomesKeeps, OneStep
<1>5. CASE \E r \in Runs, s \in Sports : Fetch(r, s)
  <2>1. PICK r \in Runs, s \in Sports : Fetch(r, s)
    BY <1>5
  <2>2. PICK p \in PartState, clean \in BOOLEAN :
            /\ Becomes(r, s, p, clean) /\ p.step = "rows" /\ p.seen = Part(r, s).seen
    BY <2>1, FetchIs
  <2>3. \A x \in p.seen : SportOf[EventOf[x[2]]] = s
    BY <2>2 DEF GatheredBy, Part
  <2>4. run[r].part[s].step # "done"
    BY <2>1 DEF Fetch, Working, Part
  <2>5. GatheredBy(r)'
    BY <2>2, <2>3, <2>4, BecomesGathers
  <2>. QED
    BY <2>2, <2>5, BecomesKeeps, OneStep
<1>6. CASE \E r \in Runs, s \in Sports : Collect(r, s)
  <2>1. PICK r \in Runs, s \in Sports : Collect(r, s)
    BY <1>6
  <2>2. PICK rows \in SUBSET RowType, clean \in BOOLEAN :
            /\ Collected(r, s, rows, clean) /\ Distinct(rows)
            /\ \A x \in rows : \E y \in Part(r, s).seen : x.event = EventOf[y[2]]
    BY <2>1, CollectIs
  <2>3. \A x \in rows : SportOf[x.event] = s
    BY <2>2 DEF GatheredBy, Part
  <2>4. run[r].part[s].step # "done"
    BY <2>1 DEF Collect, Working, Part
  <2>5. GatheredBy(r)'
    BY <2>2, <2>3, <2>4, CollectedGathers
  <2>. QED
    BY <2>2, <2>5, CollectedKeeps, OneStep
<1>7. CASE \E r \in Runs, s \in Sports : SportFails(r, s)
  <2>1. PICK r \in Runs, s \in Sports : SportFails(r, s)
    BY <1>7
  <2>2. Collected(r, s, {}, FALSE) /\ run[r].part[s].step # "done"
    BY <2>1 DEF SportFails, Working, Part
  <2>3. Distinct({}) /\ \A x \in {} : SportOf[x.event] = s
    BY DEF Distinct
  <2>4. GatheredBy(r)'
    BY <2>2, <2>3, CollectedGathers, {} \in SUBSET RowType, FALSE \in BOOLEAN
  <2>. QED
    BY <2>2, <2>4, CollectedKeeps, OneStep
<1>8. CASE \E r \in Runs : LookAtFile(r)
  <2>1. PICK r \in Runs : LookAtFile(r)
    BY <1>8
  <2>2. CASE \E at, due : Leaves(r, at, due)
    BY <2>2, LeavesKeeps, NothingYet, OneStep
  <2>3. CASE Appends(r, "reread") /\ run'[r].fresh = run[r].fresh
    BY <2>3, OneStep DEF Appends, GatheredBy
  <2>. QED
    BY <2>1, <2>2, <2>3, LookAtFileIs
<1>9. CASE \E r \in Runs : Reread(r)
  <2>1. PICK r \in Runs : Reread(r)
    BY <1>9
  <2>2. CASE \E at, due : Leaves(r, at, due)
    BY <2>2, LeavesKeeps, NothingYet, OneStep
  <2>3. CASE Appends(r, "write") /\ run'[r].fresh = Fresh(run[r].got)
    BY <2>3, OneStep DEF Appends, GatheredBy, Fresh
  <2>. QED
    BY <2>1, <2>2, <2>3, RereadIs
<1>10. CASE \E r \in Runs : Write(r) \/ WriteDies(r) \/ Killed(r)
  <2>1. PICK r \in Runs : \E at, due : Leaves(r, at, due)
    BY <1>10 DEF Write, WriteDies, Killed
  <2>. QED
    BY <2>1, LeavesKeeps, NothingYet, OneStep
<1>. QED
  BY <1>1, <1>2, <1>3, <1>4, <1>5, <1>6, <1>7, <1>8, <1>9, <1>10 DEF Next

-----------------------------------------------------------------------------
(* What a run knows of the file.                                           *)

\* Only an append looks at the file: runs that are not in one do not matter, nor does a
\* run that leaves.
LEMMA QuietStep ==
  ASSUME Current, UNCHANGED file, clash = clash',
         \A r \in Runs : InAppend(r)' => /\ run'[r].at = run[r].at /\ run'[r].made = run[r].made
                                         /\ run'[r].fresh = run[r].fresh
  PROVE  Current'
<1>1. \A r \in Runs : InAppend(r)' => InAppend(r)
  BY DEF InAppend
<1>2. file'.head = file.head /\ file'.rows = file.rows /\ Keys' = Keys
  BY DEF Keys
<1>3. \A r \in Runs : run'[r].at = "write" => run[r].at = "write" /\ run'[r].fresh = run[r].fresh
  BY DEF InAppend
<1>. QED
  BY <1>1, <1>2, <1>3 DEF Current

LEMMA Leaving ==
  ASSUME TypeOK, NEW r \in Runs, NEW at \in {"done", "failed"}, NEW due, Leaves(r, at, due)
  PROVE  ~InAppend(r)' /\ \A q \in Runs \ {r} : run'[q] = run[q]
  BY LeavesKeeps DEF InAppend

\* The write of a run that was alone in append_rows.
LEMMA Lands ==
  ASSUME TypeOK, Current, ~clash, NEW r \in Runs, run[r].at = "write", NEW rows, Adds(r, rows)
  PROVE  Distinct(file'.rows) /\ file.rows \subseteq file'.rows
<1>1. Kept(r) = file.rows
  BY DEF Kept, Current, InAppend
<1>2. Distinct(file.rows) /\ EventsIn(run[r].fresh) \cap Keys = {}
  BY DEF Current
<1>3. \A x \in file.rows, y \in rows : x.event # y.event
  BY <1>2 DEF Adds, EventsIn, Keys
<1>4. Distinct(rows) /\ file'.rows = file.rows \cup rows
  BY <1>1 DEF Adds
<1>. QED
  BY <1>2, <1>3, <1>4 DEF Distinct

LEMMA WriteStep ==
  ASSUME TypeOK, Gathered, Current, NEW r \in Runs, Write(r) \/ WriteDies(r)
  PROVE  Current' /\ (~clash' => file.rows \subseteq file'.rows)
<1>1. run[r].at = "write" /\ clash' = clash
  BY DEF Write, WriteDies
<1>2. ~InAppend(r)' /\ \A q \in Runs \ {r} : run'[q] = run[q]
  BY WriteIs, WriteDiesIs, Leaving
<1>3. CASE ~run[r].made /\ file'.head = "cut" /\ file'.rows = {}
  BY <1>1, <1>2, <1>3 DEF Current, InAppend, Distinct
<1>4. CASE \E rows : Adds(r, rows)
  <2>1. file'.head = "ok"
    BY <1>4 DEF Adds
  <2>2. ~clash => Distinct(file'.rows) /\ file.rows \subseteq file'.rows
    BY <1>1, <1>4, Lands
  <2>3. ~clash => \A q \in Runs : ~InAppend(q)'
    BY <1>1, <1>2 DEF Current, InAppend
  <2>. QED
    BY <1>1, <2>1, <2>2, <2>3 DEF Current, InAppend
<1>. QED
  BY <1>3, <1>4, WriteIs, WriteDiesIs

LEMMA LookStep ==
  ASSUME TypeOK, Current, NEW r \in Runs, LookAtFile(r)
  PROVE  Current'
<1>1. UNCHANGED file
  BY DEF LookAtFile
<1>2. CASE clash' = clash /\ \E at \in {"done", "failed"} : \E due : Leaves(r, at, due)
  BY <1>1, <1>2, Leaving, QuietStep
<1>3. CASE /\ Appends(r, "reread") /\ run'[r].made = (file.head # "none")
           /\ clash' = (clash \/ \E q \in Runs \ {r} : InAppend(q))
  <2>1. run'[r].at = "reread" /\ \A q \in Runs \ {r} : run'[q] = run[q]
    BY <1>3 DEF Appends
  <2>2. file'.head = file.head /\ file'.rows = file.rows /\ Keys' = Keys
    BY <1>1 DEF Keys
  <2>3. ~clash' => ~clash /\ \A q \in Runs \ {r} : ~InAppend(q)'
    BY <1>3, <2>1 DEF InAppend
  <2>. QED
    BY <1>3, <2>1, <2>2, <2>3 DEF Current, InAppend
<1>. QED
  BY <1>2, <1>3, LookAtFileIs

LEMMA RereadStep ==
  ASSUME TypeOK, Current, NEW r \in Runs, Reread(r)
  PROVE  Current'
<1>1. file' = file /\ clash' = clash /\ run[r].at = "reread"
  BY DEF Reread
<1>2. CASE \E due : Leaves(r, "done", due)
  BY <1>1, <1>2, Leaving, QuietStep
<1>3. CASE Appends(r, "write") /\ run'[r].made = run[r].made /\ run'[r].fresh = Fresh(run[r].got)
  <2>1. run'[r].at = "write" /\ \A q \in Runs \ {r} : run'[q] = run[q]
    BY <1>3 DEF Appends
  <2>2. file'.head = file.head /\ file'.rows = file.rows /\ Keys' = Keys
    BY <1>1 DEF Keys
  <2>3. EventsIn(run'[r].fresh) \cap Keys = {}
    BY <1>3 DEF Fresh, EventsIn
  <2>. QED
    BY <1>1, <1>3, <2>1, <2>2, <2>3 DEF Current, InAppend
<1>. QED
  BY <1>2, <1>3, RereadIs

LEMMA CurrentStep ==
  ASSUME TypeOK, Gathered, Current, [Next]_vars
  PROVE  Current' /\ (~clash' => file.rows \subseteq file'.rows)
<1>1. CASE (\E m \in Markets : Settle(m)) \/ UNCHANGED vars
  BY <1>1, QuietStep DEF Settle, vars, InAppend
<1>2. CASE \E m \in Markets : Archive(m)
  <2>1. UNCHANGED file /\ clash = clash'
    BY <1>2 DEF Archive
  <2>. QED
    BY <1>2, <2>1, ArchiveKeeps, QuietStep DEF Unmoved
<1>3. CASE \E r \in Runs : Begin(r)
  <2>1. UNCHANGED file /\ clash = clash'
    BY <1>3 DEF Begin
  <2>2. PICK r \in Runs : run'[r].at = "build" /\ \A q \in Runs \ {r} : run'[q] = run[q]
    BY <1>3, BeginIs
  <2>. QED
    BY <2>1, <2>2, QuietStep DEF InAppend
<1>4. CASE \E r \in Runs, s \in Sports, src \in Endpoints : List(r, s, src)
  <2>1. UNCHANGED file /\ clash = clash'
    BY <1>4 DEF List
  <2>2. Unmoved
    BY <1>4, ListIs, BecomesKeeps
  <2>. QED
    BY <2>1, <2>2, QuietStep DEF Unmoved
<1>5. CASE \E r \in Runs, s \in Sports : Fetch(r, s)
  <2>1. UNCHANGED file /\ clash = clash'
    BY <1>5 DEF Fetch
  <2>2. Unmoved
    BY <1>5, FetchIs, BecomesKeeps
  <2>. QED
    BY <2>1, <2>2, QuietStep DEF Unmoved
<1>6. CASE \E r \in Runs, s \in Sports : Collect(r, s) \/ SportFails(r, s)
  <2>1. UNCHANGED file /\ clash = clash'
    BY <1>6 DEF Collect, SportFails
  <2>2. PICK r \in Runs, s \in Sports : \E rows \in SUBSET RowType, clean \in BOOLEAN : Collected(r, s, rows, clean)
    <3>1. {} \in SUBSET RowType /\ FALSE \in BOOLEAN
      OBVIOUS
    <3>. QED
      BY <1>6, <3>1, CollectIs DEF SportFails
  <2>3. run'[r].at \in {"append", "build"} /\ \A q \in Runs \ {r} : run'[q] = run[q]
    BY <2>2, CollectedKeeps
  <2>. QED
    BY <2>1, <2>3, QuietStep DEF InAppend
<1>7. CASE \E r \in Runs : LookAtFile(r) \/ Reread(r)
  <2>1. file' = file
    BY <1>7 DEF LookAtFile, Reread
  <2>. QED
    BY <1>7, <2>1, LookStep, RereadStep
<1>8. CASE \E r \in Runs : Write(r) \/ WriteDies(r)
  BY <1>8, WriteStep
<1>9. CASE \E r \in Runs : Killed(r)
  <2>1. UNCHANGED file /\ clash = clash'
    BY <1>9 DEF Killed
  <2>2. PICK r \in Runs : Leaves(r, "failed", {})
    BY <1>9 DEF Killed
  <2>. QED
    BY <2>1, <2>2, Leaving, QuietStep
<1>. QED
  BY <1>1, <1>2, <1>3, <1>4, <1>5, <1>6, <1>7, <1>8, <1>9 DEF Next

-----------------------------------------------------------------------------
(* What a row says.                                                        *)

Good(x) ==
    x.whole /\ ~x.torn =>
        /\ x.start = Start[x.event] /\ EventOf[x.fav] = x.event
        /\ \A m \in MarketsOf[x.event] : x.entry >= AverageAsk[m][Start[x.event]]
        /\ x.pnl = (IF x.fav \in Wins THEN 100 ELSE 0) - x.entry

AllGood(rows) == \A x \in rows : Good(x)

Honest == AllGood(file.rows) /\ \A r \in Runs : AllGood(run[r].got)

LEMMA PairIs ==
  ASSUME NEW p, NEW e \in Events
  PROVE  /\ Pair(p, e) \subseteq MarketsOf[e]
         /\ Paired(p, e) <=> Pair(p, e) = MarketsOf[e]
<1>1. Pair(p, e) \subseteq MarketsOf[e]
  BY DEF Pair, MarketsOf
<1>. QED
  BY <1>1, BothMarkets DEF Paired

\* process_event: what it returns about an event is about the event's own game.
LEMMA RowsAreGood ==
  ASSUME NEW r, NEW s, NEW e \in Events
  PROVE  AllGood(RowsFor(r, s, e))
<1>. DEFINE pair == Pair(Part(r, s), e)
            row(g, m) ==
              [event |-> e, start |-> Start[g], fav |-> m, entry |-> AverageAsk[m][Start[g]],
               pnl |-> Pnl(m, AverageAsk[m][Start[g]]), by |-> r, torn |-> FALSE,
               whole |-> Twins[e] \subseteq NewOnes(r, s) \cap Part(r, s).games]
<1>. SUFFICES ASSUME NEW x \in RowsFor(r, s, e), x.whole PROVE Good(x)
  BY DEF AllGood, Good
<1>1. Paired(Part(r, s), e)
  BY DEF RowsFor
<1>2. pair = MarketsOf[e] /\ MarketsOf[e] \subseteq Markets
  BY <1>1, PairIs DEF MarketsOf
<1>3. PICK g \in {h \in GameFor(r, s, e) : Priced(pair, Start[h])} :
          x \in {row(g, m) : m \in Favourites(pair, Start[g])}
  BY DEF RowsFor
<1>. HIDE DEF row
<1>4. PICK m \in Favourites(pair, Start[g]) : x = row(g, m)
  BY <1>3
<1>5. /\ x.event = e /\ x.start = Start[g] /\ x.fav = m /\ x.entry = AverageAsk[m][Start[g]]
      /\ x.pnl = Pnl(m, x.entry)
      /\ x.whole = (Twins[e] \subseteq NewOnes(r, s) \cap Part(r, s).games)
  BY <1>4 DEF row
<1>6. g = e
  <2>1. Twins[e] \subseteq NewOnes(r, s) \cap Part(r, s).games
    BY <1>5
  <2>2. GameFor(r, s, e) = {e}
    BY <2>1, GameForIs
  <2>. QED
    BY <1>3, <2>2
<1>7. m \in MarketsOf[e] /\ \A n \in MarketsOf[e] : AverageAsk[m][Start[e]] >= AverageAsk[n][Start[e]]
  BY <1>2, <1>4, <1>6 DEF Favourites
<1>8. m \in Markets /\ EventOf[m] = e
  BY <1>7 DEF MarketsOf
<1>9. x.entry \in Int
  BY <1>5, <1>6, <1>8, AveragesAreCents, Data
<1>10. x.pnl = (IF m \in Wins THEN 100 ELSE 0) - x.entry
  BY <1>5, <1>9 DEF Pnl
<1>. QED
  BY <1>5, <1>6, <1>7, <1>8, <1>10 DEF Good

LEMMA LandedIsGood ==
  ASSUME NEW r, NEW given \in SUBSET RowType, AllGood(given), NEW rows \in Landed(r, given)
  PROVE  AllGood(rows)
<1>1. CASE rows = given
  BY <1>1
<1>2. CASE rows # given
  <2>1. PICK x \in given :
          rows = (given \ {x}) \cup (IF file.tail = "stub" THEN {[x EXCEPT !.torn = TRUE]} ELSE {})
    BY <1>2 DEF Landed
  <2>. DEFINE y == [x EXCEPT !.torn = TRUE]
  <2>2. y.torn = TRUE
    BY DEF RowType
  <2>. HIDE DEF y
  <2>3. rows \subseteq given \cup {y}
    BY <2>1 DEF y
  <2>. QED
    BY <2>2, <2>3 DEF AllGood, Good
<1>. QED
  BY <1>1, <1>2

LEMMA WrittenIsGood ==
  ASSUME TypeOK, Gathered, Honest, NEW r \in Runs, Write(r) \/ WriteDies(r)
  PROVE  AllGood(file'.rows)
<1>1. AllGood(Kept(r)) /\ AllGood(run[r].fresh) /\ run[r].fresh \subseteq RowType
  BY KeptIs DEF Honest, AllGood, Kept, Gathered
<1>2. CASE Write(r)
  <2>1. PICK rows \in Landed(r, run[r].fresh) :
          file' = [head |-> "ok", rows |-> Kept(r) \cup rows, tail |-> "whole"]
    BY <1>2 DEF Write
  <2>2. AllGood(rows)
    BY <1>1, LandedIsGood
  <2>. QED
    BY <1>1, <2>1, <2>2 DEF AllGood
<1>3. CASE file' = [head |-> "cut", rows |-> {}, tail |-> "whole"]
  BY <1>3 DEF AllGood
<1>4. CASE \E some \in SUBSET run[r].fresh : \E x \in run[r].fresh \ some, cut \in {"whole", "cut", "stub"} :
            \E rows \in Landed(r, some \cup IF cut = "cut" THEN {[x EXCEPT !.torn = TRUE]} ELSE {}) :
                file' = [head |-> "ok", rows |-> Kept(r) \cup rows, tail |-> cut]
  <2>0. PICK some \in SUBSET run[r].fresh : \E x \in run[r].fresh \ some, cut \in {"whole", "cut", "stub"} :
            \E rows \in Landed(r, some \cup IF cut = "cut" THEN {[x EXCEPT !.torn = TRUE]} ELSE {}) :
                file' = [head |-> "ok", rows |-> Kept(r) \cup rows, tail |-> cut]
    BY <1>4
  <2>1. PICK x \in run[r].fresh \ some, cut \in {"whole", "cut", "stub"} :
            \E rows \in Landed(r, some \cup IF cut = "cut" THEN {[x EXCEPT !.torn = TRUE]} ELSE {}) :
                file' = [head |-> "ok", rows |-> Kept(r) \cup rows, tail |-> cut]
    BY <2>0
  <2>. DEFINE y == [x EXCEPT !.torn = TRUE]
              given == some \cup IF cut = "cut" THEN {y} ELSE {}
  <2>2. PICK rows \in Landed(r, given) :
            file' = [head |-> "ok", rows |-> Kept(r) \cup rows, tail |-> cut]
    BY <2>1
  <2>3. y \in RowType /\ y.torn = TRUE
    <3>1. x \in RowType
      BY <1>1
    <3>2. y \in RowType
      BY <3>1, TornIs
    <3>3. y.torn = TRUE
      BY <3>1 DEF RowType
    <3>. QED
      BY <3>2, <3>3
  <2>. HIDE DEF y
  <2>4. given \in SUBSET RowType /\ given \subseteq some \cup {y}
    BY <1>1, <2>3
  <2>. HIDE DEF given
  <2>5. AllGood(given)
    BY <1>1, <2>3, <2>4 DEF AllGood, Good
  <2>6. AllGood(rows)
    BY <2>4, <2>5, LandedIsGood
  <2>. QED
    BY <1>1, <2>2, <2>6 DEF AllGood
<1>. QED
  BY <1>2, <1>3, <1>4 DEF WriteDies

\* A run that gathers only good rows keeps every row good.
LEMMA HonestGot ==
  ASSUME Honest, AllGood(file'.rows),
         \A r \in Runs : AllGood(run'[r].got)
  PROVE  Honest'
  BY DEF Honest, AllGood, Good

LEMMA QuietIsHonest ==
  ASSUME Honest, file' = file,
         \A r \in Runs : run'[r].got = run[r].got \/ run'[r].got = {} \/ run'[r] = run[r]
  PROVE  Honest'
<1>1. \A r \in Runs : AllGood(run'[r].got)
  BY DEF Honest, AllGood
<1>2. AllGood(file'.rows)
  BY DEF Honest
<1>. QED
  BY <1>1, <1>2, HonestGot

\* build_dataset_for_sport: what a sport of a run returns, and what it cannot miss unless a
\* call fails.
LEMMA CollectFinds ==
  ASSUME TypeOK, NEW r \in Runs, NEW s \in Sports, Collect(r, s)
  PROVE  \E rows \in SUBSET RowType, clean \in BOOLEAN :
            /\ Collected(r, s, rows, clean) /\ AllGood(rows)
            /\ clean => \A e \in NewOnes(r, s) : RowsFor(r, s, e) # {} => e \in EventsIn(rows)
<1>1. PICK lost \in Unpriced(r, s) :
        \E rows \in SUBSET UNION {RowsFor(r, s, e) : e \in NewOnes(r, s) \ lost} :
            /\ \A x \in UNION {RowsFor(r, s, e) : e \in NewOnes(r, s) \ lost} :
                \E y \in rows : {z \in rows : z.event = x.event} = {y}
            /\ Collected(r, s, rows, lost = {})
  BY DEF Collect
<1>. DEFINE all == UNION {RowsFor(r, s, e) : e \in NewOnes(r, s) \ lost}
<1>2. PICK rows \in SUBSET all :
        /\ \A x \in all : \E y \in rows : {z \in rows : z.event = x.event} = {y}
        /\ Collected(r, s, rows, lost = {})
  BY <1>1
<1>3. NewOnes(r, s) \subseteq Events
  <2>1. \A y \in Part(r, s).seen : y[2] \in Markets
    BY RunIs DEF PartState
  <2>. QED
    BY <2>1, Data DEF NewOnes
<1>4. \A e \in NewOnes(r, s) : /\ RowsFor(r, s, e) \subseteq RowType
                               /\ \A x \in RowsFor(r, s, e) : Good(x) /\ x.event = e
  BY <1>3, RowsAre, RowsAreGood DEF AllGood
<1>5. all \subseteq RowType /\ \A x \in all : Good(x)
  BY <1>4
<1>6. ASSUME lost = {}, NEW e \in NewOnes(r, s), RowsFor(r, s, e) # {}
      PROVE  e \in EventsIn(rows)
  <2>1. PICK x : x \in RowsFor(r, s, e)
    BY <1>6
  <2>2. x \in all /\ x.event = e
    BY <1>4, <1>6, <2>1
  <2>. HIDE DEF all
  <2>3. PICK y \in rows : {z \in rows : z.event = x.event} = {y}
    BY <1>2, <2>2
  <2>4. y.event = e
    BY <2>2, <2>3
  <2>. QED
    BY <2>3, <2>4 DEF EventsIn
<1>. HIDE DEF all
<1>7. rows \in SUBSET RowType /\ (lost = {}) \in BOOLEAN /\ AllGood(rows)
  BY <1>2, <1>5 DEF AllGood
<1>. QED
  BY <1>2, <1>6, <1>7

LEMMA HonestStep == TypeOK /\ Gathered /\ Honest /\ [Next]_vars => Honest'
<1>. SUFFICES ASSUME TypeOK, Gathered, Honest, [Next]_vars PROVE Honest'
  OBVIOUS
<1>1. CASE (\E m \in Markets : Settle(m)) \/ UNCHANGED vars
  BY <1>1, QuietIsHonest DEF Settle, vars
<1>2. CASE \E m \in Markets : Archive(m)
  <2>1. file' = file /\ Unmoved
    BY <1>2, ArchiveKeeps DEF Archive
  <2>. QED
    BY <2>1, QuietIsHonest DEF Unmoved
<1>3. CASE \E r \in Runs : Begin(r)
  <2>1. file' = file
    BY <1>3 DEF Begin
  <2>. QED
    BY <1>3, <2>1, BeginIs, QuietIsHonest
<1>4. CASE \E r \in Runs, s \in Sports, src \in Endpoints : List(r, s, src)
  <2>1. file' = file
    BY <1>4 DEF List
  <2>2. Unmoved
    BY <1>4, ListIs, BecomesKeeps
  <2>. QED
    BY <2>1, <2>2, QuietIsHonest DEF Unmoved
<1>5. CASE \E r \in Runs, s \in Sports : Fetch(r, s)
  <2>1. file' = file
    BY <1>5 DEF Fetch
  <2>2. Unmoved
    BY <1>5, FetchIs, BecomesKeeps
  <2>. QED
    BY <2>1, <2>2, QuietIsHonest DEF Unmoved
<1>6. CASE \E r \in Runs, s \in Sports : Collect(r, s) \/ SportFails(r, s)
  <2>1. PICK r \in Runs, s \in Sports : Collect(r, s) \/ SportFails(r, s)
    BY <1>6
  <2>2. \E rows \in SUBSET RowType, clean \in BOOLEAN :
            Collected(r, s, rows, clean) /\ AllGood(rows)
    <3>1. {} \in SUBSET RowType /\ FALSE \in BOOLEAN /\ AllGood({})
      BY DEF AllGood
    <3>. QED
      BY <2>1, <3>1, CollectFinds DEF SportFails
  <2>3. PICK rows \in SUBSET RowType, clean \in BOOLEAN :
            Collected(r, s, rows, clean) /\ AllGood(rows)
    BY <2>2
  <2>4. run'[r].got = run[r].got \cup rows /\ \A q \in Runs \ {r} : run'[q] = run[q]
    BY <2>3, CollectedKeeps
  <2>5. \A q \in Runs : AllGood(run'[q].got)
    BY <2>3, <2>4 DEF Honest, AllGood
  <2>6. AllGood(file'.rows)
    BY <2>1 DEF Collect, SportFails, Honest
  <2>. QED
    BY <2>5, <2>6, HonestGot
<1>7. CASE \E r \in Runs : LookAtFile(r)
  <2>1. PICK r \in Runs : LookAtFile(r)
    BY <1>7
  <2>2. file' = file
    BY <2>1 DEF LookAtFile
  <2>3. CASE \E at, due : Leaves(r, at, due)
    BY <2>2, <2>3, LeavesKeeps, QuietIsHonest
  <2>4. CASE Appends(r, "reread")
    BY <2>2, <2>4, QuietIsHonest DEF Appends
  <2>. QED
    BY <2>1, <2>3, <2>4, LookAtFileIs
<1>8. CASE \E r \in Runs : Reread(r)
  <2>1. PICK r \in Runs : Reread(r)
    BY <1>8
  <2>2. file' = file
    BY <2>1 DEF Reread
  <2>3. CASE \E at, due : Leaves(r, at, due)
    BY <2>2, <2>3, LeavesKeeps, QuietIsHonest
  <2>4. CASE Appends(r, "write")
    BY <2>2, <2>4, QuietIsHonest DEF Appends
  <2>. QED
    BY <2>1, <2>3, <2>4, RereadIs
<1>9. CASE \E r \in Runs : Write(r) \/ WriteDies(r)
  <2>1. PICK r \in Runs : Write(r) \/ WriteDies(r)
    BY <1>9
  <2>2. \E at, due : Leaves(r, at, due)
    BY <2>1 DEF Write, WriteDies
  <2>3. \A q \in Runs : AllGood(run'[q].got)
    BY <2>2, LeavesKeeps DEF Honest, AllGood
  <2>. QED
    BY <2>1, <2>3, WrittenIsGood, HonestGot
<1>10. CASE \E r \in Runs : Killed(r)
  <2>1. PICK r \in Runs : Killed(r)
    BY <1>10
  <2>2. file' = file /\ \E at, due : Leaves(r, at, due)
    BY <2>1 DEF Killed
  <2>. QED
    BY <2>2, LeavesKeeps, QuietIsHonest
<1>. QED
  BY <1>1, <1>2, <1>3, <1>4, <1>5, <1>6, <1>7, <1>8, <1>9, <1>10 DEF Next

-----------------------------------------------------------------------------
(* What a run is still to find.                                            *)

\* An event of a sport that is listed, has its schedule fetched, or is done: nothing of it
\* has been missed.
Onto(p, e, rows, at) ==
    /\ p.step = "list" => \A m \in MarketsOf[e] : at[m] \in p.asked => <<at[m], m>> \in p.seen
    /\ p.step = "rows" => /\ \A m \in MarketsOf[e] : <<at[m], m>> \in p.seen
                          /\ Twins[e] \subseteq p.games
    /\ p.step = "done" => e \in EventsIn(rows)

\* A doubleheader is awaited whole, if at all, and the markets of what is awaited stay where
\* they are.
Steady(due) ==
    \A e \in due : Twins[e] \subseteq due /\ Settled(e) /\ Priced(MarketsOf[e], Start[e])

Awaited(r) ==
    /\ Steady(run[r].due)
    /\ run[r].at = "off" => run[r].due = {}
    /\ run[r].at = "build" =>
        \A e \in run[r].due : /\ e \notin run[r].known
                              /\ Onto(run[r].part[SportOf[e]], e, run[r].got, place)
    /\ run[r].at \in {"append", "reread"} => run[r].due \subseteq EventsIn(run[r].got)
    /\ ~clash => /\ run[r].at = "write" => run[r].due \subseteq Keys \cup EventsIn(run[r].fresh)
                 /\ run[r].at = "done" => run[r].due \subseteq Keys

Complete == \A r \in Runs : Awaited(r)

LEMMA DueAre == ASSUME TypeOK, NEW r \in Runs PROVE run[r].due \subseteq Events
  BY RunIs DEF RunState

LEMMA PlacesAre ==
  ASSUME TypeOK, NEW e \in Events, Settled(e), NEW m \in MarketsOf[e]
  PROVE  m \in Markets /\ EventOf[m] = e /\ place[m] \in Endpoints
  BY DEF Settled, MarketsOf, TypeOK

\* A run that nothing is awaited of; a run that does nothing while the file only grows.
LEMMA NothingAwaited == ASSUME NEW r, run'[r].due = {} PROVE Awaited(r)'
  BY DEF Awaited, Steady

FileGrows == ~clash' => ~clash /\ Keys \subseteq Keys'

LEMMA StaysAwaited ==
  ASSUME NEW r, Awaited(r), run'[r] = run[r], place' = place, FileGrows
  PROVE  Awaited(r)'
<1>1. Steady(run[r].due)'
  BY DEF Awaited, Steady, Settled
<1>. QED
  BY <1>1 DEF Awaited, FileGrows

LEMMA OthersStay ==
  ASSUME Complete, NEW r \in Runs, \A q \in Runs \ {r} : run'[q] = run[q],
         place' = place, FileGrows, Awaited(r)'
  PROVE  Complete'
  BY StaysAwaited DEF Complete

LEMMA Grows ==
  ASSUME TypeOK, Gathered, Current, [Next]_vars
  PROVE  FileGrows
<1>1. ~clash' => file.rows \subseteq file'.rows
  BY CurrentStep
<1>2. ~clash' => ~clash
  <2>1. clash' = clash \/ \E r \in Runs : LookAtFile(r)
    <3>1. \A m \in Markets : Settle(m) \/ Archive(m) => clash' = clash
      BY DEF Settle, Archive
    <3>2. \A r \in Runs : Begin(r) \/ Reread(r) \/ Write(r) \/ WriteDies(r) \/ Killed(r) => clash' = clash
      BY DEF Begin, Reread, Write, WriteDies, Killed
    <3>3. \A r \in Runs, s \in Sports, src \in Endpoints : List(r, s, src) => clash' = clash
      BY DEF List
    <3>4. \A r \in Runs, s \in Sports : Fetch(r, s) => clash' = clash
      BY DEF Fetch
    <3>5. \A r \in Runs, s \in Sports : Collect(r, s) => clash' = clash
      BY DEF Collect
    <3>6. \A r \in Runs, s \in Sports : SportFails(r, s) => clash' = clash
      BY DEF SportFails
    <3>. QED
      BY <3>1, <3>2, <3>3, <3>4, <3>5, <3>6 DEF Next, vars
  <2>2. ASSUME NEW r \in Runs, LookAtFile(r), ~clash' PROVE ~clash
    BY <2>2, LookAtFileIs
  <2>. QED
    BY <2>1, <2>2
<1>. QED
  BY <1>1, <1>2 DEF FileGrows, Keys

\* What becomes of what is awaited.
LEMMA BecomesAwaits ==
  ASSUME TypeOK, NEW r \in Runs, NEW s \in Sports, NEW p \in PartState,
         NEW clean \in BOOLEAN, Becomes(r, s, p, clean)
  PROVE  /\ run'[r].due = (IF clean THEN run[r].due ELSE {}) /\ run'[r].known = run[r].known
<1>1. run[r] \in RunState
  BY RunIs
<1>. DEFINE part == [run[r].part EXCEPT ![s] = p]
            q == [run[r] EXCEPT !.part = part, !.due = IF clean THEN run[r].due ELSE {}]
<1>2. run' = [run EXCEPT ![r] = q]
  BY <1>1 DEF Becomes
<1>. HIDE DEF part
<1>3. q.due = (IF clean THEN run[r].due ELSE {}) /\ q.known = run[r].known
  BY <1>1 DEF RunState
<1>. HIDE DEF q
<1>. QED
  BY <1>2, <1>3 DEF TypeOK

LEMMA CollectedAwaits ==
  ASSUME TypeOK, NEW r \in Runs, NEW s \in Sports, NEW rows \in SUBSET RowType,
         NEW clean \in BOOLEAN, Collected(r, s, rows, clean)
  PROVE  /\ run'[r].due = (IF clean THEN run[r].due ELSE {}) /\ run'[r].known = run[r].known
         /\ run'[r].at = (IF \A k \in Sports \ {s} : run[r].part[k].step = "done"
                          THEN "append" ELSE "build")
<1>1. run[r] \in RunState
  BY RunIs
<1>. DEFINE part == [run[r].part EXCEPT ![s] = [NotBegun EXCEPT !.step = "done"]]
            at == IF \A k \in Sports \ {s} : run[r].part[k].step = "done" THEN "append" ELSE "build"
            q == [run[r] EXCEPT !.part = part, !.got = run[r].got \cup rows,
                                !.due = IF clean THEN run[r].due ELSE {}, !.at = at]
<1>2. run' = [run EXCEPT ![r] = q]
  BY <1>1 DEF Collected, Part
<1>. HIDE DEF part, at
<1>3. q.due = (IF clean THEN run[r].due ELSE {}) /\ q.known = run[r].known /\ q.at = at
  BY <1>1 DEF RunState
<1>. HIDE DEF q
<1>. QED
  BY <1>2, <1>3 DEF TypeOK, at

LEMMA LeavesAwaits ==
  ASSUME TypeOK, NEW r \in Runs, NEW at, NEW due, Leaves(r, at, due)
  PROVE  run'[r].due = due /\ run'[r].at = at
<1>. DEFINE n == [NoRun EXCEPT !.at = at, !.due = due]
<1>1. n.at = at /\ n.due = due
  BY DEF NoRun
<1>2. run' = [run EXCEPT ![r] = n]
  BY DEF Leaves
<1>. HIDE DEF n
<1>. QED
  BY <1>1, <1>2 DEF TypeOK

\* Markets that settle were open, and a market that moves is of an event no run awaits then.
LEMMA SettleAwaits ==
  ASSUME TypeOK, Complete, NEW m \in Markets, Settle(m)
  PROVE  Complete'
<1>1. run' = run /\ clash' = clash /\ Keys' = Keys /\ place[m] = "open"
      /\ \A n \in Markets : place'[n] = IF n = m THEN "live" ELSE place[n]
  BY DEF Settle, TypeOK, Keys
<1>. SUFFICES ASSUME NEW r \in Runs PROVE Awaited(r)'
  BY DEF Complete
<1>2. Awaited(r)
  BY DEF Complete
<1>3. \A e \in run[r].due : e \in Events /\ Settled(e)
  BY <1>2, DueAre DEF Awaited, Steady
<1>4. \A e \in run[r].due : \A n \in MarketsOf[e] : place'[n] = place[n]
  <2>. SUFFICES ASSUME NEW e \in run[r].due, NEW n \in MarketsOf[e] PROVE place'[n] = place[n]
    OBVIOUS
  <2>1. n \in Markets /\ place[n] \in Endpoints
    BY <1>3, PlacesAre
  <2>. QED
    BY <1>1, <2>1 DEF Endpoints
<1>5. Steady(run[r].due)'
  BY <1>1, <1>2, <1>4 DEF Awaited, Steady, Settled
<1>6. \A e \in run[r].due : \A p, rows : Onto(p, e, rows, place) => Onto(p, e, rows, place')
  BY <1>4 DEF Onto
<1>. QED
  BY <1>1, <1>2, <1>5, <1>6 DEF Awaited

LEMMA ArchiveAwaits ==
  ASSUME TypeOK, Complete, NEW m \in Markets, Archive(m)
  PROVE  Complete'
<1>1. clash' = clash /\ Keys' = Keys
      /\ \A n \in Markets : place'[n] = IF n = m THEN "historical" ELSE place[n]
  BY DEF Archive, TypeOK, Keys
<1>. SUFFICES ASSUME NEW r \in Runs PROVE Awaited(r)'
  BY DEF Complete
<1>2. Awaited(r)
  BY DEF Complete
<1>3. /\ run'[r].due = run[r].due \ Twins[EventOf[m]] /\ run'[r].known = run[r].known
      /\ run'[r].at = run[r].at /\ run'[r].got = run[r].got /\ run'[r].fresh = run[r].fresh
      /\ run'[r].part = run[r].part
  <2>1. run[r] \in RunState
    BY RunIs
  <2>. DEFINE after == [run[r] EXCEPT !.due = run[r].due \ Twins[EventOf[m]]]
  <2>2. run'[r] = after
    BY DEF Archive
  <2>. QED
    BY <2>1, <2>2 DEF RunState
<1>4. \A e \in run[r].due : e \in Events /\ Settled(e) /\ Twins[e] \subseteq run[r].due
                            /\ Priced(MarketsOf[e], Start[e])
  BY <1>2, DueAre DEF Awaited, Steady
<1>5. EventOf[m] \in Events
  BY Data
<1>6. \A e \in run'[r].due : \A n \in MarketsOf[e] : n \in Markets /\ place'[n] = place[n]
  <2>. SUFFICES ASSUME NEW e \in run'[r].due, NEW n \in MarketsOf[e]
                PROVE  n \in Markets /\ place'[n] = place[n]
    OBVIOUS
  <2>1. n \in Markets /\ EventOf[n] = e
    BY <1>3, <1>4, PlacesAre
  <2>2. e \in Events /\ e \notin Twins[EventOf[m]]
    BY <1>3, <1>4
  <2>3. n # m
    BY <2>1, <2>2, OfItself
  <2>. QED
    BY <1>1, <2>1, <2>3
<1>7. Steady(run[r].due)'
  <2>. SUFFICES ASSUME NEW e \in run'[r].due
                PROVE  Twins[e] \subseteq run'[r].due /\ Settled(e)' /\ Priced(MarketsOf[e], Start[e])
    BY DEF Steady
  <2>1. e \in run[r].due /\ e \in Events /\ e \notin Twins[EventOf[m]]
    BY <1>3, <1>4
  <2>2. ASSUME NEW f \in Twins[e] PROVE f \notin Twins[EventOf[m]]
    <3>1. e \in Twins[e] /\ Twins[f] = Twins[e]
      BY <2>1, TwinsAre
    <3>2. f \in Twins[EventOf[m]] => Twins[f] = Twins[EventOf[m]]
      BY <1>5, TwinsAre
    <3>. QED
      BY <2>1, <3>1, <3>2
  <2>3. Twins[e] \subseteq run'[r].due
    BY <1>3, <1>4, <2>1, <2>2
  <2>4. Settled(e)'
    BY <1>4, <1>6, <2>1 DEF Settled
  <2>. QED
    BY <1>4, <2>1, <2>3, <2>4
<1>8. \A e \in run'[r].due : \A p, rows : Onto(p, e, rows, place) => Onto(p, e, rows, place')
  BY <1>6 DEF Onto
<1>. QED
  BY <1>1, <1>2, <1>3, <1>7, <1>8 DEF Awaited

LEMMA BeginAwaits ==
  ASSUME TypeOK, NEW r \in Runs, Begin(r)
  PROVE  Awaited(r)'
<1>. DEFINE due == {e \in Events : \A f \in Twins[e] :
                            Settled(f) /\ f \notin Keys /\ Priced(MarketsOf[f], Start[f])}
            n == [NoRun EXCEPT !.at = "build", !.known = Keys, !.due = due]
<1>1. run' = [run EXCEPT ![r] = n] /\ place' = place
  BY DEF Begin
<1>2. ASSUME NEW e \in due
      PROVE  /\ e \in Events /\ Twins[e] \subseteq due /\ Settled(e) /\ e \notin Keys
             /\ Priced(MarketsOf[e], Start[e])
  <2>1. e \in Events /\ e \in Twins[e]
    BY OfItself
  <2>2. \A f \in Twins[e] : f \in Events /\ Twins[f] = Twins[e]
    BY <2>1, TwinsAre
  <2>. QED
    BY <2>1, <2>2
<1>. HIDE DEF due
<1>3. /\ n.at = "build" /\ n.known = Keys /\ n.due = due
      /\ \A s \in Sports : n.part[s].step = "list" /\ n.part[s].asked = {}
  BY DEF NoRun, NotBegun
<1>. HIDE DEF n
<1>4. run'[r] = n
  BY <1>1 DEF TypeOK
<1>5. Steady(run[r].due)'
  BY <1>1, <1>2, <1>3, <1>4 DEF Steady, Settled
<1>6. \A e \in due : Onto(n.part[SportOf[e]], e, n.got, place')
  <2>1. \A e \in due : SportOf[e] \in Sports
    BY <1>2, Data
  <2>. QED
    BY <1>3, <2>1 DEF Onto
<1>. QED
  BY <1>2, <1>3, <1>4, <1>5, <1>6 DEF Awaited

LEMMA FailsAwaits ==
  ASSUME TypeOK, NEW r \in Runs, NEW s, NEW p, Becomes(r, s, p, FALSE)
  PROVE  Awaited(r)'
<1>1. run[r] \in RunState
  BY RunIs
<1>. DEFINE part == [run[r].part EXCEPT ![s] = p]
            q == [run[r] EXCEPT !.part = part, !.due = {}]
<1>2. run' = [run EXCEPT ![r] = q]
  BY <1>1 DEF Becomes
<1>. HIDE DEF part
<1>3. q.due = {}
  BY <1>1 DEF RunState
<1>. HIDE DEF q
<1>4. run'[r].due = {}
  BY <1>2, <1>3 DEF TypeOK
<1>. QED
  BY <1>4, NothingAwaited

\* A sport goes on and has missed nothing.
LEMMA GoesOn ==
  ASSUME TypeOK, NEW r \in Runs, Awaited(r), run[r].at = "build", place' = place,
         NEW s \in Sports, NEW p \in PartState, Becomes(r, s, p, TRUE),
         \A e \in run[r].due : SportOf[e] = s => Onto(p, e, run[r].got, place)
  PROVE  Awaited(r)'
<1>1. /\ run'[r].due = run[r].due /\ run'[r].known = run[r].known
      /\ run'[r].at = "build" /\ run'[r].got = run[r].got
  <2>1. PICK clean \in BOOLEAN : clean /\ Becomes(r, s, p, clean)
    OBVIOUS
  <2>2. run'[r].due = run[r].due /\ run'[r].known = run[r].known
    BY <2>1, BecomesAwaits
  <2>3. Unmoved
    BY <2>1, BecomesKeeps
  <2>. QED
    BY <2>2, <2>3 DEF Unmoved
<1>2. \A k \in Sports : run'[r].part[k] = IF k = s THEN p ELSE run[r].part[k]
  <2>1. PICK clean \in BOOLEAN : Becomes(r, s, p, clean)
    OBVIOUS
  <2>. QED
    BY <2>1, BecomesKeeps
<1>3. \A e \in run[r].due : e \in Events /\ SportOf[e] \in Sports
  BY DueAre, Data
<1>4. \A e \in run[r].due : Onto(run'[r].part[SportOf[e]], e, run[r].got, place)
  BY <1>2, <1>3 DEF Awaited
<1>5. Steady(run[r].due)'
  BY <1>1 DEF Awaited, Steady, Settled
<1>. QED
  BY <1>1, <1>4, <1>5 DEF Awaited

LEMMA ListAwaits ==
  ASSUME TypeOK, Complete, NEW r \in Runs, NEW s \in Sports, NEW src \in Endpoints, List(r, s, src)
  PROVE  Awaited(r)'
<1>. DEFINE old == run[r].part[s]
            p(got) == [old EXCEPT !.asked = old.asked \cup {src}, !.seen = old.seen \cup got]
<1>1. Awaited(r) /\ run[r].at = "build" /\ old \in PartState /\ old.step = "list" /\ place' = place
  BY RunIs DEF Complete, List, Working, Part
<1>2. \/ Becomes(r, s, p(Listing(s, src)), TRUE)
      \/ \E got : Becomes(r, s, p(got), FALSE)
  BY DEF List, Part
<1>3. CASE Becomes(r, s, p(Listing(s, src)), TRUE)
  <2>. DEFINE new == p(Listing(s, src))
  <2>1. /\ new \in PartState /\ new.step = "list" /\ new.asked = old.asked \cup {src}
        /\ new.seen = old.seen \cup Listing(s, src)
    BY <1>1, Listed DEF PartState
  <2>. HIDE DEF new
  <2>2. ASSUME NEW e \in run[r].due, SportOf[e] = s PROVE Onto(new, e, run[r].got, place)
    <3>1. Onto(old, e, run[r].got, place)
      BY <1>1, <2>2 DEF Awaited
    <3>2. \A m \in MarketsOf[e] : m \in Markets /\ EventOf[m] = e
      BY DueAre DEF MarketsOf
    <3>3. \A m \in MarketsOf[e] : place[m] = src => <<place[m], m>> \in Listing(s, src)
      BY <2>2, <3>2 DEF Listing
    <3>. QED
      BY <1>1, <2>1, <3>1, <3>3 DEF Onto
  <2>. QED
    BY <1>1, <1>3, <2>1, <2>2, GoesOn DEF new
<1>. HIDE DEF p
<1>4. CASE \E got : Becomes(r, s, p(got), FALSE)
  BY <1>4, FailsAwaits
<1>. QED
  BY <1>2, <1>3, <1>4

\* What is awaited of a sport whose markets are listed is new to the file.
LEMMA AreNew ==
  ASSUME TypeOK, NEW r \in Runs, NEW s \in Sports, Awaited(r), run[r].at = "build",
         NEW e \in run[r].due, \A m \in MarketsOf[e] : <<place[m], m>> \in Part(r, s).seen
  PROVE  e \in NewOnes(r, s) /\ Pair(Part(r, s), e) = MarketsOf[e]
<1>1. e \in Events /\ e \notin run[r].known /\ Settled(e)
  BY DueAre DEF Awaited, Steady
<1>2. \A m \in MarketsOf[e] : m \in Markets /\ EventOf[m] = e /\ place[m] \in Endpoints
  BY <1>1, PlacesAre
<1>3. PICK m : m \in MarketsOf[e]
  BY <1>1, DatasetAssumption
<1>4. e \in NewOnes(r, s)
  <2>1. <<place[m], m>> \in Part(r, s).seen /\ EventOf[<<place[m], m>>[2]] = e
    BY <1>2, <1>3
  <2>. QED
    BY <1>1, <2>1 DEF NewOnes
<1>5. MarketsOf[e] \subseteq Pair(Part(r, s), e)
  BY <1>2 DEF Pair
<1>. QED
  BY <1>1, <1>4, <1>5, PairIs

LEMMA FetchAwaits ==
  ASSUME TypeOK, Complete, NEW r \in Runs, NEW s \in Sports, Fetch(r, s)
  PROVE  Awaited(r)'
<1>. DEFINE old == run[r].part[s]
            p(games) == [old EXCEPT !.step = "rows", !.games = games]
            listed == {g \in Events : SportOf[g] = s /\
                        UtcDay[g] \in Asked({Day[e] : e \in NewOnes(r, s)})}
<1>1. /\ Awaited(r) /\ run[r].at = "build" /\ old \in PartState /\ old.step = "list"
      /\ old.asked = Endpoints /\ place' = place
  BY RunIs DEF Complete, Fetch, Working, Part
<1>2. \/ Becomes(r, s, p(listed), TRUE)
      \/ \E games : Becomes(r, s, p(games), FALSE)
  BY DEF Fetch, Part
<1>3. CASE Becomes(r, s, p(listed), TRUE)
  <2>1. ASSUME NEW e \in run[r].due, SportOf[e] = s
        PROVE  e \in Events /\ \A m \in MarketsOf[e] : <<place[m], m>> \in old.seen
    <3>1. e \in Events /\ Settled(e) /\ Onto(old, e, run[r].got, place)
      BY <1>1, <2>1, DueAre DEF Awaited, Steady
    <3>2. \A m \in MarketsOf[e] : place[m] \in Endpoints
      BY <3>1, PlacesAre
    <3>. QED
      BY <1>1, <3>1, <3>2 DEF Onto
  <2>2. ASSUME NEW e \in run[r].due, SportOf[e] = s PROVE e \in listed
    <3>1. e \in NewOnes(r, s)
      BY <1>1, <2>1, <2>2, AreNew DEF Part
    <3>2. e \in Events /\ UtcDay[e] \in (Day[e] - 1)..(Day[e] + 1)
      BY <2>1, <2>2, DatasetAssumption
    <3>. QED
      BY <2>2, <3>1, <3>2 DEF Asked
  <2>. HIDE DEF listed
  <2>. DEFINE new == p(listed)
  <2>3. /\ new \in PartState /\ new.step = "rows" /\ new.games = listed /\ new.seen = old.seen
    <3>1. listed \subseteq Events
      BY DEF listed
    <3>. QED
      BY <1>1, <3>1 DEF PartState
  <2>. HIDE DEF new
  <2>4. ASSUME NEW e \in run[r].due, SportOf[e] = s PROVE Onto(new, e, run[r].got, place)
    <3>1. Twins[e] \subseteq run[r].due
      BY <1>1 DEF Awaited, Steady
    <3>2. \A f \in Twins[e] : SportOf[f] = s
      BY <2>1, <2>4, TwinsAre
    <3>3. Twins[e] \subseteq new.games
      BY <2>2, <2>3, <3>1, <3>2
    <3>. QED
      BY <2>1, <2>3, <2>4, <3>3 DEF Onto
  <2>. QED
    BY <1>1, <1>3, <2>3, <2>4, GoesOn DEF new
<1>. HIDE DEF p, listed
<1>4. CASE \E games : Becomes(r, s, p(games), FALSE)
  BY <1>4, FailsAwaits
<1>. QED
  BY <1>2, <1>3, <1>4

\* What is awaited of a sport with its schedule gives a row.
LEMMA GivesARow ==
  ASSUME TypeOK, NEW r \in Runs, NEW s \in Sports, Awaited(r), run[r].at = "build",
         Part(r, s).step = "rows", NEW e \in run[r].due, SportOf[e] = s
  PROVE  e \in NewOnes(r, s) /\ RowsFor(r, s, e) # {}
<1>1. /\ e \in Events /\ Twins[e] \subseteq run[r].due /\ Priced(MarketsOf[e], Start[e])
      /\ Twins[e] \subseteq Part(r, s).games
  BY DueAre DEF Awaited, Steady, Onto, Part
<1>2. ASSUME NEW f \in Twins[e]
      PROVE  f \in NewOnes(r, s) /\ Pair(Part(r, s), f) = MarketsOf[f]
  <2>1. f \in run[r].due /\ SportOf[f] = s
    BY <1>1, TwinsAre
  <2>2. \A m \in MarketsOf[f] : <<place[m], m>> \in Part(r, s).seen
    BY <2>1 DEF Awaited, Onto, Part
  <2>. QED
    BY <2>1, <2>2, AreNew
<1>3. e \in Twins[e]
  BY <1>1, OfItself
<1>4. e \in NewOnes(r, s) /\ Pair(Part(r, s), e) = MarketsOf[e]
  BY <1>2, <1>3
<1>5. GameFor(r, s, e) = {e}
  <2>1. Twins[e] \subseteq NewOnes(r, s) \cap Part(r, s).games
    BY <1>1, <1>2
  <2>. QED
    BY <1>1, <2>1, GameForIs
<1>6. Paired(Part(r, s), e)
  BY <1>1, <1>4, PairIs
<1>7. PICK m : m \in Favourites(MarketsOf[e], Start[e])
  <2>1. PICK a \in Markets, b \in Markets : MarketsOf[e] = {a, b}
    BY <1>1, DatasetAssumption
  <2>. DEFINE askA == AverageAsk[a][Start[e]]
              askB == AverageAsk[b][Start[e]]
  <2>2. askA \in Int /\ askB \in Int
    BY <1>1, AveragesAreCents, Data
  <2>. HIDE DEF askA, askB
  <2>3. askA >= askA /\ askB >= askB /\ (askA >= askB \/ askB >= askA)
    BY <2>2
  <2>4. a \in Favourites(MarketsOf[e], Start[e]) \/ b \in Favourites(MarketsOf[e], Start[e])
    BY <2>1, <2>3 DEF Favourites, askA, askB
  <2>. QED
    BY <2>4
<1>. DEFINE row(g, n) ==
              [event |-> e, start |-> Start[g], fav |-> n, entry |-> AverageAsk[n][Start[g]],
               pnl |-> Pnl(n, AverageAsk[n][Start[g]]), by |-> r, torn |-> FALSE,
               whole |-> Twins[e] \subseteq NewOnes(r, s) \cap Part(r, s).games]
<1>8. RowsFor(r, s, e) = UNION {{row(g, n) : n \in Favourites(MarketsOf[e], Start[g])} :
                                    g \in {x \in {e} : Priced(MarketsOf[e], Start[x])}}
  BY <1>4, <1>5, <1>6 DEF RowsFor
<1>. HIDE DEF row
<1>9. row(e, m) \in RowsFor(r, s, e)
  BY <1>1, <1>7, <1>8
<1>. QED
  BY <1>4, <1>9

LEMMA CollectAwaits ==
  ASSUME TypeOK, Complete, NEW r \in Runs, NEW s \in Sports, Collect(r, s)
  PROVE  Awaited(r)'
<1>1. /\ Awaited(r) /\ run[r].at = "build" /\ Part(r, s).step = "rows" /\ place' = place
  BY DEF Complete, Collect, Working
<1>2. PICK rows \in SUBSET RowType, clean \in BOOLEAN :
            /\ Collected(r, s, rows, clean)
            /\ clean => \A e \in NewOnes(r, s) : RowsFor(r, s, e) # {} => e \in EventsIn(rows)
  BY CollectFinds
<1>3. /\ run'[r].due = (IF clean THEN run[r].due ELSE {}) /\ run'[r].known = run[r].known
      /\ run'[r].at = (IF \A k \in Sports \ {s} : run[r].part[k].step = "done"
                       THEN "append" ELSE "build")
  BY <1>2, CollectedAwaits
<1>4. /\ run'[r].got = run[r].got \cup rows
      /\ \A k \in Sports : run'[r].part[k] = IF k = s THEN [NotBegun EXCEPT !.step = "done"]
                                             ELSE run[r].part[k]
  <2>1. Collected(r, s, rows, clean)
    BY <1>2
  <2>. QED
    BY <2>1, CollectedKeeps
<1>5. CASE ~clean
  BY <1>3, <1>5, NothingAwaited
<1>6. CASE clean
  <2>1. run'[r].due = run[r].due /\ Steady(run[r].due)'
    BY <1>1, <1>3, <1>6 DEF Awaited, Steady, Settled
  <2>2. EventsIn(run'[r].got) = EventsIn(run[r].got) \cup EventsIn(rows)
    BY <1>4 DEF EventsIn
  <2>3. \A e \in run[r].due : SportOf[e] = s => e \in EventsIn(run'[r].got)
    BY <1>1, <1>2, <1>6, <2>2, GivesARow
  <2>4. \A e \in run[r].due : /\ SportOf[e] \in Sports /\ e \notin run[r].known
                              /\ Onto(run[r].part[SportOf[e]], e, run[r].got, place)
    BY <1>1, DueAre, Data DEF Awaited
  <2>5. [NotBegun EXCEPT !.step = "done"].step = "done"
    BY DEF NotBegun
  <2>6. ASSUME NEW e \in run[r].due
        PROVE  Onto(run'[r].part[SportOf[e]], e, run'[r].got, place')
    <3>1. CASE SportOf[e] = s
      <4>1. run'[r].part[SportOf[e]].step = "done"
        BY <1>4, <2>5, <3>1
      <4>. QED
        BY <2>3, <3>1, <4>1 DEF Onto
    <3>2. CASE SportOf[e] # s
      <4>1. run'[r].part[SportOf[e]] = run[r].part[SportOf[e]]
        BY <1>4, <2>4, <3>2
      <4>. QED
        BY <1>1, <2>2, <2>4, <4>1 DEF Onto
    <3>. QED
      BY <3>1, <3>2
  <2>7. CASE run'[r].at = "append"
    <3>1. \A k \in Sports \ {s} : run[r].part[k].step = "done"
      BY <1>3, <2>7
    <3>2. \A e \in run[r].due : SportOf[e] # s => e \in EventsIn(run[r].got)
      BY <2>4, <3>1 DEF Onto
    <3>. QED
      BY <2>1, <2>2, <2>3, <2>7, <3>2 DEF Awaited
  <2>8. CASE run'[r].at = "build"
    BY <1>3, <2>1, <2>4, <2>6, <2>8 DEF Awaited
  <2>. QED
    BY <1>3, <2>7, <2>8
<1>. QED
  BY <1>5, <1>6

LEMMA SportFailsAwaits ==
  ASSUME TypeOK, NEW r \in Runs, NEW s \in Sports, SportFails(r, s)
  PROVE  Awaited(r)'
<1>1. PICK clean \in BOOLEAN : ~clean /\ Collected(r, s, {}, clean)
  BY DEF SportFails
<1>2. run'[r].due = {}
  <2>1. {} \in SUBSET RowType
    OBVIOUS
  <2>. QED
    BY <1>1, <2>1, CollectedAwaits
<1>. QED
  BY <1>2, NothingAwaited

LEMMA LookAwaits ==
  ASSUME TypeOK, Complete, NEW r \in Runs, LookAtFile(r)
  PROVE  Awaited(r)'
<1>1. Awaited(r) /\ run[r].at = "append" /\ place' = place /\ run[r] \in RunState
  BY RunIs DEF Complete, LookAtFile
<1>2. Steady(run[r].due) /\ run[r].due \subseteq EventsIn(run[r].got)
  BY <1>1 DEF Awaited
<1>3. CASE run[r].got = {}
  <2>1. run[r].due = {}
    BY <1>2, <1>3 DEF EventsIn
  <2>2. run'[r].due = {}
    BY <1>3, <2>1, LeavesAwaits DEF LookAtFile
  <2>. QED
    BY <2>2, NothingAwaited
<1>4. CASE run[r].got # {} /\ file.head = "cut"
  <2>1. run'[r].due = {}
    BY <1>4, LeavesAwaits DEF LookAtFile
  <2>. QED
    BY <2>1, NothingAwaited
<1>5. CASE run[r].got # {} /\ file.head # "cut"
  <2>. DEFINE n == [run[r] EXCEPT !.at = "reread", !.made = file.head # "none"]
  <2>1. run' = [run EXCEPT ![r] = n]
    BY <1>1, <1>5 DEF LookAtFile
  <2>2. n.at = "reread" /\ n.due = run[r].due /\ n.got = run[r].got
    BY <1>1 DEF RunState
  <2>. HIDE DEF n
  <2>3. run'[r] = n
    BY <2>1 DEF TypeOK
  <2>4. Steady(run[r].due)'
    BY <1>1, <1>2, <2>2, <2>3 DEF Steady, Settled
  <2>. QED
    BY <1>2, <2>2, <2>3, <2>4 DEF Awaited
<1>. QED
  BY <1>3, <1>4, <1>5

LEMMA RereadAwaits ==
  ASSUME TypeOK, Complete, NEW r \in Runs, Reread(r)
  PROVE  Awaited(r)'
<1>1. /\ Awaited(r) /\ run[r].at = "reread" /\ place' = place /\ run[r] \in RunState
      /\ Keys' = Keys
  BY RunIs DEF Complete, Reread, Keys
<1>2. Steady(run[r].due) /\ run[r].due \subseteq EventsIn(run[r].got)
  BY <1>1 DEF Awaited
<1>3. EventsIn(run[r].got) \subseteq Keys \cup EventsIn(Fresh(run[r].got))
  BY DEF EventsIn, Fresh
<1>4. CASE Fresh(run[r].got) = {}
  <2>1. run'[r].due = run[r].due /\ run'[r].at = "done"
    BY <1>4, LeavesAwaits DEF Reread
  <2>2. run[r].due \subseteq Keys
    BY <1>2, <1>3, <1>4 DEF EventsIn
  <2>3. Steady(run[r].due)'
    BY <1>1, <1>2, <2>1 DEF Steady, Settled
  <2>. QED
    BY <1>1, <2>1, <2>2, <2>3 DEF Awaited
<1>5. CASE Fresh(run[r].got) # {}
  <2>. DEFINE n == [run[r] EXCEPT !.at = "write", !.fresh = Fresh(run[r].got)]
  <2>1. run' = [run EXCEPT ![r] = n]
    BY <1>1, <1>5 DEF Reread
  <2>2. n.at = "write" /\ n.due = run[r].due /\ n.fresh = Fresh(run[r].got)
    BY <1>1 DEF RunState
  <2>. HIDE DEF n
  <2>3. run'[r] = n
    BY <2>1 DEF TypeOK
  <2>4. Steady(run[r].due)'
    BY <1>1, <1>2, <2>2, <2>3 DEF Steady, Settled
  <2>. QED
    BY <1>1, <1>2, <1>3, <2>2, <2>3, <2>4 DEF Awaited
<1>. QED
  BY <1>4, <1>5

LEMMA WriteAwaits ==
  ASSUME TypeOK, Current, Complete, FileGrows, NEW r \in Runs, Write(r)
  PROVE  Awaited(r)'
<1>1. Awaited(r) /\ run[r].at = "write" /\ place' = place /\ clash' = clash
  BY DEF Complete, Write
<1>2. CASE file.tail # "whole"
  <2>1. run'[r].due = {}
    BY <1>2, LeavesAwaits DEF Write
  <2>. QED
    BY <2>1, NothingAwaited
<1>3. CASE file.tail = "whole"
  <2>1. run'[r].due = run[r].due /\ run'[r].at = "done"
    BY <1>3, LeavesAwaits DEF Write
  <2>2. Landed(r, run[r].fresh) = {run[r].fresh}
    BY <1>3 DEF Landed
  <2>3. file'.rows = Kept(r) \cup run[r].fresh
    BY <2>2 DEF Write
  <2>4. EventsIn(run[r].fresh) \subseteq Keys'
    BY <2>3 DEF EventsIn, Keys
  <2>5. ~clash' => run[r].due \subseteq Keys'
    BY <1>1, <2>4 DEF Awaited, FileGrows
  <2>6. Steady(run[r].due)'
    BY <1>1, <2>1 DEF Awaited, Steady, Settled
  <2>. QED
    BY <2>1, <2>5, <2>6 DEF Awaited
<1>. QED
  BY <1>2, <1>3

LEMMA EndAwaits ==
  ASSUME TypeOK, NEW r \in Runs, WriteDies(r) \/ Killed(r)
  PROVE  Awaited(r)'
<1>1. Leaves(r, "failed", {})
  BY DEF WriteDies, Killed
<1>2. run'[r].due = {}
  BY <1>1, LeavesAwaits
<1>. QED
  BY <1>2, NothingAwaited

\* Nothing that is awaited is missed by any step.
LEMMA CompleteStep == TypeOK /\ Gathered /\ Current /\ Complete /\ [Next]_vars => Complete'
<1>. SUFFICES ASSUME TypeOK, Gathered, Current, Complete, [Next]_vars PROVE Complete'
  OBVIOUS
<1>0. FileGrows
  BY Grows
<1>1. CASE UNCHANGED vars
  <2>1. run' = run /\ place' = place
    BY <1>1 DEF vars
  <2>. QED
    BY <1>0, <2>1, StaysAwaited DEF Complete
<1>2. CASE \E m \in Markets : Settle(m) \/ Archive(m)
  BY <1>2, SettleAwaits, ArchiveAwaits
<1>3. CASE \E r \in Runs : Begin(r)
  <2>1. PICK r \in Runs : Begin(r)
    BY <1>3
  <2>2. place' = place /\ Awaited(r)'
    BY <2>1, BeginAwaits DEF Begin
  <2>. QED
    BY <1>0, <2>1, <2>2, BeginIs, OthersStay
<1>4. CASE \E r \in Runs, s \in Sports, src \in Endpoints : List(r, s, src)
  <2>1. PICK r \in Runs, s \in Sports, src \in Endpoints : List(r, s, src)
    BY <1>4
  <2>2. place' = place /\ Awaited(r)'
    BY <2>1, ListAwaits DEF List
  <2>3. \A q \in Runs \ {r} : run'[q] = run[q]
    BY <2>1, ListIs, BecomesKeeps
  <2>. QED
    BY <1>0, <2>2, <2>3, OthersStay
<1>5. CASE \E r \in Runs, s \in Sports : Fetch(r, s)
  <2>1. PICK r \in Runs, s \in Sports : Fetch(r, s)
    BY <1>5
  <2>2. place' = place /\ Awaited(r)'
    BY <2>1, FetchAwaits DEF Fetch
  <2>3. \A q \in Runs \ {r} : run'[q] = run[q]
    BY <2>1, FetchIs, BecomesKeeps
  <2>. QED
    BY <1>0, <2>2, <2>3, OthersStay
<1>6. CASE \E r \in Runs, s \in Sports : Collect(r, s)
  <2>1. PICK r \in Runs, s \in Sports : Collect(r, s)
    BY <1>6
  <2>2. place' = place /\ Awaited(r)'
    BY <2>1, CollectAwaits DEF Collect
  <2>3. \A q \in Runs \ {r} : run'[q] = run[q]
    BY <2>1, CollectIs, CollectedKeeps
  <2>. QED
    BY <1>0, <2>2, <2>3, OthersStay
<1>7. CASE \E r \in Runs, s \in Sports : SportFails(r, s)
  <2>1. PICK r \in Runs, s \in Sports : SportFails(r, s)
    BY <1>7
  <2>2. place' = place /\ Awaited(r)'
    BY <2>1, SportFailsAwaits DEF SportFails
  <2>3. \A q \in Runs \ {r} : run'[q] = run[q]
    BY <2>1 DEF SportFails, Collected, TypeOK
  <2>. QED
    BY <1>0, <2>2, <2>3, OthersStay
<1>8. CASE \E r \in Runs : LookAtFile(r)
  <2>1. PICK r \in Runs : LookAtFile(r)
    BY <1>8
  <2>2. place' = place /\ Awaited(r)'
    BY <2>1, LookAwaits DEF LookAtFile
  <2>3. \A q \in Runs \ {r} : run'[q] = run[q]
    BY <2>1, LookAtFileIs, LeavesKeeps DEF Appends
  <2>. QED
    BY <1>0, <2>2, <2>3, OthersStay
<1>9. CASE \E r \in Runs : Reread(r)
  <2>1. PICK r \in Runs : Reread(r)
    BY <1>9
  <2>2. place' = place /\ Awaited(r)'
    BY <2>1, RereadAwaits DEF Reread
  <2>3. \A q \in Runs \ {r} : run'[q] = run[q]
    BY <2>1, RereadIs, LeavesKeeps DEF Appends
  <2>. QED
    BY <1>0, <2>2, <2>3, OthersStay
<1>10. CASE \E r \in Runs : Write(r)
  <2>1. PICK r \in Runs : Write(r)
    BY <1>10
  <2>2. place' = place /\ Awaited(r)'
    BY <1>0, <2>1, WriteAwaits DEF Write
  <2>3. \A q \in Runs \ {r} : run'[q] = run[q]
    BY <2>1, LeavesKeeps DEF Write
  <2>. QED
    BY <1>0, <2>2, <2>3, OthersStay
<1>11. CASE \E r \in Runs : WriteDies(r) \/ Killed(r)
  <2>1. PICK r \in Runs : WriteDies(r) \/ Killed(r)
    BY <1>11
  <2>2. place' = place /\ Awaited(r)' /\ Leaves(r, "failed", {})
    BY <2>1, EndAwaits DEF WriteDies, Killed
  <2>. QED
    BY <1>0, <2>2, LeavesKeeps, OthersStay
<1>. QED
  BY <1>1, <1>2, <1>3, <1>4, <1>5, <1>6, <1>7, <1>8, <1>9, <1>10, <1>11 DEF Next

-----------------------------------------------------------------------------
LEMMA InitAll == Init => Gathered /\ Current
<1>. SUFFICES ASSUME Init PROVE Gathered /\ Current
  OBVIOUS
<1>1. \A r \in Runs : run[r] = NoRun
  BY DEF Init
<1>2. /\ NoRun.at = "off" /\ NoRun.got = {} /\ NoRun.fresh = {}
      /\ \A s \in Sports : NoRun.part[s].seen = {}
  BY DEF NoRun, NotBegun
<1>3. file.head = "none" /\ file.rows = {}
  BY DEF Init
<1>4. Gathered
  BY <1>1, <1>2 DEF Gathered, Distinct, Part
<1>5. Current
  BY <1>1, <1>2, <1>3 DEF Current, InAppend, Distinct
<1>. QED
  BY <1>4, <1>5

\* Types, and what the runs and their file rely on.
THEOREM DatasetTypeCorrect == Spec => [](TypeOK /\ Gathered /\ Current)
<1>1. Init => TypeOK /\ Gathered /\ Current
  BY TypeInit, InitAll
<1>2. TypeOK /\ Gathered /\ Current /\ [Next]_vars => (TypeOK /\ Gathered /\ Current)'
  BY TypeStep, GatheredStep, CurrentStep
<1>. QED
  BY <1>1, <1>2, PTL DEF Spec

\* However many runs overlap between their first look at the file and their append, the
\* file has one row per event, as long as no two are in append_rows at once: load_existing_keys
\* is asked a second time there.
THEOREM OneRowEach == Spec => []OneRowPerEvent
<1>1. Current => OneRowPerEvent
  BY DEF Current, Distinct, OneRowPerEvent
<1>. QED
  BY <1>1, DatasetTypeCorrect, PTL

\* No step of any run takes a row out of the file or changes one, killed while it writes
\* or not, as long as no two are in append_rows at once.
THEOREM AppendsOnly == Spec => RowsAreKept
<1>1. TypeOK /\ Gathered /\ Current /\ [Next]_vars => [~clash' => file.rows \subseteq file'.rows]_vars
  BY CurrentStep
<1>. QED
  BY <1>1, DatasetTypeCorrect, PTL DEF Spec, RowsAreKept

LEMMA InitFinds == Init => Honest /\ Complete
<1>. SUFFICES ASSUME Init PROVE Honest /\ Complete
  OBVIOUS
<1>1. \A r \in Runs : run[r] = NoRun
  BY DEF Init
<1>2. NoRun.at = "off" /\ NoRun.got = {} /\ NoRun.due = {}
  BY DEF NoRun
<1>3. file.rows = {}
  BY DEF Init
<1>4. Honest
  BY <1>1, <1>2, <1>3 DEF Honest, AllGood
<1>5. Complete
  BY <1>1, <1>2 DEF Complete, Awaited, Steady
<1>. QED
  BY <1>4, <1>5

\* Whatever rows the runs have gathered, and those in the file, say what their own game says:
\* of a doubleheader that the run saw whole, the n-th ticker gets the n-th start, and the
\* favourite, its price and its profit are of that game's window.
THEOREM RowsAreOfTheirGames == Spec => []RowIsOfItsGame
<1>1. Honest => RowIsOfItsGame
  BY DEF Honest, AllGood, Good, RowIsOfItsGame
<1>2. Init => Honest
  BY InitFinds
<1>3. TypeOK /\ Gathered /\ Current /\ Honest /\ [Next]_vars => Honest'
  BY HonestStep
<1>. QED
  BY <1>1, <1>2, <1>3, DatasetTypeCorrect, PTL DEF Spec

\* Over both endpoints, the padded schedule, the join and the second look at the file, a run
\* that lost no call drops no game that had settled when it began.
THEOREM NothingIsMissed == Spec => []CleanRunIsComplete
<1>1. Complete => CleanRunIsComplete
  BY DEF Complete, Awaited, CleanRunIsComplete
<1>2. Init => Complete
  BY InitFinds
<1>3. TypeOK /\ Gathered /\ Current /\ Complete /\ [Next]_vars => Complete'
  BY CompleteStep
<1>. QED
  BY <1>1, <1>2, <1>3, DatasetTypeCorrect, PTL DEF Spec
=============================================================================
