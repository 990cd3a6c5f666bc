------------------------ MODULE OrderLifecycleProofs ------------------------
(***************************************************************************)
(* What holds of OrderLifecycle for any games, any tickers, and any number *)
(* of crashes and failed writes.                                           *)
(***************************************************************************)
EXTENDS OrderLifecycle, FiniteSetTheorems, TLAPS

\* A thread that works on an order has picked one, and a game's job one of its
\* own game.
Ordering == {"begin", "check", "post", "await", "track", "lookup", "absent", "guess"}
Handling == {"lookup", "absent", "track", "attribute", "attach", "book"}

PickOK ==
    /\ \A g \in Games : pc[g] \in Ordering => pick[g] \in Tickers /\ GameOf[pick[g]] = g
    /\ pc[Health] \in Handling => pick[Health] \in Tickers

Typed == TypeOK /\ PickOK

LEMMA TypedInit == Init => Typed
<1>. SUFFICES ASSUME Init PROVE Typed
  OBVIOUS
<1>1. TypeOK
  <2>1. pc \in [Actors -> GamePCs \union HealthPCs]
    BY DEF Init, GamePCs
  <2>2. epoch \in 0 .. MaxCrashes /\ faults \in 0 .. MaxFaults
    BY BoundsType DEF Init
  <2>3. /\ row \in [Tickers -> Outcomes]
        /\ adopted \in [Tickers -> SUBSET {"bare", "id"}]
    BY DEF Init, Outcomes
  <2>4. setups \in 0 .. MaxSetups
    BY BoundsType DEF Init
  <2>5. /\ age \in [Games -> Nat] /\ jobs \in [Games -> Nat] /\ credit \in [Games -> Int]
        /\ posts \in [Tickers -> Nat]
    BY DEF Init
  <2>6. mode \in {"down", "starting", "up"} /\ lock \in Actors \union {Free}
        /\ pick \in [Actors -> Tickers \union {NoTicker}] /\ paused \in BOOLEAN
    BY DEF Init
  <2>. QED
    BY <2>1, <2>2, <2>3, <2>4, <2>5, <2>6 DEF Init, TypeOK
<1>2. PickOK
  BY DEF Init, PickOK, Ordering, Handling, Actors
<1>. QED
  BY <1>1, <1>2 DEF Typed

\* Kalshi moves the market's side only.
LEMMA TypedKalshi ==
  ASSUME Typed, Kalshi
  PROVE  Typed'
<1>. USE DEF Typed, TypeOK, PickOK, disk, memory, rest, planning, looked
<1>1. ASSUME NEW r \in wire, Accept(r) \/ RejectDuplicate(r) \/ Refuse(r) \/ Lose(r)
      PROVE  Typed'
  BY <1>1 DEF Accept, RejectDuplicate, Refuse, Lose, Reply
<1>2. ASSUME NEW t \in Tickers, Fill(t)
      PROVE  Typed'
  BY <1>2 DEF Fill
<1>3. ASSUME NEW g \in Games, TipOff(g) \/ GrowOld(g)
      PROVE  Typed'
  BY <1>3 DEF TipOff, GrowOld, tipped
<1>. QED
  BY <1>1, <1>2, <1>3 DEF Kalshi

\* Only sync writes lots and rows of several tickers at once.
LEMMA TypedSync ==
  ASSUME Typed, NEW noGrace \in SUBSET Tickers, Sync(noGrace)
  PROVE  /\ lots' \subseteq Tickers /\ checks' \subseteq Tickers /\ unbooked' \subseteq Tickers
         /\ row' \in [Tickers -> Outcomes]
         /\ adopted' \in [Tickers -> SUBSET {"bare", "id"}] /\ fired' \subseteq Games
         /\ misread' \subseteq Tickers /\ faults' \in 0 .. MaxFaults
  BY BoundsType DEF Typed, TypeOK, Sync, MayDrop, Outcomes, LedgerFault

LEMMA TypedBook ==
  ASSUME Typed, BookPositions
  PROVE  /\ adopted' \in [Tickers -> SUBSET {"bare", "id"}] /\ unbooked' \subseteq Tickers
         /\ faults' \in 0 .. MaxFaults
  BY BoundsType DEF Typed, TypeOK, BookPositions, LedgerFault

LEMMA TypedWithOutcome ==
  ASSUME Typed, NEW t, NEW outcome \in Settable
  PROVE  WithOutcome(t, outcome) \in [Tickers -> Outcomes]
  BY DEF Typed, TypeOK, WithOutcome, SetOutcome, Outcomes

LEMMA TypedAsPlaced ==
  ASSUME Typed, NEW t
  PROVE  AsPlaced(t) \in [Tickers -> Outcomes]
  BY DEF Typed, TypeOK, AsPlaced, Outcomes

LEMMA TypedFault ==
  ASSUME Typed, LedgerFault
  PROVE  faults' \in 0 .. MaxFaults
  BY BoundsType DEF Typed, TypeOK, LedgerFault

LEMMA TypedQueue ==
  ASSUME Typed, NEW g \in Games, Queue(g)
  PROVE  jobs' \in [Games -> Nat]
  BY DEF Typed, TypeOK, Queue

LEMMA TypedResolving ==
  ASSUME Typed, Resolving
  PROVE  Typed'
<1>. USE DistinctActors DEF Typed, TypeOK, PickOK, kalshi, disk, rest, planning,
                            looked, Goto, Actors,
                            AfterResolve, GamePCs, HealthPCs, Ordering, Handling
<1>. PICK a \in Games \union {Health} :
        LookupFails(a) \/ LookupMisses(a) \/ WriteAbsent(a) \/ LookupFinds(a) \/ Track(a)
  BY DEF Resolving
<1>1. CASE LookupFails(a)
  BY <1>1 DEF LookupFails
<1>2. CASE LookupMisses(a)
  BY <1>2 DEF LookupMisses
<1>3. CASE WriteAbsent(a)
  BY <1>3, TypedWithOutcome DEF WriteAbsent, Settable
<1>4. CASE LookupFinds(a)
  BY <1>4, TypedAsPlaced DEF LookupFinds
<1>5. CASE Track(a)
  BY <1>5 DEF Track
<1>. QED
  BY <1>1, <1>2, <1>3, <1>4, <1>5

LEMMA TypedPreGame ==
  ASSUME Typed, NEW g \in Games, PreGame(g)
  PROVE  Typed'
<1>. USE DistinctActors DEF Typed, TypeOK, PickOK, kalshi, disk, memory, rest,
                            planning, looked, Goto, Actors,
                            GamePCs, HealthPCs, Ordering, Handling
<1>1. CASE Start(g) \/ LockTimeout(g) \/ Retry(g) \/ Skip(g)
  BY <1>1, TypedQueue DEF Start, LockTimeout, Retry, Skip
<1>2. CASE EvalSync(g)
  BY <1>2, TypedSync DEF EvalSync
<1>3. CASE EvalAdopt(g)
  BY <1>3, TypedBook DEF EvalAdopt
<1>4. ASSUME NEW t \in Tickers, Buy(g, t)
      PROVE  Typed'
  BY <1>4 DEF Buy
<1>5. CASE BeginOrder(g)
  BY <1>5 DEF BeginOrder, Outcomes
<1>6. CASE BeginOrderFails(g)
  BY <1>6, TypedFault DEF BeginOrderFails
<1>7. CASE AlreadyBegun(g)
  BY <1>7 DEF AlreadyBegun
<1>8. CASE Recheck(g)
  BY <1>8, TypedFault, TypedWithOutcome DEF Recheck, WriteOutcome, Settable
<1>9. CASE Post(g)
  BY <1>9 DEF Post
<1>10. CASE Accepted(g)
  BY <1>10, TypedFault, TypedAsPlaced DEF Accepted
<1>11. CASE Refused(g)
  BY <1>11, TypedFault, TypedWithOutcome DEF Refused, WriteOutcome, Settable
<1>12. CASE OutcomeUnknown(g)
  BY <1>12, TypedFault, TypedWithOutcome DEF OutcomeUnknown, WriteOutcome, Settable
<1>13. CASE GuessFromPositions(g)
  BY <1>13 DEF GuessFromPositions
<1>14. CASE Release(g)
  BY <1>14 DEF Release
<1>15. CASE MarkFired(g)
  BY <1>15, TypedFault DEF MarkFired
<1>. QED
  BY <1>1, <1>2, <1>3, <1>4, <1>5, <1>6, <1>7, <1>8, <1>9, <1>10, <1>11, <1>12, <1>13,
     <1>14, <1>15 DEF PreGame

LEMMA TypedSetup ==
  ASSUME Typed, Setup
  PROVE  Typed'
<1>. USE BoundsType DEF Typed, TypeOK, PickOK, kalshi, disk, memory, looked
<1>1. CASE SetupAgain
  BY <1>1 DEF SetupAgain, BeginSetup
<1>2. ASSUME NEW g \in Games, SetupPlaces(g)
      PROVE  Typed'
  BY <1>2, TypedQueue DEF SetupPlaces
<1>3. ASSUME NEW g \in Games, SetupOmits(g)
      PROVE  Typed'
  BY <1>3 DEF SetupOmits
<1>. QED
  BY <1>1, <1>2, <1>3 DEF Setup

LEMMA TypedHealthJob ==
  ASSUME Typed, HealthJob
  PROVE  Typed'
<1>. USE DistinctActors DEF Typed, TypeOK, PickOK, kalshi, disk, memory, rest,
                            planning, looked, Goto, Actors,
                            GamePCs, HealthPCs, Ordering, Handling, RowsIn
<1>1. CASE Restart \/ ResolveNext \/ Requeue \/ HealthLock \/ HealthNoLock
  BY <1>1 DEF Restart, ResolveNext, Requeue, HealthLock, HealthNoLock
<1>2. CASE HealthSync
  BY <1>2, TypedSync DEF HealthSync
<1>3. CASE HealthSyncFails
  BY <1>3 DEF HealthSyncFails
<1>4. CASE HealthAdopt
  BY <1>4, TypedBook DEF HealthAdopt
<1>5. CASE ListFills \/ RouteFill
  BY <1>5 DEF ListFills, RouteFill, Route
<1>6. CASE AttributeFill
  BY <1>6, TypedAsPlaced DEF AttributeFill
<1>7. CASE AttachFill
  BY <1>7 DEF AttachFill
<1>8. CASE BookFill
  BY <1>8 DEF BookFill
<1>9. CASE HealthEnd
  BY <1>9 DEF HealthEnd, BeginSetup
<1>. QED
  BY <1>1, <1>2, <1>3, <1>4, <1>5, <1>6, <1>7, <1>8, <1>9 DEF HealthJob

LEMMA TypedFillChecks ==
  ASSUME Typed, FillChecks
  PROVE  Typed'
<1>. USE DistinctActors DEF Typed, TypeOK, PickOK, kalshi, disk, memory, rest,
                            planning, looked, Goto, Actors,
                            GamePCs, HealthPCs, Ordering, Handling
<1>1. CASE FillCheckAdopt
  BY <1>1, TypedBook DEF FillCheckAdopt
<1>2. ASSUME NEW t \in Tickers, FillCheck(t)
      PROVE  Typed'
  BY <1>2, TypedSync DEF FillCheck
<1>3. ASSUME NEW t \in Tickers, FillCheckFails(t)
      PROVE  Typed'
  BY <1>3 DEF FillCheckFails
<1>. QED
  BY <1>1, <1>2, <1>3 DEF FillChecks

LEMMA TypedCrash ==
  ASSUME Typed, Crash
  PROVE  Typed'
  BY BoundsType DEF Typed, TypeOK, PickOK, disk, Crash, Actors, GamePCs, Ordering, Handling

LEMMA TypedTogglePause ==
  ASSUME Typed, TogglePause
  PROVE  Typed'
  BY DEF Typed, TypeOK, PickOK, kalshi, disk, memory, TogglePause, planning, looked

LEMMA TypedStutter ==
  ASSUME Typed, UNCHANGED vars
  PROVE  Typed'
  BY DEF Typed, TypeOK, PickOK, vars, kalshi, disk, memory, rest, planning, looked

LEMMA TypedNext == Typed /\ [Next]_vars => Typed'
  BY TypedKalshi, TypedResolving, TypedSetup, TypedPreGame, TypedHealthJob, TypedFillChecks,
     TypedCrash, TypedTogglePause, TypedStutter DEF Next

LEMMA TypedAlways == Spec => []Typed
  BY TypedInit, TypedNext, PTL DEF Spec

\* TypeOK of OrderLifecycle.tla, for every value of the constants: no step leaves
\* its types, and in particular no step touches an order it has not picked.
THEOREM TypeCorrect == Spec => []TypeOK
<1>1. Typed => TypeOK
  BY DEF Typed
<1>. QED
  BY TypedAlways, <1>1, PTL

-----------------------------------------------------------------------------
(* What Kalshi, the daily setup and the operator leave alone *)

LEMMA Aside ==
  ASSUME Kalshi \/ Setup \/ TogglePause \/ UNCHANGED vars
  PROVE  UNCHANGED <<disk, mode, lock, pc, pick, checks, noRow, unbooked, todo, snap, epoch,
                     faults, posts, blind, misread, loose, marks, fetched, known>>
<1>. USE DEF memory, rest, planning, looked
<1>1. CASE Kalshi
  BY <1>1 DEF Kalshi, Accept, RejectDuplicate, Refuse, Lose, Fill, TipOff, GrowOld
<1>2. CASE Setup
  BY <1>2 DEF Setup, SetupAgain, SetupPlaces, SetupOmits
<1>3. CASE TogglePause \/ UNCHANGED vars
  BY <1>3 DEF TogglePause, vars
<1>. QED
  BY <1>1, <1>2, <1>3

LEMMA AsideKalshi ==
  ASSUME Setup \/ TogglePause \/ UNCHANGED vars
  PROVE  UNCHANGED kalshi
  BY DEF Setup, SetupAgain, SetupPlaces, SetupOmits, TogglePause, vars

-----------------------------------------------------------------------------
(* Who holds _TRADE_LOCK *)

Locked == {"sync", "adopt", "decide", "release"} \union Ordering

\* A job holds the lock from Start to Release or Retry, the health thread from
\* HealthLock to the end of its sync, a fill check during its own.
Exclusive ==
    /\ \A g \in Games : pc[g] \in Locked => lock = g
    /\ pc[Health] \in {"resolve", "adopt"} => lock = Health
    /\ pc[Checker] = "adopt" => lock = Checker

LEMMA ExclusiveNext ==
  ASSUME Typed, Exclusive, [Next]_vars
  PROVE  Exclusive'
<1>. USE DistinctActors DEF Typed, TypeOK, Exclusive, Locked, Ordering, Goto, Actors
<1>1. CASE Kalshi \/ Setup \/ TogglePause \/ UNCHANGED vars
  BY <1>1, Aside
<1>2. CASE Resolving
  BY <1>2 DEF Resolving, LookupFails, LookupMisses, WriteAbsent, LookupFinds, Track, AfterResolve
<1>3. ASSUME NEW g \in Games, PreGame(g)
      PROVE  Exclusive'
  <2>1. CASE Start(g) \/ LockTimeout(g) \/ Retry(g) \/ Skip(g) \/ EvalSync(g) \/ EvalAdopt(g)
    BY <1>3, <2>1 DEF Start, LockTimeout, Retry, Skip, EvalSync, EvalAdopt
  <2>2. CASE \/ \E t \in Tickers : Buy(g, t)
             \/ BeginOrder(g) \/ BeginOrderFails(g) \/ AlreadyBegun(g) \/ Recheck(g) \/ Post(g)
    BY <1>3, <2>2 DEF Buy, BeginOrder, BeginOrderFails, AlreadyBegun, Recheck, Post
  <2>3. CASE Accepted(g) \/ Refused(g) \/ OutcomeUnknown(g) \/ GuessFromPositions(g)
    BY <1>3, <2>3 DEF Accepted, Refused, OutcomeUnknown, GuessFromPositions
  <2>4. CASE Release(g) \/ MarkFired(g)
    BY <1>3, <2>4 DEF Release, MarkFired
  <2>. QED
    BY <1>3, <2>1, <2>2, <2>3, <2>4 DEF PreGame
<1>4. CASE HealthJob
  BY <1>4 DEF HealthJob, Restart, ResolveNext, Requeue, HealthLock, HealthNoLock, HealthSync,
              HealthSyncFails, HealthAdopt, ListFills, RouteFill, Route, AttributeFill,
              AttachFill, BookFill, HealthEnd
<1>5. CASE FillChecks
  <2>1. CASE FillCheckAdopt
    BY <2>1 DEF FillCheckAdopt
  <2>2. ASSUME NEW t \in Tickers, FillCheck(t)
        PROVE  Exclusive'
    BY <2>2 DEF FillCheck
  <2>3. ASSUME NEW t \in Tickers, FillCheckFails(t)
        PROVE  Exclusive'
    BY <2>3 DEF FillCheckFails
  <2>. QED
    BY <1>5, <2>1, <2>2, <2>3 DEF FillChecks
<1>6. CASE Crash
  BY <1>6 DEF Crash
<1>. QED
  BY <1>1, <1>2, <1>3, <1>4, <1>5, <1>6 DEF Next

LEMMA ExclusiveAlways == Spec => []Exclusive
<1>1. Init => Exclusive
  BY DistinctActors DEF Init, Exclusive, Locked, Ordering, Actors
<1>. QED
  BY <1>1, TypedAlways, ExclusiveNext, PTL DEF Spec

-----------------------------------------------------------------------------
(* What a step may do to the ledger's own rows and to the POSTs sent *)

\* A row, once begun, is never forgotten.
LEMMA RowsStay ==
  ASSUME Typed, [Next]_vars
  PROVE  \A t \in Tickers : row[t] # "none" => row'[t] # "none"
<1>. USE DEF Typed, TypeOK, WithOutcome, SetOutcome, AsPlaced, Settable, disk
<1>1. CASE Kalshi \/ Setup \/ TogglePause \/ UNCHANGED vars \/ Crash
  BY <1>1, Aside DEF Crash
<1>2. CASE Resolving
  BY <1>2 DEF Resolving, LookupFails, LookupMisses, WriteAbsent, LookupFinds, Track
<1>3. ASSUME NEW g \in Games, PreGame(g)
      PROVE  \A t \in Tickers : row[t] # "none" => row'[t] # "none"
  <2>1. CASE EvalSync(g)
    BY <2>1 DEF EvalSync, Sync
  <2>2. CASE \/ Start(g) \/ LockTimeout(g) \/ Retry(g) \/ Skip(g) \/ EvalAdopt(g)
             \/ \E t \in Tickers : Buy(g, t)
             \/ BeginOrder(g) \/ BeginOrderFails(g) \/ AlreadyBegun(g)
    BY <2>2 DEF Start, LockTimeout, Retry, Skip, EvalAdopt, Buy, BeginOrder, BeginOrderFails,
                AlreadyBegun
  <2>3. CASE \/ Recheck(g) \/ Post(g) \/ Accepted(g) \/ Refused(g) \/ OutcomeUnknown(g)
             \/ GuessFromPositions(g) \/ Release(g) \/ MarkFired(g)
    BY <2>3 DEF Recheck, WriteOutcome, Post, Accepted, Refused, OutcomeUnknown,
                GuessFromPositions, Release, MarkFired
  <2>. QED
    BY <1>3, <2>1, <2>2, <2>3 DEF PreGame
<1>4. CASE HealthJob
  <2>1. CASE HealthSync
    BY <2>1 DEF HealthSync, Sync
  <2>2. CASE AttributeFill
    BY <2>2 DEF AttributeFill
  <2>. QED
    BY <1>4, <2>1, <2>2 DEF HealthJob, Restart, ResolveNext, Requeue, HealthLock, HealthNoLock,
       HealthSyncFails, HealthAdopt, ListFills, RouteFill, AttachFill, BookFill, HealthEnd
<1>5. CASE FillChecks
  <2>1. ASSUME NEW u \in Tickers, FillCheck(u)
        PROVE  \A t \in Tickers : row[t] # "none" => row'[t] # "none"
    BY <2>1 DEF FillCheck, Sync
  <2>. QED
    BY <1>5, <2>1 DEF FillChecks, FillCheckAdopt, FillCheckFails
<1>. QED
  BY <1>1, <1>2, <1>3, <1>4, <1>5 DEF Next

\* Only Post sends, and only it makes an order blind.
LEMMA SendFrame ==
  ASSUME [Next]_vars, \A g \in Games : ~Post(g)
  PROVE  UNCHANGED <<posts, blind>>
<1>. USE DEF rest
<1>1. CASE Kalshi \/ Setup \/ TogglePause \/ UNCHANGED vars \/ Crash
  BY <1>1, Aside DEF Crash
<1>2. CASE Resolving
  BY <1>2 DEF Resolving, LookupFails, LookupMisses, WriteAbsent, LookupFinds, Track
<1>3. ASSUME NEW g \in Games, PreGame(g)
      PROVE  UNCHANGED <<posts, blind>>
  BY <1>3 DEF PreGame, Start, LockTimeout, Retry, Skip, EvalSync, EvalAdopt, Buy, BeginOrder,
     BeginOrderFails, AlreadyBegun, Recheck, Accepted, Refused, OutcomeUnknown,
     GuessFromPositions, Release, MarkFired
<1>4. CASE HealthJob
  BY <1>4 DEF HealthJob, Restart, ResolveNext, Requeue, HealthLock, HealthNoLock, HealthSync,
     HealthSyncFails, HealthAdopt, ListFills, RouteFill, AttributeFill, AttachFill, BookFill,
     HealthEnd
<1>5. CASE FillChecks
  BY <1>5 DEF FillChecks, FillCheckAdopt, FillCheck, FillCheckFails
<1>. QED
  BY <1>1, <1>2, <1>3, <1>4, <1>5 DEF Next

\* A job is moved by its own steps only, save for the lookup it shares with the
\* health thread.
LEMMA JobFrame ==
  ASSUME Typed, [Next]_vars, NEW h \in Games, ~PreGame(h), ~Crash
  PROVE  /\ pick'[h] = pick[h] /\ (h \in noRow' <=> h \in noRow)
         /\ \/ pc'[h] = pc[h]
            \/ pc[h] \in {"lookup", "absent", "track"} /\ pc'[h] \in {"absent", "track", "release"}
<1>. USE DistinctActors DEF Typed, TypeOK, Goto, Actors
<1>1. CASE Kalshi \/ Setup \/ TogglePause \/ UNCHANGED vars
  BY <1>1, Aside
<1>2. CASE Resolving
  BY <1>2 DEF Resolving, LookupFails, LookupMisses, WriteAbsent, LookupFinds, Track, AfterResolve
<1>3. ASSUME NEW g \in Games, g # h, PreGame(g)
      PROVE  pick'[h] = pick[h] /\ (h \in noRow' <=> h \in noRow) /\ pc'[h] = pc[h]
  BY <1>3 DEF PreGame, Start, LockTimeout, Retry, Skip, EvalSync, EvalAdopt, Buy, BeginOrder,
     BeginOrderFails, AlreadyBegun, Recheck, Post, Accepted, Refused, OutcomeUnknown,
     GuessFromPositions, Release, MarkFired
<1>4. CASE HealthJob
  BY <1>4 DEF HealthJob, Restart, ResolveNext, Requeue, HealthLock, HealthNoLock, HealthSync,
     HealthSyncFails, HealthAdopt, ListFills, RouteFill, AttributeFill, AttachFill, BookFill,
     HealthEnd
<1>5. CASE FillChecks
  BY <1>5 DEF FillChecks, FillCheckAdopt, FillCheck, FillCheckFails
<1>. QED
  BY <1>1, <1>2, <1>3, <1>4, <1>5 DEF Next

-----------------------------------------------------------------------------
(* No order is sent twice *)

\* A job about to send, with a row, is the first to send this order: begin_order
\* made the row, and whatever was sent before has one.
SendOnce ==
    /\ \A t \in Tickers \ blind : posts[t] <= 1 /\ (posts[t] > 0 => row[t] # "none")
    /\ \A g \in Games : pc[g] \in {"check", "post"} /\ g \notin noRow =>
          /\ row[pick[g]] # "none"
          /\ pick[g] \in blind \/ posts[pick[g]] = 0

LEMMA SendOnceNext ==
  ASSUME Typed, SendOnce, [Next]_vars
  PROVE  SendOnce'
<1>. USE DEF Typed, TypeOK, PickOK, SendOnce, Ordering
<1>1. \A t \in Tickers : row[t] # "none" => row'[t] # "none"
  BY RowsStay
<1>2. CASE Crash
  BY <1>2, SendFrame DEF Crash, Post, disk, Actors
<1>3. ASSUME NEW g \in Games, Post(g), ~Crash
      PROVE  SendOnce'
  <2>1. pick[g] \in Tickers /\ GameOf[pick[g]] = g
    BY <1>3 DEF Post
  <2>2. /\ posts' = [posts EXCEPT ![pick[g]] = @ + 1]
        /\ blind' = IF g \in noRow THEN blind \union {pick[g]} ELSE blind
    BY <1>3 DEF Post
  <2>3. row' = row /\ noRow' = noRow /\ pick' = pick /\ pc' = [pc EXCEPT ![g] = "await"]
    BY <1>3 DEF Post, disk, Goto
  <2>4. posts[pick[g]] \in Nat
    BY <2>1
  <2>5. \A t \in Tickers \ blind' : posts'[t] <= 1 /\ (posts'[t] > 0 => row'[t] # "none")
    BY <1>3, <2>1, <2>2, <2>3, <2>4 DEF Post
  <2>6. ASSUME NEW h \in Games, pc'[h] \in {"check", "post"}, h \notin noRow'
        PROVE  row'[pick'[h]] # "none" /\ (pick'[h] \in blind' \/ posts'[pick'[h]] = 0)
    <3>1. h # g /\ pc[h] \in {"check", "post"}
      BY <2>3, <2>6 DEF Actors
    <3>2. pick[h] \in Tickers /\ pick[h] # pick[g]
      BY <2>1, <3>1
    <3>. QED
      BY <2>2, <2>3, <2>6, <3>1, <3>2
  <2>. QED
    BY <2>5, <2>6
<1>4. CASE (\A g \in Games : ~Post(g)) /\ ~Crash
  <2>1. UNCHANGED <<posts, blind>>
    BY <1>4, SendFrame
  <2>2. ASSUME NEW h \in Games, pc'[h] \in {"check", "post"}, h \notin noRow'
        PROVE  row'[pick'[h]] # "none" /\ (pick'[h] \in blind \/ posts[pick'[h]] = 0)
    <3>1. CASE ~PreGame(h)
      BY <1>1, <1>4, <2>2, <3>1, JobFrame
    <3>2. CASE BeginOrder(h)
      BY <2>2, <3>2 DEF BeginOrder, Goto, rest, Actors
    <3>3. CASE Recheck(h)
      BY <1>1, <2>2, <3>3 DEF Recheck, Goto, Actors
    <3>4. CASE BeginOrderFails(h)
      BY <2>2, <3>4 DEF BeginOrderFails
    <3>5. CASE LockTimeout(h) \/ MarkFired(h)
      BY <1>1, <2>2, <3>5 DEF LockTimeout, MarkFired
    <3>6. CASE \/ Start(h) \/ Retry(h) \/ Skip(h) \/ EvalSync(h) \/ EvalAdopt(h)
               \/ \E t \in Tickers : Buy(h, t)
               \/ AlreadyBegun(h) \/ Accepted(h) \/ Refused(h) \/ OutcomeUnknown(h)
               \/ GuessFromPositions(h) \/ Release(h)
      BY <2>2, <3>6 DEF Start, Retry, Skip, EvalSync, EvalAdopt, Buy, AlreadyBegun, Accepted,
         Refused, OutcomeUnknown, GuessFromPositions, Release, Goto, Actors
    <3>. QED
      BY <1>4, <3>1, <3>2, <3>3, <3>4, <3>5, <3>6 DEF PreGame
  <2>. QED
    BY <1>1, <2>1, <2>2
<1>. QED
  BY <1>2, <1>3, <1>4

LEMMA SendOnceAlways == Spec => []SendOnce
<1>1. Init => SendOnce
  BY DEF Init, SendOnce, Actors
<1>. QED
  BY <1>1, TypedAlways, SendOnceNext, PTL DEF Spec

\* AtMostOnePost of OrderLifecycle.tla, for every value of the constants: whatever
\* crashes, failed writes, late replies and re-evaluations, an order with a
\* write-ahead row is sent at most once.
THEOREM SentAtMostOnce == Spec => []AtMostOnePost
<1>1. SendOnce => AtMostOnePost
  BY DEF SendOnce, AtMostOnePost
<1>. QED
  BY SendOnceAlways, <1>1, PTL

-----------------------------------------------------------------------------
(* A fired game stays fired *)

\* What is under way is under way in a process that is up.
UpToDate == \A g \in Games : Pends(g) \/ g \in marks => mode = "up"

\* Nothing is pending for a game that is marked fired, but what was pending when
\* the mark was made: a setup plans the games that are not marked.
Settled == \A g \in fired \ loose : ~Pends(g)

LEMMA UpToDateNext ==
  ASSUME Typed, UpToDate, [Next]_vars
  PROVE  UpToDate'
<1>. USE DistinctActors DEF Typed, TypeOK, UpToDate, Pends, Goto, Actors, memory, rest, planning
<1>1. CASE Kalshi \/ TogglePause \/ UNCHANGED vars
  BY <1>1 DEF Kalshi, Accept, RejectDuplicate, Refuse, Lose, Fill, TipOff, GrowOld, TogglePause,
              vars
<1>2. CASE Setup
  BY <1>2 DEF Setup, SetupAgain, BeginSetup, SetupPlaces, SetupOmits, Queue
<1>3. CASE Resolving
  BY <1>3 DEF Resolving, LookupFails, LookupMisses, WriteAbsent, LookupFinds, Track
<1>4. ASSUME NEW g \in Games, PreGame(g)
      PROVE  UpToDate'
  <2>1. CASE Start(g) \/ LockTimeout(g) \/ Skip(g) \/ EvalSync(g) \/ EvalAdopt(g)
    BY <2>1 DEF Start, LockTimeout, Skip, EvalSync, EvalAdopt
  <2>2. CASE Retry(g)
    BY <2>2 DEF Retry, Queue
  <2>3. CASE Release(g) \/ MarkFired(g)
    BY <2>3 DEF Release, MarkFired
  <2>. QED
    BY <1>4, <2>1, <2>2, <2>3 DEF PreGame, Buy, BeginOrder, BeginOrderFails, AlreadyBegun,
       Recheck, Post, Accepted, Refused, OutcomeUnknown, GuessFromPositions
<1>5. CASE HealthJob
  BY <1>5 DEF HealthJob, Restart, ResolveNext, Requeue, HealthLock, HealthNoLock, HealthSync,
     HealthSyncFails, HealthAdopt, ListFills, RouteFill, AttributeFill, AttachFill, BookFill,
     HealthEnd
<1>6. CASE FillChecks
  BY <1>6 DEF FillChecks, FillCheckAdopt, FillCheck, FillCheckFails
<1>7. CASE Crash
  BY <1>7 DEF Crash
<1>. QED
  BY <1>1, <1>2, <1>3, <1>4, <1>5, <1>6, <1>7 DEF Next

LEMMA UpToDateAlways == Spec => []UpToDate
<1>1. Init => UpToDate
  BY DEF Init, UpToDate, Pends, Actors
<1>. QED
  BY <1>1, TypedAlways, UpToDateNext, PTL DEF Spec

LEMMA SettledNext ==
  ASSUME Typed, Settled, [Next]_vars
  PROVE  Settled'
<1>. USE DistinctActors DEF Typed, TypeOK, Settled, Pends, Goto, Actors, disk, memory, rest,
                            planning, looked
<1>1. CASE Kalshi \/ TogglePause \/ UNCHANGED vars
  BY <1>1 DEF Kalshi, Accept, RejectDuplicate, Refuse, Lose, Fill, TipOff, GrowOld, TogglePause,
              vars
<1>2. CASE Setup
  BY <1>2 DEF Setup, SetupAgain, BeginSetup, SetupPlaces, SetupOmits, Queue
<1>3. CASE Resolving
  BY <1>3 DEF Resolving, LookupFails, LookupMisses, WriteAbsent, LookupFinds, Track
<1>4. ASSUME NEW g \in Games, PreGame(g)
      PROVE  Settled'
  <2>1. CASE Start(g) \/ LockTimeout(g) \/ Skip(g)
    BY <2>1 DEF Start, LockTimeout, Skip
  <2>2. CASE Retry(g)
    BY <2>2 DEF Retry, Queue
  <2>3. CASE EvalSync(g) \/ EvalAdopt(g)
    BY <2>3 DEF EvalSync, Sync, EvalAdopt
  <2>4. CASE Release(g)
    BY <2>4 DEF Release
  <2>5. CASE MarkFired(g)
    BY <2>5 DEF MarkFired
  <2>. QED
    BY <1>4, <2>1, <2>2, <2>3, <2>4, <2>5 DEF PreGame, Buy, BeginOrder, BeginOrderFails,
       AlreadyBegun, Recheck, Post, Accepted, Refused, OutcomeUnknown, GuessFromPositions
<1>5. CASE HealthJob
  <2>1. CASE HealthSync
    BY <2>1 DEF HealthSync, Sync
  <2>2. CASE HealthEnd
    BY <2>2 DEF HealthEnd, BeginSetup
  <2>. QED
    BY <1>5, <2>1, <2>2 DEF HealthJob, Restart, ResolveNext, Requeue, HealthLock, HealthNoLock,
       HealthSyncFails, HealthAdopt, ListFills, RouteFill, AttributeFill, AttachFill, BookFill
<1>6. CASE FillChecks
  BY <1>6 DEF FillChecks, FillCheckAdopt, FillCheck, Sync, FillCheckFails
<1>7. CASE Crash
  BY <1>7 DEF Crash
<1>. QED
  BY <1>1, <1>2, <1>3, <1>4, <1>5, <1>6, <1>7 DEF Next

LEMMA SettledAlways == Spec => []Settled
<1>1. Init => Settled
  BY DEF Init, Settled
<1>. QED
  BY <1>1, TypedAlways, SettledNext, PTL DEF Spec

\* FiredIsFinal of OrderLifecycle.tla, for every value of the constants: through
\* crashes, rollovers and setups that read the marks while games are evaluated, an
\* order of a game marked fired is sent only by an evaluation that was pending when
\* the mark was made.
THEOREM FiredForGood == Spec => FiredIsFinal
<1>1. ASSUME Typed, Settled, [Next]_vars
      PROVE  [\A t \in Tickers : posts'[t] # posts[t] => GameOf[t] \notin fired \ loose]_vars
  <2>1. CASE \A g \in Games : ~Post(g)
    BY <1>1, <2>1, SendFrame
  <2>2. ASSUME NEW g \in Games, Post(g)
        PROVE  \A t \in Tickers : posts'[t] # posts[t] => GameOf[t] \notin fired \ loose
    <3>1. pick[g] \in Tickers /\ GameOf[pick[g]] = g /\ g \notin fired \ loose
      BY <1>1, <2>2 DEF Typed, PickOK, Settled, Pends, Ordering, Post
    <3>2. \A t \in Tickers : posts'[t] # posts[t] => t = pick[g]
      BY <1>1, <2>2, <3>1 DEF Typed, TypeOK, Post
    <3>. QED
      BY <3>1, <3>2
  <2>. QED
    BY <2>1, <2>2
<1>. QED
  BY <1>1, TypedAlways, SettledAlways, PTL DEF Spec, FiredIsFinal

-----------------------------------------------------------------------------
(* The ledger claims no trade that Kalshi does not have *)

\* Orders and fills do not disappear from Kalshi.
LEMMA OrdersStay ==
  ASSUME Typed, [Next]_vars
  PROVE  /\ \A t \in Tickers : order[t] # "none" => order'[t] # "none"
         /\ held \subseteq held'
<1>. USE DEF Typed, TypeOK, kalshi
<1>1. CASE Setup \/ TogglePause \/ UNCHANGED vars \/ Crash
  BY <1>1, AsideKalshi DEF Crash
<1>6. CASE Kalshi
  BY <1>6 DEF Kalshi, Accept, RejectDuplicate, Refuse, Lose, Fill, TipOff, GrowOld
<1>2. CASE Resolving
  BY <1>2 DEF Resolving, LookupFails, LookupMisses, WriteAbsent, LookupFinds, Track
<1>3. ASSUME NEW g \in Games, PreGame(g)
      PROVE  UNCHANGED <<order, held>>
  BY <1>3 DEF PreGame, Start, LockTimeout, Retry, Skip, EvalSync, EvalAdopt, Buy, BeginOrder,
     BeginOrderFails, AlreadyBegun, Recheck, Post, Accepted, Refused, OutcomeUnknown,
     GuessFromPositions, Release, MarkFired
<1>4. CASE HealthJob
  BY <1>4 DEF HealthJob, Restart, ResolveNext, Requeue, HealthLock, HealthNoLock, HealthSync,
     HealthSyncFails, HealthAdopt, ListFills, RouteFill, AttributeFill, AttachFill, BookFill,
     HealthEnd
<1>5. CASE FillChecks
  BY <1>5 DEF FillChecks, FillCheckAdopt, FillCheck, FillCheckFails
<1>. QED
  BY <1>1, <1>2, <1>3, <1>4, <1>5, <1>6 DEF Next

\* What reaches the ledger comes from Kalshi: a position, a fill, a lookup or the
\* reply to the job that waits, and only one job ever waits.
FromKalshi ==
    /\ \A t \in held : order[t] # "none"
    /\ unbooked \subseteq held
    /\ pc[Health] \in {"fills", "attribute", "attach", "book"} => todo \subseteq held
    /\ pc[Health] \in {"attribute", "attach", "book"} => pick[Health] \in held
    /\ answer = "ok" => \A g \in Games : pc[g] = "await" => order[pick[g]] # "none"
    /\ PlacedIsReal

LEMMA FromKalshiNext ==
  ASSUME Typed, Exclusive, FromKalshi, [Next]_vars
  PROVE  FromKalshi'
<1>. USE DistinctActors DEF Typed, TypeOK, FromKalshi, PlacedIsReal, Tracked, Goto, Actors,
                            kalshi, disk, memory, rest
<1>1. (\A t \in Tickers : order[t] # "none" => order'[t] # "none") /\ held \subseteq held'
  BY OrdersStay
<1>2. CASE Kalshi
  <2>1. UNCHANGED <<disk, memory>>
    BY <1>2 DEF Kalshi, Accept, RejectDuplicate, Refuse, Lose, Fill, TipOff, GrowOld
  <2>2. \A t \in held' : order'[t] # "none"
    BY <1>2 DEF Kalshi, Accept, RejectDuplicate, Refuse, Lose, Fill, TipOff, GrowOld
  <2>3. answer' = "ok" => \A g \in Games : pc[g] = "await" => order'[pick[g]] # "none"
    <3>1. ASSUME NEW r \in wire, Accept(r)
          PROVE  answer' = "ok" => \A g \in Games : pc[g] = "await" => order'[pick[g]] # "none"
      BY <1>1, <3>1 DEF Accept, Reply, Waiting, Exclusive, Locked, Ordering, PickOK
    <3>2. ASSUME NEW r \in wire, RejectDuplicate(r) \/ Refuse(r) \/ Lose(r)
          PROVE  answer' = "ok" => answer = "ok" /\ order' = order
      BY <3>2 DEF RejectDuplicate, Refuse, Lose, Reply
    <3>3. CASE (\E t \in Tickers : Fill(t)) \/ (\E g \in Games : TipOff(g) \/ GrowOld(g))
      BY <1>1, <3>3 DEF Fill, TipOff, GrowOld, PickOK, Ordering
    <3>. QED
      BY <1>2, <3>1, <3>2, <3>3 DEF Kalshi
  <2>. QED
    BY <1>1, <2>1, <2>2, <2>3
<1>3. CASE Setup \/ TogglePause \/ UNCHANGED vars
  BY <1>3, Aside, AsideKalshi
<1>4. CASE Crash
  BY <1>4 DEF Crash
<1>5. CASE Resolving
  BY <1>5 DEF Resolving, LookupFails, LookupMisses, WriteAbsent, LookupFinds, Track, AfterResolve,
     WithOutcome, SetOutcome, Settable, AsPlaced, PickOK, Ordering, Handling
<1>6. ASSUME NEW g \in Games, PreGame(g)
      PROVE  FromKalshi'
  <2>1. CASE EvalSync(g)
    BY <2>1 DEF EvalSync, Sync
  <2>2. CASE EvalAdopt(g)
    BY <2>2 DEF EvalAdopt, BookPositions
  <2>3. CASE \/ Start(g) \/ LockTimeout(g) \/ Retry(g) \/ Skip(g) \/ \E t \in Tickers : Buy(g, t)
             \/ BeginOrder(g) \/ BeginOrderFails(g) \/ AlreadyBegun(g)
    BY <2>3 DEF Start, LockTimeout, Retry, Skip, Buy, BeginOrder, BeginOrderFails, AlreadyBegun
  <2>4. CASE Recheck(g) \/ Refused(g) \/ OutcomeUnknown(g)
    BY <2>4 DEF Recheck, Refused, OutcomeUnknown, WriteOutcome, WithOutcome, SetOutcome, Settable
  <2>5. CASE Post(g)
    BY <2>5 DEF Post
  <2>6. CASE Accepted(g)
    BY <2>6 DEF Accepted, AsPlaced, PickOK, Ordering
  <2>7. CASE GuessFromPositions(g) \/ Release(g) \/ MarkFired(g)
    BY <2>7 DEF GuessFromPositions, Release, MarkFired
  <2>. QED
    BY <1>6, <2>1, <2>2, <2>3, <2>4, <2>5, <2>6, <2>7 DEF PreGame
<1>7. CASE HealthJob
  <2>1. CASE HealthSync
    BY <2>1 DEF HealthSync, Sync
  <2>2. CASE HealthAdopt
    BY <2>2 DEF HealthAdopt, BookPositions
  <2>3. CASE ListFills \/ RouteFill
    BY <2>3 DEF ListFills, RouteFill, Route
  <2>4. CASE AttributeFill \/ AttachFill \/ BookFill
    BY <2>4 DEF AttributeFill, AttachFill, BookFill, AsPlaced
  <2>5. CASE \/ Restart \/ ResolveNext \/ Requeue \/ HealthLock \/ HealthNoLock
             \/ HealthSyncFails \/ HealthEnd
    BY <2>5 DEF Restart, ResolveNext, Requeue, HealthLock, HealthNoLock, HealthSyncFails, HealthEnd
  <2>. QED
    BY <1>7, <2>1, <2>2, <2>3, <2>4, <2>5 DEF HealthJob
<1>8. CASE FillChecks
  BY <1>8 DEF FillChecks, FillCheckAdopt, BookPositions, FillCheck, Sync, FillCheckFails
<1>. QED
  BY <1>2, <1>3, <1>4, <1>5, <1>6, <1>7, <1>8 DEF Next

LEMMA FromKalshiAlways == Spec => []FromKalshi
<1>1. Init => FromKalshi
  BY DEF Init, FromKalshi, PlacedIsReal, Tracked, Actors
<1>. QED
  BY <1>1, TypedAlways, ExclusiveAlways, FromKalshiNext, PTL DEF Spec

\* PlacedIsReal of OrderLifecycle.tla, for every value of the constants: a row
\* placed or adopted stands for an order that Kalshi has, whichever of lookup,
\* reply, position and fill wrote it.
THEOREM LedgerIsReal == Spec => []PlacedIsReal
<1>1. FromKalshi => PlacedIsReal
  BY DEF FromKalshi
<1>. QED
  BY FromKalshiAlways, <1>1, PTL

-----------------------------------------------------------------------------
(* No order is lost *)

Standing == Unresolved \union {"placed"}
Refusals == {"insufficient_funds", "blocked_location"}

\* An unsent order is nowhere; a sent one is on the wire once; a job about to send
\* has a standing row; a refusal that has reached its job means that the order is
\* neither under way nor at Kalshi.
Accounted ==
    /\ \A t \in Tickers : posts[t] = 0 => ~InFlight(t) /\ order[t] = "none"
    /\ \A t \in Tickers \ blind : \A r, s \in wire : r[1] = t /\ s[1] = t => r = s
    /\ \A g \in Games : pc[g] \in {"check", "post"} /\ g \notin noRow => row[pick[g]] \in Standing
    /\ \A g \in Games : pc[g] = "await" /\ answer \in Refusals /\ pick[g] \notin blind
            => ~InFlight(pick[g]) /\ order[pick[g]] = "none"
    /\ NothingLost

\* Only a job's own refusal or its last look at the kill switch ends a standing row.
LEMMA StandingStays ==
  ASSUME Typed, [Next]_vars, NEW t \in Tickers, row[t] \in Standing, row'[t] \notin Standing
  PROVE  \E g \in Games : (Recheck(g) \/ Refused(g)) /\ pick[g] = t /\ g \notin noRow
<1>. USE DEF Typed, TypeOK, Standing, Unresolved, Pending, WithOutcome, SetOutcome, AsPlaced,
             Settable, disk
<1>1. CASE Kalshi \/ Setup \/ TogglePause \/ UNCHANGED vars \/ Crash
  BY <1>1, Aside DEF Crash
<1>2. CASE Resolving
  BY <1>2 DEF Resolving, LookupFails, LookupMisses, WriteAbsent, LookupFinds, Track
<1>3. ASSUME NEW g \in Games, PreGame(g)
      PROVE  (Recheck(g) \/ Refused(g)) /\ pick[g] = t /\ g \notin noRow
  <2>1. CASE EvalSync(g)
    BY <2>1 DEF EvalSync, Sync
  <2>2. CASE OutcomeUnknown(g) \/ Accepted(g)
    BY <2>2 DEF OutcomeUnknown, WriteOutcome, Accepted
  <2>3. CASE Recheck(g) \/ Refused(g)
    BY <2>3 DEF Recheck, Refused, WriteOutcome
  <2>4. CASE BeginOrder(g)
    BY <2>4 DEF BeginOrder
  <2>. QED
    BY <1>3, <2>1, <2>2, <2>3, <2>4 DEF PreGame, Start, LockTimeout, Retry, Skip, EvalAdopt, Buy,
       BeginOrderFails, AlreadyBegun, Post, GuessFromPositions, Release, MarkFired
<1>4. CASE HealthJob
  <2>1. CASE HealthSync
    BY <2>1 DEF HealthSync, Sync
  <2>2. CASE AttributeFill
    BY <2>2 DEF AttributeFill
  <2>. QED
    BY <1>4, <2>1, <2>2 DEF HealthJob, Restart, ResolveNext, Requeue, HealthLock, HealthNoLock,
       HealthSyncFails, HealthAdopt, ListFills, RouteFill, AttachFill, BookFill, HealthEnd
<1>5. CASE FillChecks
  BY <1>5 DEF FillChecks, FillCheckAdopt, FillCheck, Sync, FillCheckFails
<1>. QED
  BY <1>1, <1>2, <1>3, <1>4, <1>5 DEF Next

\* What can happen on Kalshi's side outside the steps of Kalshi: a POST, or that a
\* crash drops the answer.
LEMMA KalshiFrame ==
  ASSUME [Next]_vars, ~Kalshi, \A g \in Games : ~Post(g)
  PROVE  UNCHANGED <<wire, order>> /\ (answer' = answer \/ answer' = "none")
<1>. USE DEF kalshi
<1>1. CASE Setup \/ TogglePause \/ UNCHANGED vars \/ Crash
  BY <1>1, AsideKalshi DEF Crash
<1>2. CASE Resolving
  BY <1>2 DEF Resolving, LookupFails, LookupMisses, WriteAbsent, LookupFinds, Track
<1>3. ASSUME NEW g \in Games, PreGame(g)
      PROVE  UNCHANGED <<wire, order>> /\ (answer' = answer \/ answer' = "none")
  BY <1>3 DEF PreGame, Start, LockTimeout, Retry, Skip, EvalSync, EvalAdopt, Buy, BeginOrder,
     BeginOrderFails, AlreadyBegun, Recheck, Accepted, Refused, OutcomeUnknown,
     GuessFromPositions, Release, MarkFired
<1>4. CASE HealthJob
  BY <1>4 DEF HealthJob, Restart, ResolveNext, Requeue, HealthLock, HealthNoLock, HealthSync,
     HealthSyncFails, HealthAdopt, ListFills, RouteFill, AttributeFill, AttachFill, BookFill,
     HealthEnd
<1>5. CASE FillChecks
  BY <1>5 DEF FillChecks, FillCheckAdopt, FillCheck, FillCheckFails
<1>. QED
  BY <1>1, <1>2, <1>3, <1>4, <1>5 DEF Next

\* A job is at one of its decisive points only by its own step or because it was.
LEMMA JobAt ==
  ASSUME Typed, [Next]_vars, NEW g \in Games
  PROVE  /\ pc'[g] \in {"check", "post"} /\ g \notin noRow' =>
              \/ BeginOrder(g)
              \/ pc[g] \in {"check", "post"} /\ g \notin noRow /\ pick'[g] = pick[g]
         /\ pc'[g] = "await" => Post(g) \/ (pc[g] = "await" /\ pick'[g] = pick[g])
<1>. USE DistinctActors DEF Typed, TypeOK, Goto, Actors
<1>1. CASE ~PreGame(g) /\ ~Crash
  BY <1>1, JobFrame
<1>2. CASE Crash
  BY <1>2 DEF Crash
<1>3. CASE BeginOrder(g)
  BY <1>3 DEF BeginOrder
<1>4. CASE Post(g)
  BY <1>4 DEF Post
<1>5. CASE PreGame(g) /\ ~BeginOrder(g) /\ ~Post(g)
  BY <1>5 DEF PreGame, Start, LockTimeout, Retry, Skip, EvalSync, EvalAdopt, Buy,
     BeginOrderFails, AlreadyBegun, Recheck, Accepted, Refused, OutcomeUnknown,
     GuessFromPositions, Release, MarkFired
<1>. QED
  BY <1>1, <1>2, <1>3, <1>4, <1>5

LEMMA AccountedNext ==
  ASSUME Typed, Exclusive, SendOnce, Accounted, [Next]_vars
  PROVE  Accounted'
<1>. USE DEF Typed, TypeOK, PickOK, Ordering, Accounted, InFlight, NothingLost, Refusals
<1>1. CASE Kalshi
  <2>1. UNCHANGED <<disk, memory, rest>>
    BY <1>1 DEF Kalshi, Accept, RejectDuplicate, Refuse, Lose, Fill, TipOff, GrowOld
  <2>2. wire' \subseteq wire
    BY <1>1 DEF Kalshi, Accept, RejectDuplicate, Refuse, Lose, Fill, TipOff, GrowOld,
                                        Reply
  <2>3. \A t \in Tickers : order'[t] # "none" => InFlight(t) \/ order[t] # "none"
    BY <1>1 DEF Kalshi, Accept, RejectDuplicate, Refuse, Lose, Fill, TipOff, GrowOld
  <2>4. ASSUME NEW g \in Games, pc[g] = "await", answer' \in Refusals, pick[g] \notin blind
        PROVE  (\A r \in wire' : r[1] # pick[g]) /\ order'[pick[g]] = "none"
    <3>1. CASE answer' = answer
      BY <2>2, <2>3, <2>4, <3>1
    <3>2. CASE answer' # answer
      <4>1. PICK r \in wire : Refuse(r) /\ Waiting(r)
        BY <1>1, <2>4, <3>2 DEF Kalshi, Accept, RejectDuplicate, Refuse, Lose, Fill, TipOff, GrowOld,
                                        Reply
      <4>2. r[1] = pick[g]
        BY <2>4, <4>1 DEF Waiting, Exclusive, Locked
      <4>3. order'[pick[g]] = "none" /\ wire' = wire \ {r}
        BY <4>1, <4>2 DEF Refuse, Reply
      <4>. QED
        BY <2>4, <4>2, <4>3
    <3>. QED
      BY <3>1, <3>2
  <2>5. NothingLost'
    BY <2>1, <2>2, <2>3 DEF disk, rest
  <2>. QED
    BY <2>1, <2>2, <2>3, <2>4, <2>5 DEF disk, memory, rest
<1>2. ASSUME NEW g \in Games, Post(g)
      PROVE  Accounted'
  <2>1. pick[g] \in Tickers /\ GameOf[pick[g]] = g /\ posts[pick[g]] \in Nat
    BY <1>2 DEF Post
  <2>2. /\ wire' = wire \union {<<pick[g], epoch>>} /\ answer' = "none"
        /\ posts' = [posts EXCEPT ![pick[g]] = @ + 1]
        /\ blind' = IF g \in noRow THEN blind \union {pick[g]} ELSE blind
        /\ UNCHANGED <<order, row, noRow, pick>>
    BY <1>2 DEF Post, disk
  <2>3. pick[g] \notin blind' => /\ ~InFlight(pick[g]) /\ order[pick[g]] = "none"
                               /\ row[pick[g]] \in Standing
    BY <1>2, <2>1, <2>2 DEF Post, SendOnce
  <2>4. \A t \in Tickers : posts'[t] = 0 => t # pick[g] /\ posts[t] = 0
    BY <2>1, <2>2
  <2>5. \A t \in Tickers : t # pick[g] => (InFlight(t)' <=> InFlight(t))
    BY <2>2
  <2>6. \A t \in Tickers \ blind' : \A r, s \in wire' : r[1] = t /\ s[1] = t => r = s
    BY <2>2, <2>3
  <2>7. NothingLost'
    BY <2>1, <2>2, <2>3, <2>5 DEF Standing
  <2>8. \A h \in Games : pc'[h] \in {"check", "post"} /\ h \notin noRow' => row'[pick'[h]] \in Standing
    <3>1. pc' = [pc EXCEPT ![g] = "await"]
      BY <1>2 DEF Post, Goto
    <3>. QED
      BY <2>2, <3>1 DEF Actors
  <2>. QED
    BY <2>2, <2>4, <2>5, <2>6, <2>7, <2>8
<1>3. CASE ~Kalshi /\ \A g \in Games : ~Post(g)
  <2>1. UNCHANGED <<wire, order, posts, blind>> /\ (answer' = answer \/ answer' = "none")
    BY <1>3, KalshiFrame, SendFrame
  <2>2. NothingLost'
    <3>1. SUFFICES ASSUME NEW t \in Tickers \ blind, InFlight(t) \/ order[t] # "none"
                   PROVE  row'[t] \in Standing
      BY <2>1 DEF Standing
    <3>2. SUFFICES ASSUME row'[t] \notin Standing
                   PROVE  FALSE
      OBVIOUS
    <3>3. row[t] \in Standing
      BY <3>1 DEF Standing
    <3>4. PICK g \in Games : (Recheck(g) \/ Refused(g)) /\ pick[g] = t /\ g \notin noRow
      BY <3>2, <3>3, StandingStays
    <3>5. CASE Recheck(g)
      BY <3>1, <3>4, <3>5 DEF Recheck, SendOnce
    <3>6. CASE Refused(g)
      BY <3>1, <3>4, <3>6 DEF Refused
    <3>. QED
      BY <3>4, <3>5, <3>6
  <2>3. ASSUME NEW h \in Games, pc'[h] \in {"check", "post"}, h \notin noRow'
        PROVE  row'[pick'[h]] \in Standing
    <3>1. CASE BeginOrder(h)
      BY <3>1 DEF BeginOrder, Standing, Unresolved, Pending
    <3>2. CASE ~BeginOrder(h)
      <4>1. pc[h] \in {"check", "post"} /\ h \notin noRow /\ pick'[h] = pick[h]
        BY <2>3, <3>2, JobAt
      <4>2. SUFFICES ASSUME row'[pick[h]] \notin Standing
                     PROVE  FALSE
        BY <4>1
      <4>3. PICK g \in Games : (Recheck(g) \/ Refused(g)) /\ pick[g] = pick[h]
        BY <4>1, <4>2, StandingStays
      <4>4. g = h
        BY <4>1, <4>3 DEF Recheck, Refused
      <4>. QED
        BY <2>3, <4>1, <4>2, <4>3, <4>4 DEF Recheck, Refused, Goto, Actors
    <3>. QED
      BY <3>1, <3>2
  <2>4. ASSUME NEW h \in Games, pc'[h] = "await", answer' \in Refusals, pick'[h] \notin blind
        PROVE  ~InFlight(pick'[h]) /\ order[pick'[h]] = "none"
    BY <1>3, <2>1, <2>4, JobAt
  <2>. QED
    BY <2>1, <2>2, <2>3, <2>4
<1>. QED
  BY <1>1, <1>2, <1>3

LEMMA AccountedAlways == Spec => []Accounted
<1>1. Init => Accounted
  BY DEF Init, Accounted, InFlight, NothingLost, Actors
<1>. QED
  BY <1>1, TypedAlways, ExclusiveAlways, SendOnceAlways, AccountedNext, PTL DEF Spec

\* NothingLost of OrderLifecycle.tla, for every value of the constants: an order
\* with a write-ahead row that Kalshi has, or may still get, is never written off.
THEOREM NoOrderLost == Spec => []NothingLost
<1>1. Accounted => NothingLost
  BY DEF Accounted
<1>. QED
  BY AccountedAlways, <1>1, PTL

-----------------------------------------------------------------------------
(* A trade is booked once *)

\* A placed row is not unwritten.
LEMMA PlacedStays ==
  ASSUME Typed, [Next]_vars
  PROVE  \A t \in Tickers : row[t] = "placed" => row'[t] = "placed"
<1>. USE DEF Typed, TypeOK, WithOutcome, SetOutcome, AsPlaced, Settable, disk
<1>1. CASE Kalshi \/ Setup \/ TogglePause \/ UNCHANGED vars \/ Crash
  BY <1>1, Aside DEF Crash
<1>2. CASE Resolving
  BY <1>2 DEF Resolving, LookupFails, LookupMisses, WriteAbsent, LookupFinds, Track
<1>3. ASSUME NEW g \in Games, PreGame(g)
      PROVE  \A t \in Tickers : row[t] = "placed" => row'[t] = "placed"
  <2>1. CASE EvalSync(g)
    BY <2>1 DEF EvalSync, Sync
  <2>2. CASE Recheck(g) \/ Refused(g) \/ OutcomeUnknown(g)
    BY <2>2 DEF Recheck, Refused, OutcomeUnknown, WriteOutcome
  <2>3. CASE BeginOrder(g) \/ Accepted(g)
    BY <2>3 DEF BeginOrder, Accepted
  <2>. QED
    BY <1>3, <2>1, <2>2, <2>3 DEF PreGame, Start, LockTimeout, Retry, Skip, EvalAdopt, Buy,
       BeginOrderFails, AlreadyBegun, Post, GuessFromPositions, Release, MarkFired
<1>4. CASE HealthJob
  <2>1. CASE HealthSync
    BY <2>1 DEF HealthSync, Sync
  <2>2. CASE AttributeFill
    BY <2>2 DEF AttributeFill
  <2>. QED
    BY <1>4, <2>1, <2>2 DEF HealthJob, Restart, ResolveNext, Requeue, HealthLock, HealthNoLock,
       HealthSyncFails, HealthAdopt, ListFills, RouteFill, AttachFill, BookFill, HealthEnd
<1>5. CASE FillChecks
  BY <1>5 DEF FillChecks, FillCheckAdopt, FillCheck, Sync, FillCheckFails
<1>. QED
  BY <1>1, <1>2, <1>3, <1>4, <1>5 DEF Next

LEMMA BlindStays == [Next]_vars => blind \subseteq blind'
BY SendFrame DEF Post

\* A doubtful adoption is remembered.
LEMMA MisreadStays == [Next]_vars => misread \subseteq misread'
<1>. USE DEF rest, looked
<1>1. CASE Kalshi \/ Setup \/ TogglePause \/ UNCHANGED vars \/ Crash
  BY <1>1, Aside DEF Crash
<1>2. CASE Resolving
  BY <1>2 DEF Resolving, LookupFails, LookupMisses, WriteAbsent, LookupFinds, Track
<1>3. ASSUME NEW g \in Games, PreGame(g)
      PROVE  misread \subseteq misread'
  BY <1>3 DEF PreGame, Start, LockTimeout, Retry, Skip, EvalSync, Sync, EvalAdopt, Buy,
     BeginOrder, BeginOrderFails, AlreadyBegun, Recheck, Post, Accepted, Refused,
     OutcomeUnknown, GuessFromPositions, Release, MarkFired
<1>4. CASE HealthJob
  BY <1>4 DEF HealthJob, Restart, ResolveNext, Requeue, HealthLock, HealthNoLock, HealthSync,
     Sync, HealthSyncFails, HealthAdopt, ListFills, RouteFill, AttributeFill, AttachFill,
     BookFill, HealthEnd
<1>5. CASE FillChecks
  BY <1>5 DEF FillChecks, FillCheckAdopt, FillCheck, Sync, FillCheckFails
<1>. QED
  BY <1>1, <1>2, <1>3, <1>4, <1>5 DEF Next

\* Only a trade the ledger has no row of is adopted, from a position or from a
\* fill, or one whose row could not be read.  Every other fill finds a row that is
\* placed, or that was unresolved when sync_fills read the rows and is then placed
\* by the fill itself.
InFills == {"fills", "attribute", "attach", "book"}

Adopting ==
    /\ \A t \in Tickers \ (blind \union misread) : adopted[t] = {}
    /\ unbooked \subseteq blind \union misread
    /\ pc[Health] \in InFills => \A t \in todo \ snap : t \in blind \/ row[t] = "placed"
    /\ pc[Health] \in {"attach", "book"} => pick[Health] \in blind

\* A position without a lot that sync does not attribute has no row, or none that
\* could be read.
LEMMA UnbookedIsBlind ==
  ASSUME Typed, FromKalshi, NothingLost, NEW noGrace \in SUBSET Tickers, Sync(noGrace)
  PROVE  unbooked' \subseteq blind \union misread'
<1>1. SUFFICES ASSUME NEW t \in unbooked', t \notin blind, t \notin misread'
               PROVE  FALSE
  OBVIOUS
<1>2. t \in held /\ t \in Tickers /\ row[t] \notin Unresolved /\ row[t] # "placed"
  BY <1>1 DEF Sync, Typed, TypeOK, Tracked
<1>3. order[t] # "none"
  BY <1>2 DEF FromKalshi
<1>. QED
  BY <1>1, <1>2, <1>3 DEF NothingLost

LEMMA AdoptingBook ==
  ASSUME Typed, Adopting, BookPositions, UNCHANGED <<blind, misread>>
  PROVE  /\ \A t \in Tickers \ (blind' \union misread') : adopted'[t] = {}
         /\ unbooked' \subseteq blind' \union misread'
BY DEF Typed, TypeOK, Adopting, BookPositions

LEMMA AdoptingNext ==
  ASSUME Typed, FromKalshi, NothingLost, Adopting, [Next]_vars
  PROVE  Adopting'
<1>. USE DistinctActors DEF Typed, TypeOK, Adopting, InFills, Goto, Actors, kalshi, disk, memory,
                            rest, looked
<1>1. /\ \A t \in Tickers : row[t] = "placed" => row'[t] = "placed"
      /\ blind \subseteq blind' /\ misread \subseteq misread'
  BY PlacedStays, BlindStays, MisreadStays
<1>2. CASE Kalshi \/ Setup \/ TogglePause \/ UNCHANGED vars
  BY <1>2, Aside
<1>3. CASE Crash
  BY <1>3 DEF Crash
<1>4. CASE Resolving
  BY <1>1, <1>4 DEF Resolving, LookupFails, LookupMisses, WriteAbsent, LookupFinds, Track,
     AfterResolve
<1>5. ASSUME NEW g \in Games, PreGame(g)
      PROVE  Adopting'
  <2>1. CASE EvalSync(g)
    <3>1. unbooked' \subseteq blind \union misread'
      BY <2>1, UnbookedIsBlind DEF EvalSync
    <3>. QED
      BY <1>1, <2>1, <3>1 DEF EvalSync, Sync
  <2>2. CASE EvalAdopt(g)
    BY <1>1, <2>2, AdoptingBook DEF EvalAdopt
  <2>3. CASE \/ Start(g) \/ LockTimeout(g) \/ Retry(g) \/ Skip(g) \/ \E t \in Tickers : Buy(g, t)
             \/ BeginOrder(g) \/ BeginOrderFails(g) \/ AlreadyBegun(g)
    BY <1>1, <2>3 DEF Start, LockTimeout, Retry, Skip, Buy, BeginOrder, BeginOrderFails,
       AlreadyBegun
  <2>4. CASE \/ Recheck(g) \/ Post(g) \/ Accepted(g) \/ Refused(g) \/ OutcomeUnknown(g)
             \/ GuessFromPositions(g) \/ Release(g) \/ MarkFired(g)
    BY <1>1, <2>4 DEF Recheck, Post, Accepted, Refused, OutcomeUnknown, GuessFromPositions,
       Release, MarkFired
  <2>. QED
    BY <1>5, <2>1, <2>2, <2>3, <2>4 DEF PreGame
<1>6. CASE HealthJob
  <2>1. CASE HealthSync
    <3>1. unbooked' \subseteq blind \union misread'
      BY <2>1, UnbookedIsBlind DEF HealthSync
    <3>. QED
      BY <2>1, <3>1 DEF HealthSync, Sync
  <2>2. CASE HealthAdopt
    BY <2>2, AdoptingBook DEF HealthAdopt
  <2>3. CASE ListFills
    <3>1. \A t \in held \ RowsIn(Unresolved) : t \in blind \/ row[t] = "placed"
      BY DEF FromKalshi, NothingLost, RowsIn
    <3>. QED
      BY <2>3, <3>1 DEF ListFills
  <2>4. CASE RouteFill
    <3>1. PICK t \in todo : /\ todo' = todo \ {t}
                            /\ pick' = [pick EXCEPT ![Health] = t]
                            /\ pc' = [pc EXCEPT ![Health] = Route(t)]
      BY <2>4 DEF RouteFill
    <3>2. Route(t) \in {"attach", "book"} => t \in blind
      BY <2>4 DEF RouteFill, Route, KnownId
    <3>. QED
      BY <2>4, <3>1, <3>2 DEF RouteFill
  <2>5. CASE AttributeFill
    BY <1>1, <2>5 DEF AttributeFill
  <2>6. CASE AttachFill \/ BookFill
    BY <2>6 DEF AttachFill, BookFill
  <2>7. CASE \/ Restart \/ ResolveNext \/ Requeue \/ HealthLock \/ HealthNoLock
             \/ HealthSyncFails \/ HealthEnd
    BY <2>7 DEF Restart, ResolveNext, Requeue, HealthLock, HealthNoLock, HealthSyncFails, HealthEnd
  <2>. QED
    BY <1>6, <2>1, <2>2, <2>3, <2>4, <2>5, <2>6, <2>7 DEF HealthJob
<1>7. CASE FillChecks
  <2>1. CASE FillCheckAdopt
    BY <1>1, <2>1, AdoptingBook DEF FillCheckAdopt
  <2>2. ASSUME NEW t \in Tickers, FillCheck(t)
        PROVE  Adopting'
    <3>1. unbooked' \subseteq blind \union misread'
      BY <2>2, UnbookedIsBlind DEF FillCheck
    <3>. QED
      BY <1>1, <2>2, <3>1 DEF FillCheck, Sync
  <2>3. ASSUME NEW t \in Tickers, FillCheckFails(t)
        PROVE  Adopting'
    BY <2>3 DEF FillCheckFails
  <2>. QED
    BY <1>7, <2>1, <2>2, <2>3 DEF FillChecks
<1>. QED
  BY <1>2, <1>3, <1>4, <1>5, <1>6, <1>7 DEF Next

\* OneRowPerTrade of OrderLifecycle.tla, for every value of the constants: lookups,
\* positions and fills, in whatever order they arrive, book a trade once, if it has
\* a write-ahead row and was not adopted while the unresolved rows were unreadable.
THEOREM BookedOnce == Spec => []OneRowPerTrade
<1>1. Init => Adopting
  BY DEF Init, Adopting, InFills, Actors
<1>2. ASSUME Typed, FromKalshi, Accounted, Adopting, [Next]_vars
      PROVE  Adopting'
  BY <1>2, AdoptingNext DEF Accounted
<1>3. Adopting => OneRowPerTrade
  <2>1. SUFFICES ASSUME Adopting, NEW t \in Tickers \ (blind \union misread)
                 PROVE  Cardinality(RowsOfTrade(t)) <= 1
    BY DEF OneRowPerTrade
  <2>2. RowsOfTrade(t) = {} \/ RowsOfTrade(t) = {"own"}
    BY <2>1 DEF Adopting, RowsOfTrade
  <2>3. Cardinality({}) = 0 /\ Cardinality({"own"}) = 1
    BY FS_EmptySet, FS_Singleton
  <2>. QED
    BY <2>2, <2>3
<1>. QED
  BY <1>1, <1>2, <1>3, TypedAlways, FromKalshiAlways, AccountedAlways, PTL DEF Spec

-----------------------------------------------------------------------------
(* One order per evaluation *)

\* An evaluation that may still send its order.
Early == {"sync", "adopt", "decide", "begin", "check", "post"}

\* What a process's setups have asked for, less the orders it has sent, covers the
\* evaluations that are queued and the one that has not come to its order yet.
Credited ==
    \A g \in Games :
        credit[g] >= jobs[g] + (IF pc[g] \in Early THEN 1 ELSE 0)

LEMMA CreditedNext ==
  ASSUME Typed, Credited, [Next]_vars
  PROVE  Credited'
<1>. USE DistinctActors DEF Typed, TypeOK, Credited, Early, Goto, Actors, memory, rest, looked
<1>1. CASE Kalshi \/ TogglePause \/ UNCHANGED vars
  BY <1>1 DEF Kalshi, Accept, RejectDuplicate, Refuse, Lose, Fill, TipOff, GrowOld, TogglePause,
              vars
<1>2. CASE Setup
  BY <1>2 DEF Setup, SetupAgain, SetupPlaces, SetupOmits, Queue
<1>3. CASE Resolving
  BY <1>3 DEF Resolving, LookupFails, LookupMisses, WriteAbsent, LookupFinds, Track, AfterResolve
<1>4. ASSUME NEW g \in Games, PreGame(g)
      PROVE  Credited'
  <2>1. CASE Start(g)
    BY <2>1 DEF Start
  <2>2. CASE LockTimeout(g)
    BY <2>2 DEF LockTimeout
  <2>3. CASE Retry(g)
    BY <2>3 DEF Retry, Queue
  <2>4. CASE Skip(g) \/ EvalSync(g) \/ EvalAdopt(g) \/ \E t \in Tickers : Buy(g, t)
    BY <2>4 DEF Skip, EvalSync, EvalAdopt, Buy
  <2>5. CASE BeginOrder(g) \/ BeginOrderFails(g) \/ AlreadyBegun(g) \/ Recheck(g)
    BY <2>5 DEF BeginOrder, BeginOrderFails, AlreadyBegun, Recheck
  <2>6. CASE Post(g)
    BY <2>6 DEF Post
  <2>7. CASE Accepted(g) \/ Refused(g) \/ OutcomeUnknown(g) \/ GuessFromPositions(g)
    BY <2>7 DEF Accepted, Refused, OutcomeUnknown, GuessFromPositions
  <2>8. CASE Release(g) \/ MarkFired(g)
    BY <2>8 DEF Release, MarkFired
  <2>. QED
    BY <1>4, <2>1, <2>2, <2>3, <2>4, <2>5, <2>6, <2>7, <2>8 DEF PreGame
<1>5. CASE HealthJob
  BY <1>5 DEF HealthJob, Restart, ResolveNext, Requeue, HealthLock, HealthNoLock, HealthSync,
     HealthSyncFails, HealthAdopt, ListFills, RouteFill, AttributeFill, AttachFill, BookFill,
     HealthEnd
<1>6. CASE FillChecks
  BY <1>6 DEF FillChecks, FillCheckAdopt, FillCheck, FillCheckFails
<1>7. CASE Crash
  BY <1>7 DEF Crash
<1>. QED
  BY <1>1, <1>2, <1>3, <1>4, <1>5, <1>6, <1>7 DEF Next

\* OneOrderPerRun of OrderLifecycle.tla, for every value of the constants: between
\* startup, rollovers, retries and lost waits for the lock, a process sends at most
\* one order for each evaluation that its setups have asked for.
THEOREM OneTeamOrdered == Spec => []OneOrderPerRun
<1>1. Init => Credited
  BY DEF Init, Credited, Early, Actors
<1>2. Typed /\ Credited => OneOrderPerRun
  BY DEF Typed, TypeOK, Credited, OneOrderPerRun
<1>. QED
  BY <1>1, <1>2, TypedAlways, CreditedNext, PTL DEF Spec

LEMMA EpochStays ==
  ASSUME [Next]_vars, ~Crash
  PROVE  epoch' = epoch
<1>. USE DEF rest
<1>1. CASE Kalshi \/ Setup \/ TogglePause \/ UNCHANGED vars
  BY <1>1, Aside
<1>2. CASE Resolving
  BY <1>2 DEF Resolving, LookupFails, LookupMisses, WriteAbsent, LookupFinds, Track
<1>3. ASSUME NEW g \in Games, PreGame(g)
      PROVE  epoch' = epoch
  BY <1>3 DEF PreGame, Start, LockTimeout, Retry, Skip, EvalSync, EvalAdopt, Buy, BeginOrder,
     BeginOrderFails, AlreadyBegun, Recheck, Post, Accepted, Refused, OutcomeUnknown,
     GuessFromPositions, Release, MarkFired
<1>4. CASE HealthJob
  BY <1>4 DEF HealthJob, Restart, ResolveNext, Requeue, HealthLock, HealthNoLock, HealthSync,
     HealthSyncFails, HealthAdopt, ListFills, RouteFill, AttributeFill, AttachFill, BookFill,
     HealthEnd
<1>5. CASE FillChecks
  BY <1>5 DEF FillChecks, FillCheckAdopt, FillCheck, FillCheckFails
<1>. QED
  BY <1>1, <1>2, <1>3, <1>4, <1>5 DEF Next

-----------------------------------------------------------------------------
(* Committed money counts as exposure *)

\* An order known to the ledger that rests at Kalshi has a lot or a position, or
\* the thread that has just learned of it is about to make the lot, under the lock.
Covered(t) ==
    \/ t \in lots \union held
    \/ \E a \in Games \union {Health} : pc[a] = "track" /\ pick[a] = t

\* Until the process dies, recovery finds an empty ledger: the health thread
\* resolves orders under the lock only.
InRecovery == pc[Health] = "recover" => todo = {}

Committed ==
    /\ \A t \in Tickers : GameOf[t] \in tipped => order[t] # "resting"
    /\ epoch = 0 =>
        /\ mode = "down" => pc[Health] = "idle" /\ \A t \in Tickers : row[t] = "none"
        /\ InRecovery
        /\ pc[Health] \in {"lookup", "absent", "track"} => lock = Health
        /\ \A t \in Tickers : row[t] = "placed" /\ order[t] = "resting" => Covered(t)

\* Outside the steps of Kalshi only a POST touches Kalshi's side, and that is no
\* order yet.
LEMMA AwayFromKalshi ==
  ASSUME [Next]_vars, ~Kalshi
  PROVE  UNCHANGED <<order, held, age>>
<1>. USE DEF kalshi
<1>1. CASE Setup \/ TogglePause \/ UNCHANGED vars \/ Crash
  BY <1>1, AsideKalshi DEF Crash
<1>2. CASE Resolving
  BY <1>2 DEF Resolving, LookupFails, LookupMisses, WriteAbsent, LookupFinds, Track
<1>3. ASSUME NEW g \in Games, PreGame(g)
      PROVE  UNCHANGED <<order, held, age>>
  BY <1>3 DEF PreGame, Start, LockTimeout, Retry, Skip, EvalSync, EvalAdopt, Buy, BeginOrder,
     BeginOrderFails, AlreadyBegun, Recheck, Post, Accepted, Refused, OutcomeUnknown,
     GuessFromPositions, Release, MarkFired
<1>4. CASE HealthJob
  BY <1>4 DEF HealthJob, Restart, ResolveNext, Requeue, HealthLock, HealthNoLock, HealthSync,
     HealthSyncFails, HealthAdopt, ListFills, RouteFill, AttributeFill, AttachFill, BookFill,
     HealthEnd
<1>5. CASE FillChecks
  BY <1>5 DEF FillChecks, FillCheckAdopt, FillCheck, FillCheckFails
<1>. QED
  BY <1>1, <1>2, <1>3, <1>4, <1>5 DEF Next

\* Tip-off ends what rests, and nothing comes to rest afterwards.
LEMMA ExpiredNext ==
  ASSUME Typed, [Next]_vars, \A t \in Tickers : GameOf[t] \in tipped => order[t] # "resting"
  PROVE  \A t \in Tickers : GameOf[t] \in tipped' => order'[t] # "resting"
<1>. USE DEF Typed, TypeOK, tipped
<1>1. CASE UNCHANGED <<order, age>>
  BY <1>1
<1>2. CASE Kalshi
  <2>1. ASSUME NEW r \in wire, Accept(r) \/ RejectDuplicate(r) \/ Refuse(r) \/ Lose(r)
        PROVE  \A t \in Tickers : GameOf[t] \in tipped' => order'[t] # "resting"
    BY <2>1 DEF Accept, RejectDuplicate, Refuse, Lose
  <2>2. ASSUME NEW u \in Tickers, Fill(u)
        PROVE  \A t \in Tickers : GameOf[t] \in tipped' => order'[t] # "resting"
    BY <2>2 DEF Fill
  <2>3. ASSUME NEW g \in Games, TipOff(g) \/ GrowOld(g)
        PROVE  \A t \in Tickers : GameOf[t] \in tipped' => order'[t] # "resting"
    BY <2>3 DEF TipOff, GrowOld
  <2>. QED
    BY <1>2, <2>1, <2>2, <2>3 DEF Kalshi
<1>3. CASE ~Kalshi
  BY <1>1, <1>3, AwayFromKalshi
<1>. QED
  BY <1>2, <1>3

LEMMA GamesLeaveMode ==
  ASSUME NEW g \in Games, PreGame(g)
  PROVE  mode' = mode
  BY DEF PreGame, Start, LockTimeout, Retry, Skip, EvalSync, EvalAdopt, Buy, BeginOrder,
     BeginOrderFails, AlreadyBegun, Recheck, Post, Accepted, Refused, OutcomeUnknown,
     GuessFromPositions, Release, MarkFired, memory

LEMMA CommittedNext ==
  ASSUME Typed, Exclusive, UpToDate, FromKalshi, Committed, [Next]_vars
  PROVE  Committed'
<1>1. \A t \in Tickers : GameOf[t] \in tipped' => order'[t] # "resting"
  BY ExpiredNext DEF Committed
<1>2. SUFFICES ASSUME epoch' = 0
               PROVE  /\ mode' = "down" => pc'[Health] = "idle" /\ \A t \in Tickers : row'[t] = "none"
                      /\ InRecovery'
                      /\ pc'[Health] \in {"lookup", "absent", "track"} => lock' = Health
                      /\ \A t \in Tickers : row'[t] = "placed" /\ order'[t] = "resting" => Covered(t)'
  BY <1>1 DEF Committed
<1>3. ~Crash /\ epoch = 0
  BY <1>2, EpochStays, BoundsType DEF Crash, Typed, TypeOK
<1>. USE <1>3, DistinctActors DEF Typed, TypeOK, Committed, InRecovery, Covered, Goto, Actors, disk,
                                  memory
<1>4. CASE Setup \/ TogglePause \/ UNCHANGED vars
  BY <1>4, Aside, AsideKalshi DEF kalshi
<1>5. CASE Kalshi
  <2>1. UNCHANGED <<disk, memory>>
    BY <1>5 DEF Kalshi, Accept, RejectDuplicate, Refuse, Lose, Fill, TipOff, GrowOld
  <2>2. held \subseteq held' /\ \A t \in Tickers : order[t] # "none" /\ order'[t] = "resting"
                                                    => order[t] = "resting"
    BY <1>5 DEF Kalshi, Accept, RejectDuplicate, Refuse, Lose, Fill, TipOff, GrowOld
  <2>3. \A t \in Tickers : row[t] = "placed" => order[t] # "none"
    BY DEF FromKalshi, PlacedIsReal, Tracked
  <2>. QED
    BY <2>1, <2>2, <2>3
<1>6. CASE ~Kalshi
  <2>. UNCHANGED <<order, held, age>>
    BY <1>6, AwayFromKalshi
  <2>1. ASSUME NEW a \in Games \union {Health},
               LookupFails(a) \/ LookupMisses(a) \/ WriteAbsent(a) \/ LookupFinds(a) \/ Track(a)
        PROVE  Committed'
    <3>. USE DEF AfterResolve
    <3>0. mode # "down"
      BY <2>1 DEF LookupFails, LookupMisses, WriteAbsent, LookupFinds, Track, UpToDate, Pends
    <3>1. CASE LookupFails(a) \/ LookupMisses(a)
      BY <1>1, <3>0, <3>1 DEF LookupFails, LookupMisses
    <3>2. CASE WriteAbsent(a)
      BY <1>1, <3>0, <3>2 DEF WriteAbsent, WithOutcome, SetOutcome, Settable
    <3>3. CASE LookupFinds(a)
      BY <1>1, <3>0, <3>3 DEF LookupFinds, AsPlaced
    <3>4. CASE Track(a)
      BY <1>1, <3>0, <3>4 DEF Track
    <3>. QED
      BY <2>1, <3>1, <3>2, <3>3, <3>4
  <2>2. ASSUME NEW g \in Games, PreGame(g)
        PROVE  Committed'
    <3>0. mode = "up" /\ mode' = mode
      <4>1. mode = "up"
        BY <2>2 DEF UpToDate, Pends, PreGame, Start, LockTimeout, Retry, Skip, EvalSync, EvalAdopt,
           Buy, BeginOrder, BeginOrderFails, AlreadyBegun, Recheck, Post, Accepted, Refused,
           OutcomeUnknown, GuessFromPositions, Release, MarkFired
      <4>. QED
        BY <2>2, <4>1, GamesLeaveMode
    <3>1. CASE EvalSync(g)
      <4>1. \A t \in Tickers : row'[t] = "placed" /\ order'[t] = "resting"
                               => t \in lots' \union held' \/ \E a \in Games \union {Health} :
                                                     pc[a] = "track" /\ pick[a] = t
        BY <3>1 DEF EvalSync, Sync, MayDrop
      <4>. QED
        BY <1>1, <3>0, <3>1, <4>1 DEF EvalSync
    <3>2. CASE \/ Start(g) \/ LockTimeout(g) \/ Retry(g) \/ Skip(g) \/ EvalAdopt(g)
               \/ \E t \in Tickers : Buy(g, t)
      BY <1>1, <3>0, <3>2 DEF Start, LockTimeout, Retry, Skip, EvalAdopt, Buy, Exclusive, Locked
    <3>3. CASE BeginOrder(g) \/ BeginOrderFails(g) \/ AlreadyBegun(g) \/ Post(g)
      BY <1>1, <3>0, <3>3 DEF BeginOrder, BeginOrderFails, AlreadyBegun, Post
    <3>4. CASE Recheck(g) \/ Refused(g) \/ OutcomeUnknown(g)
      BY <1>1, <3>0, <3>4 DEF Recheck, Refused, OutcomeUnknown, WriteOutcome, WithOutcome,
         SetOutcome, Settable
    <3>5. CASE Accepted(g)
      BY <1>1, <3>0, <3>5 DEF Accepted, AsPlaced
    <3>6. CASE GuessFromPositions(g) \/ Release(g) \/ MarkFired(g)
      BY <1>1, <3>0, <3>6 DEF GuessFromPositions, Release, MarkFired, Exclusive, Locked
    <3>. QED
      BY <2>2, <3>1, <3>2, <3>3, <3>4, <3>5, <3>6 DEF PreGame
  <2>3. ASSUME HealthJob
        PROVE  Committed'
    <3>1. CASE HealthSync
      <4>1. \A t \in Tickers : row'[t] = "placed" /\ order'[t] = "resting"
                               => t \in lots' \union held' \/ \E a \in Games \union {Health} :
                                                     pc[a] = "track" /\ pick[a] = t
        BY <3>1 DEF HealthSync, Sync, MayDrop
      <4>. QED
        BY <1>1, <3>1, <4>1 DEF HealthSync
    <3>2. CASE Restart
      BY <1>1, <3>2 DEF Restart, RowsIn, Pending
    <3>3. CASE ResolveNext
      BY <1>1, <3>3 DEF ResolveNext, Exclusive
    <3>4. CASE Requeue \/ HealthLock \/ HealthNoLock
      BY <1>1, <3>4 DEF Requeue, HealthLock, HealthNoLock
    <3>5. CASE HealthSyncFails \/ HealthAdopt \/ ListFills
      BY <1>1, <3>5 DEF HealthSyncFails, HealthAdopt, ListFills
    <3>6. CASE RouteFill
      BY <1>1, <3>6 DEF RouteFill, Route
    <3>7. CASE AttributeFill
      BY <1>1, <3>7 DEF AttributeFill, AsPlaced, FromKalshi
    <3>8. CASE AttachFill \/ BookFill \/ HealthEnd
      BY <1>1, <3>8 DEF AttachFill, BookFill, HealthEnd
    <3>. QED
      BY <2>3, <3>1, <3>2, <3>3, <3>4, <3>5, <3>6, <3>7, <3>8 DEF HealthJob
  <2>4. ASSUME FillChecks
        PROVE  Committed'
    <3>1. CASE FillCheckAdopt
      BY <1>1, <3>1 DEF FillCheckAdopt, Exclusive
    <3>2. ASSUME NEW u \in Tickers, FillCheck(u)
          PROVE  Committed'
      <4>1. \A t \in Tickers : row'[t] = "placed" /\ order'[t] = "resting"
                               => t \in lots' \union held' \/ \E a \in Games \union {Health} :
                                                     pc[a] = "track" /\ pick[a] = t
        BY <3>2 DEF FillCheck, Sync, MayDrop
      <4>2. (\A t \in Tickers : row[t] = "none") => \A t \in Tickers : row'[t] = "none"
        BY <3>2 DEF FillCheck, Sync, Unresolved, Pending
      <4>. QED
        BY <1>1, <3>2, <4>1, <4>2 DEF FillCheck
    <3>3. ASSUME NEW u \in Tickers, FillCheckFails(u)
          PROVE  Committed'
      BY <1>1, <3>3 DEF FillCheckFails
    <3>. HIDE DEF Committed
    <3>. QED
      BY <2>4, <3>1, <3>2, <3>3 DEF FillChecks
  <2>. HIDE DEF Committed
  <2>5. CASE Committed'
    BY <1>2, <2>5 DEF Committed
  <2>. QED
    BY <1>4, <1>6, <2>1, <2>2, <2>3, <2>4, <2>5 DEF Next, Resolving
<1>. QED
  BY <1>4, <1>5, <1>6

LEMMA CommittedAlways == Spec => []Committed
<1>1. Init => Committed
  BY DEF Init, Committed, InRecovery, Actors, tipped
<1>. QED
  BY <1>1, TypedAlways, ExclusiveAlways, UpToDateAlways, FromKalshiAlways, CommittedNext, PTL
  DEF Spec

\* Between the fetch and the sizing the job holds the lock: no sync drops a lot and
\* no other job fetches.
LEMMA SizingFrame ==
  ASSUME Typed, Exclusive, [Next]_vars, NEW g \in Games, pc[g] \in {"adopt", "decide"},
         pc'[g] \in {"adopt", "decide"}
  PROVE  lots \subseteq lots' /\ UNCHANGED <<fetched, known>>
<1>. USE DistinctActors DEF Typed, TypeOK, Exclusive, Locked, Ordering, Goto, Actors, disk, rest,
                            planning
<1>0. lock = g
  OBVIOUS
<1>1. CASE Kalshi \/ Setup \/ TogglePause \/ UNCHANGED vars
  BY <1>1, Aside
<1>2. CASE Resolving
  BY <1>2 DEF Resolving, LookupFails, LookupMisses, WriteAbsent, LookupFinds, Track
<1>3. ASSUME NEW h \in Games, PreGame(h)
      PROVE  lots \subseteq lots' /\ UNCHANGED <<fetched, known>>
  <2>1. CASE EvalAdopt(h) \/ LockTimeout(h) \/ MarkFired(h)
    BY <2>1 DEF EvalAdopt, LockTimeout, MarkFired
  <2>2. CASE \/ EvalSync(h) \/ Start(h) \/ Retry(h) \/ Skip(h)
             \/ \E t \in Tickers : Buy(h, t)
    BY <1>0, <2>2 DEF EvalSync, Start, Retry, Skip, Buy
  <2>. QED
    BY <1>3, <2>1, <2>2 DEF PreGame, BeginOrder, BeginOrderFails, AlreadyBegun, Recheck, Post,
       Accepted, Refused, OutcomeUnknown, GuessFromPositions, Release
<1>4. CASE HealthJob
  BY <1>0, <1>4 DEF HealthJob, Restart, ResolveNext, Requeue, HealthLock, HealthNoLock,
     HealthSync, HealthSyncFails, HealthAdopt, ListFills, RouteFill, AttributeFill, AttachFill,
     BookFill, HealthEnd
<1>5. CASE FillChecks
  BY <1>0, <1>5 DEF FillChecks, FillCheckAdopt, FillCheck, FillCheckFails
<1>6. CASE Crash
  BY <1>6 DEF Crash
<1>. QED
  BY <1>1, <1>2, <1>3, <1>4, <1>5, <1>6 DEF Next

\* The orders known at the fetch are placed, and those that rest have a lot or a
\* position of that fetch.
Sized ==
    epoch = 0 =>
        \A g \in Games : pc[g] \in {"adopt", "decide"} =>
            \A t \in known : /\ row[t] = "placed"
                             /\ order[t] = "resting" => t \in lots \union fetched

LEMMA SizedNext ==
  ASSUME Typed, Exclusive, FromKalshi, Committed, Sized, [Next]_vars
  PROVE  Sized'
<1>1. SUFFICES ASSUME epoch' = 0, NEW g \in Games, pc'[g] \in {"adopt", "decide"}
               PROVE  \A t \in known' : /\ row'[t] = "placed"
                                        /\ order'[t] = "resting" => t \in lots' \union fetched'
  BY DEF Sized
<1>2. ~Crash /\ epoch = 0
  BY <1>1, EpochStays, BoundsType DEF Crash, Typed, TypeOK
<1>3. CASE EvalSync(g)
  <2>1. lock = g /\ \A a \in Games \union {Health} : pc[a] # "track"
    BY <1>2, <1>3, DistinctActors DEF EvalSync, Exclusive, Locked, Ordering, Committed
  <2>2. UNCHANGED <<order, held>> /\ fetched' = held
    BY <1>3 DEF EvalSync, kalshi
  <2>3. \A t \in known' : t \in Tickers /\ row'[t] = "placed"
    BY <1>3 DEF EvalSync
  <2>4. \A t \in Tickers : row'[t] = "placed" /\ order[t] = "resting" => t \in lots' \union held
    BY <1>2, <1>3, <2>1 DEF EvalSync, Sync, MayDrop, Committed, Covered, Typed, TypeOK
  <2>. QED
    BY <2>2, <2>3, <2>4
<1>4. CASE ~EvalSync(g)
  <2>1. pc[g] \in {"adopt", "decide"}
    <3>1. CASE PreGame(g)
      BY <1>1, <1>4, <3>1 DEF PreGame, Start, LockTimeout, Retry, Skip, EvalAdopt, Buy, BeginOrder,
         BeginOrderFails, AlreadyBegun, Recheck, Post, Accepted, Refused, OutcomeUnknown,
         GuessFromPositions, Release, MarkFired, Goto, Actors, Typed, TypeOK
    <3>. QED
      BY <1>1, <1>2, <3>1, JobFrame
  <2>2. lots \subseteq lots' /\ UNCHANGED <<fetched, known>>
    BY <1>1, <2>1, SizingFrame
  <2>3. known \subseteq Tickers
    BY DEF Typed, TypeOK
  <2>4. \A t \in Tickers : row[t] = "placed" => row'[t] = "placed" /\ order[t] # "none"
    BY PlacedStays DEF FromKalshi, PlacedIsReal, Tracked
  <2>5. \A t \in Tickers : order[t] # "none" /\ order'[t] = "resting" => order[t] = "resting"
    <3>1. CASE Kalshi
      BY <3>1 DEF Kalshi, Accept, RejectDuplicate, Refuse, Lose, Fill, TipOff, GrowOld, Typed,
                  TypeOK
    <3>. QED
      BY <3>1, AwayFromKalshi
  <2>. QED
    BY <1>2, <2>1, <2>2, <2>3, <2>4, <2>5 DEF Sized
<1>. QED
  BY <1>3, <1>4

\* CommittedMoneyCounted of OrderLifecycle.tla, for every value of the constants:
\* until the process dies, a job sizes its order with every resting order counted
\* that the ledger knew of when the positions were fetched.
THEOREM ExposureIsComplete == Spec => []CommittedMoneyCounted
<1>1. Init => Sized
  BY DEF Init, Sized, Actors
<1>2. Sized => CommittedMoneyCounted
  BY DEF Sized, CommittedMoneyCounted
<1>. QED
  BY <1>1, <1>2, TypedAlways, ExclusiveAlways, FromKalshiAlways, CommittedAlways, SizedNext, PTL
  DEF Spec

-----------------------------------------------------------------------------
(***************************************************************************)
(* OrderLifecycle implements OrderPromise: the map of its state starts as  *)
(* the promise does, and every step is a step of the promise or leaves the *)
(* map unchanged.  The invariants above say why.                           *)
(***************************************************************************)

KeepingPromise == Typed /\ Exclusive /\ SendOnce /\ FromKalshi /\ Accounted

\* What the map of one order depends on.
LEMMA RequestFrame ==
  ASSUME NEW t \in Tickers, t \in blind' <=> t \in blind, order'[t] = "none" <=> order[t] = "none",
         (\E r \in wire' : r[1] = t) <=> \E r \in wire : r[1] = t,
         posts'[t] = 0 <=> posts[t] = 0
  PROVE  RequestOf(t)' = RequestOf(t)
<1>1. InFlight(t)' <=> InFlight(t)
  BY DEF InFlight
<1>2. CASE t \in blind
  BY <1>2 DEF RequestOf
<1>3. CASE t \notin blind /\ order[t] # "none"
  BY <1>3 DEF RequestOf
<1>4. CASE t \notin blind /\ order[t] = "none" /\ InFlight(t)
  BY <1>1, <1>4 DEF RequestOf
<1>5. CASE t \notin blind /\ order[t] = "none" /\ ~InFlight(t)
  BY <1>1, <1>5 DEF RequestOf
<1>. QED
  BY <1>2, <1>3, <1>4, <1>5

LEMMA BeliefFrame ==
  ASSUME NEW t \in Tickers, t \in blind' <=> t \in blind, row'[t] = row[t]
  PROVE  BeliefOf(t)' = BeliefOf(t)
<1>1. CASE t \in blind
  BY <1>1 DEF BeliefOf
<1>2. CASE t \notin blind
  BY <1>2 DEF BeliefOf, Unresolved, Pending
<1>. QED
  BY <1>1, <1>2

LEMMA BelievedMap ==
  ASSUME NEW t \in Tickers \ blind
  PROVE  /\ row[t] = "none" => BeliefOf(t) = "nothing"
         /\ row[t] \in Unresolved => BeliefOf(t) = "maybe"
         /\ row[t] = "placed" => BeliefOf(t) = "traded"
         /\ row[t] \notin Standing \union {"none"} => BeliefOf(t) = "not traded"
  BY DEF BeliefOf, Standing, Unresolved, Pending

LEMMA RequestedMap ==
  ASSUME NEW t \in Tickers \ blind
  PROVE  /\ order[t] # "none" => RequestOf(t) = "landed"
         /\ order[t] = "none" /\ InFlight(t) => RequestOf(t) = "open"
         /\ order[t] = "none" /\ ~InFlight(t) /\ posts[t] = 0 => RequestOf(t) = "unsent"
         /\ order[t] = "none" /\ ~InFlight(t) /\ posts[t] # 0 => RequestOf(t) = "dead"
  BY DEF RequestOf

\* A step of Kalshi settles at most one request.
LEMMA KalshiKeeps ==
  ASSUME KeepingPromise, Kalshi
  PROVE  [Promise!Next]_(Promise!vars)
<1>. USE DEF KeepingPromise, Typed, TypeOK
<1>1. UNCHANGED <<disk, memory, rest>>
  BY DEF Kalshi, Accept, RejectDuplicate, Refuse, Lose, Fill, TipOff, GrowOld
<1>2. \A t \in Tickers : BeliefOf(t)' = BeliefOf(t)
  BY <1>1, BeliefFrame DEF disk, rest
<1>3. ASSUME NEW r \in wire, Accept(r) \/ RejectDuplicate(r) \/ Refuse(r) \/ Lose(r)
      PROVE  [Promise!Next]_(Promise!vars)
  <2>1. PICK t \in Tickers : r[1] = t
    BY <1>3
  <2>2. wire' = wire \ {r}
    BY <1>3 DEF Accept, RejectDuplicate, Refuse, Lose, Reply
  <2>3. \A u \in Tickers : u # t => order'[u] = order[u]
    BY <1>3, <2>1 DEF Accept, RejectDuplicate, Refuse, Lose
  <2>4. \A u \in Tickers : u # t => RequestOf(u)' = RequestOf(u)
    <3>. SUFFICES ASSUME NEW u \in Tickers, u # t
                  PROVE  RequestOf(u)' = RequestOf(u)
      OBVIOUS
    <3>1. (\E s \in wire' : s[1] = u) <=> \E s \in wire : s[1] = u
      BY <2>1, <2>2
    <3>. QED
      BY <1>1, <2>3, <3>1, RequestFrame DEF rest
  <2>5. CASE t \in blind
    <3>1. RequestOf(t)' = RequestOf(t)
      BY <1>1, <2>5 DEF RequestOf, rest
    <3>. QED
      BY <1>2, <2>4, <3>1 DEF Promise!vars
  <2>6. CASE t \notin blind /\ order[t] # "none"
    <3>1. order'[t] # "none"
      BY <1>3, <2>1, <2>6 DEF Accept, RejectDuplicate, Refuse, Lose
    <3>2. RequestOf(t)' = RequestOf(t)
      BY <1>1, <2>6, <3>1 DEF RequestOf, rest
    <3>. QED
      BY <1>2, <2>4, <3>2 DEF Promise!vars
  <2>7. CASE t \notin blind /\ order[t] = "none"
    <3>1. RequestOf(t) = "open"
      BY <2>1, <2>7, RequestedMap DEF InFlight
    <3>2. ~\E s \in wire' : s[1] = t
      BY <2>1, <2>2, <2>7 DEF Accounted
    <3>3. posts[t] # 0
      BY <2>1 DEF Accounted, InFlight
    <3>4. RequestOf(t)' \in {"landed", "dead"}
      BY <1>1, <2>7, <3>2, <3>3 DEF RequestOf, InFlight, rest
    <3>5. Promise!Settle(t)
      BY <1>2, <2>4, <3>1, <3>4 DEF Promise!Settle
    <3>. QED
      BY <3>5 DEF Promise!Next
  <2>. QED
    BY <2>5, <2>6, <2>7
<1>4. CASE (\E t \in Tickers : Fill(t)) \/ (\E g \in Games : TipOff(g) \/ GrowOld(g))
  <2>1. wire' = wire /\ \A t \in Tickers : order'[t] = "none" <=> order[t] = "none"
    BY <1>4 DEF Fill, TipOff, GrowOld
  <2>2. \A t \in Tickers : RequestOf(t)' = RequestOf(t)
    BY <1>1, <2>1, RequestFrame DEF rest
  <2>. QED
    BY <1>2, <2>2 DEF Promise!vars
<1>. QED
  BY <1>3, <1>4 DEF Kalshi

\* A POST sends an intended order, or disowns one.
LEMMA PostKeeps ==
  ASSUME KeepingPromise, NEW g \in Games, Post(g)
  PROVE  [Promise!Next]_(Promise!vars)
<1>. USE DEF KeepingPromise, Typed, TypeOK
<1>1. PICK t \in Tickers : t = pick[g]
  BY DEF Post, PickOK, Ordering
<1>2. /\ wire' = wire \union {<<t, epoch>>}
      /\ posts' = [posts EXCEPT ![t] = @ + 1]
      /\ blind' = IF g \in noRow THEN blind \union {t} ELSE blind
      /\ UNCHANGED <<order, row>>
  BY <1>1 DEF Post, disk
<1>3. \A u \in Tickers : u # t => RequestOf(u)' = RequestOf(u) /\ BeliefOf(u)' = BeliefOf(u)
  <2>. SUFFICES ASSUME NEW u \in Tickers, u # t
                PROVE  RequestOf(u)' = RequestOf(u) /\ BeliefOf(u)' = BeliefOf(u)
    OBVIOUS
  <2>1. (\E s \in wire' : s[1] = u) <=> \E s \in wire : s[1] = u
    BY <1>2
  <2>. QED
    BY <1>1, <1>2, <2>1, RequestFrame, BeliefFrame
<1>4. CASE t \in blind
  <2>1. RequestOf(t)' = RequestOf(t) /\ BeliefOf(t)' = BeliefOf(t)
    BY <1>1, <1>2, <1>4 DEF RequestOf, BeliefOf
  <2>. QED
    BY <1>3, <2>1 DEF Promise!vars
<1>5. CASE t \notin blind /\ g \in noRow
  <2>1. RequestOf(t)' = "disowned" /\ BeliefOf(t)' = "disowned"
    BY <1>1, <1>2, <1>5 DEF RequestOf, BeliefOf
  <2>2. Promise!Disown(t)
    BY <1>1, <1>3, <2>1 DEF Promise!Disown
  <2>. QED
    BY <1>1, <2>2 DEF Promise!Next
<1>6. CASE t \notin blind /\ g \notin noRow
  <2>1. /\ row[t] \in Standing /\ posts[t] = 0 /\ ~InFlight(t) /\ order[t] = "none"
    BY <1>1, <1>6 DEF Post, SendOnce, Accounted
  <2>2. row[t] \in Unresolved
    BY <1>1, <2>1 DEF FromKalshi, PlacedIsReal, Tracked, Standing
  <2>3. RequestOf(t) = "unsent" /\ BeliefOf(t) = "maybe"
    BY <1>1, <1>6, <2>1, <2>2, RequestedMap, BelievedMap
  <2>4. RequestOf(t)' = "open"
    <3>1. <<t, epoch>> \in wire' /\ <<t, epoch>>[1] = t
      BY <1>2
    <3>2. \E r \in wire' : r[1] = t
      BY <3>1
    <3>. QED
      BY <1>2, <1>6, <2>1, <3>2 DEF RequestOf, InFlight
  <2>5. BeliefOf(t)' = BeliefOf(t)
    BY <1>1, <1>2, <1>6, BeliefFrame
  <2>6. Promise!Send(t)
    BY <1>1, <1>3, <2>3, <2>4, <2>5 DEF Promise!Send
  <2>. QED
    BY <1>1, <2>6 DEF Promise!Next
<1>. QED
  BY <1>4, <1>5, <1>6

\* What else can happen to the rows: an intent, the end of a row, or Kalshi's truth
\* and our doubts about rows that have not ended.
Learned ==
    \A t \in Tickers :
        \/ row'[t] = row[t]
        \/ row'[t] = "placed"
        \/ row[t] \in Unresolved /\ row'[t] \in Unresolved

LEMMA RowStep ==
  ASSUME Typed, [Next]_vars, \A g \in Games : ~BeginOrder(g) /\ ~Recheck(g) /\ ~Refused(g)
  PROVE  Learned
<1>. USE DEF Typed, TypeOK, Learned, Unresolved, Pending, WithOutcome, SetOutcome, AsPlaced,
             Settable, disk
<1>1. CASE Kalshi \/ Setup \/ TogglePause \/ UNCHANGED vars \/ Crash
  BY <1>1, Aside DEF Crash
<1>2. CASE Resolving
  BY <1>2 DEF Resolving, LookupFails, LookupMisses, WriteAbsent, LookupFinds, Track
<1>3. ASSUME NEW g \in Games, PreGame(g)
      PROVE  Learned
  <2>1. CASE EvalSync(g)
    BY <2>1 DEF EvalSync, Sync
  <2>2. CASE OutcomeUnknown(g) \/ Accepted(g)
    BY <2>2 DEF OutcomeUnknown, WriteOutcome, Accepted
  <2>. QED
    BY <1>3, <2>1, <2>2 DEF PreGame, Start, LockTimeout, Retry, Skip, EvalAdopt, Buy,
       BeginOrderFails, AlreadyBegun, Post, GuessFromPositions, Release, MarkFired
<1>4. CASE HealthJob
  <2>1. CASE HealthSync
    BY <2>1 DEF HealthSync, Sync
  <2>2. CASE AttributeFill
    BY <2>2 DEF AttributeFill
  <2>. QED
    BY <1>4, <2>1, <2>2 DEF HealthJob, Restart, ResolveNext, Requeue, HealthLock, HealthNoLock,
       HealthSyncFails, HealthAdopt, ListFills, RouteFill, AttachFill, BookFill, HealthEnd
<1>5. CASE FillChecks
  BY <1>5 DEF FillChecks, FillCheckAdopt, FillCheck, Sync, FillCheckFails
<1>. QED
  BY <1>1, <1>2, <1>3, <1>4, <1>5 DEF Next

\* A step of the bot that sends nothing intends, confirms or gives up.
LEMMA LedgerKeeps ==
  ASSUME KeepingPromise, [Next]_vars, ~Kalshi, \A g \in Games : ~Post(g)
  PROVE  [Promise!Next]_(Promise!vars)
<1>0. Typed /\ Exclusive /\ SendOnce /\ FromKalshi /\ Accounted
  BY DEF KeepingPromise
<1>1. UNCHANGED <<wire, order, posts, blind>>
  BY KalshiFrame, SendFrame
<1>2. \A t \in Tickers : RequestOf(t)' = RequestOf(t)
  BY <1>1, RequestFrame
<1>3. \A t \in blind : BeliefOf(t)' = BeliefOf(t)
  BY <1>1, <1>0 DEF BeliefOf, Typed, TypeOK
<1>4. FromKalshi'
  BY <1>0, FromKalshiNext
<1>5. CASE Learned
  <2>. DEFINE S == {t \in Tickers \ blind : row'[t] = "placed" /\ row[t] # "placed"}
  <2>1. ASSUME NEW t \in S
        PROVE  BeliefOf(t) = "maybe" /\ RequestOf(t) = "landed" /\ BeliefOf(t)' = "traded"
    <3>1. order[t] # "none"
      BY <1>1, <1>4 DEF FromKalshi, PlacedIsReal, Tracked
    <3>2. row[t] \in Unresolved
      BY <1>0, <2>1, <3>1 DEF Accounted, NothingLost
    <3>3. BeliefOf(t)' = "traded"
      BY <1>1 DEF BeliefOf, Unresolved, Pending
    <3>. QED
      BY <3>1, <3>2, <3>3, BelievedMap, RequestedMap
  <2>2. ASSUME NEW t \in Tickers, t \notin S
        PROVE  BeliefOf(t)' = BeliefOf(t)
    <3>1. CASE t \in blind
      BY <1>3, <3>1
    <3>2. CASE row'[t] = row[t]
      BY <1>1, <3>2, BeliefFrame
    <3>3. CASE t \notin blind /\ row[t] \in Unresolved /\ row'[t] \in Unresolved
      BY <1>1, <3>3 DEF BeliefOf, Unresolved, Pending
    <3>. QED
      BY <1>5, <2>2, <3>1, <3>2, <3>3 DEF Learned
  <2>3. S \in SUBSET Tickers /\ Promise!Confirm(S)
    BY <1>2, <2>1, <2>2 DEF Promise!Confirm
  <2>. QED
    BY <2>3 DEF Promise!Next
<1>6. ASSUME NEW g \in Games, BeginOrder(g)
      PROVE  [Promise!Next]_(Promise!vars)
  <2>1. PICK t \in Tickers : t = pick[g]
    BY <1>0, <1>6 DEF BeginOrder, Typed, PickOK, Ordering
  <2>2. row[t] = "none" /\ row' = [row EXCEPT ![t] = "submitting"]
    BY <1>6, <2>1 DEF BeginOrder
  <2>3. \A u \in Tickers : u # t => BeliefOf(u)' = BeliefOf(u)
    BY <1>0, <1>1, <2>2, BeliefFrame DEF Typed, TypeOK
  <2>4. CASE t \in blind
    BY <1>2, <1>3, <2>3, <2>4 DEF Promise!vars
  <2>5. CASE t \notin blind
    <3>1. posts[t] = 0
      BY <1>0, <2>2, <2>5 DEF SendOnce, Typed, TypeOK
    <3>2. RequestOf(t) = "unsent" /\ BeliefOf(t) = "nothing"
      BY <1>0, <2>2, <2>5, <3>1, RequestedMap, BelievedMap DEF Accounted
    <3>3. BeliefOf(t)' = "maybe"
      BY <1>0, <1>1, <2>2, <2>5 DEF BeliefOf, Unresolved, Pending, Typed, TypeOK
    <3>4. Promise!Intend(t)
      BY <1>2, <2>3, <3>2, <3>3 DEF Promise!Intend
    <3>. QED
      BY <3>4 DEF Promise!Next
  <2>. QED
    BY <2>4, <2>5
<1>7. ASSUME NEW g \in Games, Recheck(g) \/ Refused(g)
      PROVE  [Promise!Next]_(Promise!vars)
  <2>1. PICK t \in Tickers : t = pick[g]
    BY <1>0, <1>7 DEF Recheck, Refused, Typed, PickOK, Ordering
  <2>2. /\ \A u \in Tickers : u # t => row'[u] = row[u]
        /\ row'[t] # row[t] => /\ g \notin noRow /\ row[t] \in Unresolved
                              /\ row'[t] \in Refusals \union {"failed"}
    BY <1>0, <1>7, <2>1 DEF Typed, TypeOK, Recheck, Refused, WriteOutcome, WithOutcome, SetOutcome, Settable,
                      Unresolved, Pending, Refusals
  <2>3. \A u \in Tickers : u # t => BeliefOf(u)' = BeliefOf(u)
    BY <1>0, <1>1, <2>2, BeliefFrame DEF Typed, TypeOK
  <2>4. CASE t \in blind \/ row'[t] = row[t]
    <3>1. BeliefOf(t)' = BeliefOf(t)
      BY <1>1, <1>3, <2>4, BeliefFrame
    <3>. QED
      BY <1>2, <2>3, <3>1 DEF Promise!vars
  <2>5. CASE t \notin blind /\ row'[t] # row[t]
    <3>1. ~InFlight(t) /\ order[t] = "none"
      <4>1. CASE Recheck(g)
        BY <1>0, <2>1, <2>2, <2>5, <4>1 DEF Recheck, SendOnce, Accounted
      <4>2. CASE Refused(g)
        BY <1>0, <2>1, <2>5, <4>2 DEF Refused, Accounted, Refusals
      <4>. QED
        BY <1>7, <4>1, <4>2
    <3>2. RequestOf(t) \in {"unsent", "dead"} /\ BeliefOf(t) = "maybe"
      BY <2>2, <2>5, <3>1, RequestedMap, BelievedMap
    <3>3. BeliefOf(t)' = "not traded"
      BY <1>1, <2>2, <2>5 DEF BeliefOf, Unresolved, Pending, Refusals
    <3>4. Promise!GiveUp(t)
      BY <1>2, <2>3, <3>2, <3>3 DEF Promise!GiveUp
    <3>. QED
      BY <3>4 DEF Promise!Next
  <2>. QED
    BY <2>4, <2>5
<1>. QED
  BY <1>0, <1>5, <1>6, <1>7, RowStep

\* PromiseKept of OrderLifecycle.tla, for every value of the constants: the order
\* path implements "recorded before sent, sent at most once, believed only when
\* certain".
THEOREM PromiseIsKept == Spec => PromiseKept
<1>1. Init => Promise!Init
  <2>1. ASSUME Init, NEW t \in Tickers
        PROVE  RequestOf(t) = "unsent" /\ BeliefOf(t) = "nothing"
    BY <2>1, RequestedMap, BelievedMap DEF Init, InFlight
  <2>. QED
    BY <2>1 DEF Promise!Init
<1>2. ASSUME KeepingPromise, [Next]_vars
      PROVE  [Promise!Next]_(Promise!vars)
  BY <1>2, KalshiKeeps, PostKeeps, LedgerKeeps
<1>. QED
  BY <1>1, <1>2, TypedAlways, ExclusiveAlways, SendOnceAlways, FromKalshiAlways,
     AccountedAlways, PTL
     DEF Spec, KeepingPromise, PromiseKept, Promise!Spec
=============================================================================
