------------------------- MODULE MCResearchDataset -------------------------
(* A small instance of ResearchDataset for TLC: a doubleheader e1, e2 of     *)
(* one sport, the second game of which starts after midnight UTC and settles *)
(* while the model runs, and a game e3 of another sport.                     *)
EXTENDS ResearchDataset, TLC

CONSTANTS mlb, nfl, e1, e2, e3, a1, b1, a2, b2, a3, b3

SportOfEvent == e1 :> mlb @@ e2 :> mlb @@ e3 :> nfl
Teams == e1 :> "AZLAD" @@ e2 :> "AZLAD" @@ e3 :> "KCLV"
TickerDay == [e \in Events |-> 1]
TickerTime == e1 :> 1310 @@ e2 :> 2010 @@ e3 :> 1700
FiledUnder == e1 :> 1 @@ e2 :> 2 @@ e3 :> 1
StartTime == e1 :> 100 @@ e2 :> 200 @@ e3 :> 100
Event == a1 :> e1 @@ b1 :> e1 @@ a2 :> e2 @@ b2 :> e2 @@ a3 :> e3 @@ b3 :> e3
Winners == {a1, b2, a3}

\* Quotes of 1 and of 99 are none; the ask at the start is not of the window.
Asks ==
    a1 :> (84 :> 20 @@ 85 :> 60 @@ 99 :> 63 @@ 100 :> 98) @@
    b1 :> (90 :> 40 @@ 95 :> 99) @@
    a2 :> (90 :> 70 @@ 190 :> 45) @@
    b2 :> (90 :> 35 @@ 185 :> 1 @@ 199 :> 58) @@
    a3 :> (86 :> 1 @@ 88 :> 50) @@
    b3 :> (87 :> 50 @@ 90 :> 51 @@ 91 :> 50 @@ 92 :> 51)
============================================================================
