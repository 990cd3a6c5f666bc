-------------------------- MODULE MCSportsbookPaper --------------------------
(* Small instances of SportsbookPaper for TLC.  The Lakers are at home to the *)
(* Celtics in g1 and to the Clippers a day later in g2.  YES is the Lakers in *)
(* m1 and the Celtics in m2, two markets of g1, the Lakers in m3, a market of *)
(* g2, and "Los Angeles" in m4, which may be either team of g2.               *)
EXTENDS SportsbookPaper, TLC

CONSTANTS g1, g2, m1, m2, m3, m4, sharp, soft, c1, c2

Lakers == {"los", "angeles", "lakers"}
Clippers == {"los", "angeles", "clippers"}
Celtics == {"boston", "celtics"}
Nicknames == {{"lakers"}, {"clippers"}, {"celtics"}, {"trail", "blazers"}}
Titles == m1 :> {"lakers"} @@ m2 :> Celtics @@ m3 :> {"la", "lakers"} @@ m4 :> {"los", "angeles"}
Fixture == g1 :> [home |-> Lakers, away |-> Celtics] @@ g2 :> [home |-> Lakers, away |-> Clippers]
TickerDay == m1 :> 1 @@ m2 :> 1 @@ m3 :> Unknown @@ m4 :> 2
CloseTime == m1 :> 180 @@ m2 :> Unknown @@ m3 :> 1600 @@ m4 :> 1920
EasternDays == g1 :> {1} @@ g2 :> {2}
StartTime == g1 :> 0 @@ g2 :> 1440

Row(h, a, age) == [home |-> h, away |-> a, age |-> age]
NoRow == Row(0, 0, 0)
Odds ==
    {[k \in Books |-> IF k = sharp THEN Row(-300, 250, 10) ELSE Row(-280, 230, 60)],
     [k \in Books |-> IF k = sharp THEN Row(-300, 250, 200) ELSE Row(-280, 230, 60)],
     [k \in Books |-> IF k = sharp THEN Row(-300, 0, 10) ELSE NoRow]}

Quote(bid, ask, yes, no) == [bid |-> bid, ask |-> ask, yes |-> yes, no |-> no]
Offers == {Quote(40, 42, 100, 100), Quote(55, 90, -1, -1)}

ChecksAlike == Permutations(Checkers)
=============================================================================
