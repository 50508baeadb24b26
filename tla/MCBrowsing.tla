----------------------------- MODULE MCBrowsing -----------------------------
(***************************************************************************)
(* Small instances of Browsing for TLC.                                    *)
(***************************************************************************)
EXTENDS Browsing

\* Names that hold the words the router looks for, and names that do not.
MCSegments == {"cars", "ships", "van", "bus", "1", "items_sold", "my_tgsequence", "distance_log"}
MCWordsIn == [s \in MCSegments |->
  CASE s = "items_sold" -> {"items"} [] s = "my_tgsequence" -> {"tgsequence"}
    [] s = "distance_log" -> {"distance"} [] OTHER -> {}]
MCWordsAtStart == [s \in MCSegments |-> IF s = "my_tgsequence" THEN {} ELSE MCWordsIn[s]]
Names(C, F, X) == [c : C, f : F, x : X]
MCIds == Names({"cars", "items_sold", "my_tgsequence"}, {"van", "distance_log"}, {"1", "my_tgsequence"})

At(from, to) == [AllItems EXCEPT !.from = from, !.to = to]
MCSearches ==
  {AllItems, [AllItems EXCEPT !.limit = 0], [AllItems EXCEPT !.limit = -1],
   [AllItems EXCEPT !.limit = 1], [AllItems EXCEPT !.limit = 2], [AllItems EXCEPT !.leaf = TRUE],
   At(2, NoTime), At(NoTime, 2), At(2, 3), At(3, 2), [At(2, 2) EXCEPT !.sub = TRUE],
   [At(1, 2) EXCEPT !.sub = TRUE, !.limit = 1], [At(2, NoTime) EXCEPT !.sub = TRUE]}

\* One that moves all the time, one that rests in between, one after the other.
MCRecorded == {<<{1, 3}>>, <<{1}, {3}>>}
=============================================================================
