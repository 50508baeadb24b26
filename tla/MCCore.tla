------------------------------- MODULE MCCore -------------------------------
(***************************************************************************)
(* Small instances of MobilityAPI for TLC: which requests clients send.    *)
(***************************************************************************)
EXTENDS Implementation, PropertyReads

CONSTANTS c1, c2, f1, f2

Seg == <<{1}>>
Two == <<{1}, {2}>>

Plain(op, c) == [op |-> op, cid |-> c, fid |-> f1, form |-> "ok", title |-> "old",
                 items |-> <<>>, n |-> 1, name |-> "speed", times |-> <<>>, values |-> <<>>]
Formed(op, c, form) == [Plain(op, c) EXCEPT !.form = form]
On(op, c, f) == [Plain(op, c) EXCEPT !.fid = f]
Put(c, f, item) == [On("put_single_moving_feature", c, f) EXCEPT !.items = <<item>>]
Post(c, items) == [Plain("post_collection_items", c) EXCEPT !.items = items]
Load(c, items) == [Plain("post_bulk", c) EXCEPT !.items = items]

Item(kind, f) == [kind |-> kind, id |-> f, traj |-> Seg]
Obs(f, t) == [kind |-> "ok", id |-> f, traj |-> <<{t}>>]

\* Two collections whose clients use the same feature identifiers.
FeatureRequests ==
  {Plain("post_collections", c1), Plain("post_collections", c2),
   Plain("delete_collection", c1),
   Formed("post_collection_items", c1, "bad json"),
   Formed("post_collection_items", c1, "invalid"),
   Post(c1, <<Item("ok", f1), Item("bad temporalGeometry", f2)>>),
   Post(c2, <<Item("ok", f2), Item("empty temporalGeometry", f1), Item("not a Feature", f2)>>),
   Post(c1, <<Item("ok", NoId)>>), Post(c1, <<Item("ok", NoId), Item("ok", f1)>>),
   Post(c2, <<Item("ok", f1), Item("ok", f1)>>),
   Post(c1, <<>>), Post(c2, <<Item("no temporalGeometry", f2)>>),
   Put(c1, f1, [kind |-> "ok", id |-> f2, traj |-> Two]),
   Put(c2, f1, Item("no temporalGeometry", f1)),
   Put(c1, f2, Item("not a Feature", f2)),
   Formed("put_single_moving_feature", c1, "bad json"),
   [Plain("put_collection", c1) EXCEPT !.title = "new"],
   [Formed("put_collection", c2, "invalid") EXCEPT !.title = "new"],
   Formed("put_collection", c1, "bad json")}
     \cup {On("delete_single_moving_feature", c, f1) : c \in {c1, c2}}

\* Fleet feeds to two collections, whose vehicles may have the same names.
FleetRequests ==
  {Plain("post_collections", c1), Plain("post_collections", c2),
   Plain("delete_collection", c1),
   Load(c1, <<Obs(f1, 1), Obs(f1, 2)>>), Load(c1, <<Obs(f1, 3), Obs(f1, 2)>>),
   Load(c1, <<Obs(f2, 3)>>),
   Load(c2, <<Obs(f2, 2), Obs(f2, 2)>>), Load(c2, <<Obs(f1, 2), Obs(f2, 3)>>),
   Load(c2, <<>>),
   Formed("post_bulk", c1, "bad encoding"), Formed("post_bulk", c1, "corrupt"),
   Formed("post_bulk", c2, "invalid"),
   Post(c1, <<Item("ok", f1), Item("empty temporalGeometry", f1)>>),
   Post(c2, <<Item("empty temporalGeometry", f2)>>),
   On("delete_single_moving_feature", c1, f1)}

\* The trajectories of features of one collection, reported by a fleet feed and
\* edited by other clients.
Append1(c, f, traj) == [On("post_tgsequence", c, f) EXCEPT
                          !.items = <<[kind |-> "ok", id |-> NoId, traj |-> traj]>>]
Drop(c, f, n) == [On("delete_single_temporal_primitive_geo", c, f) EXCEPT !.n = n]

TrackRequests ==
  {Plain("post_collections", c1), Plain("delete_collection", c1),
   On("delete_single_moving_feature", c1, f1),
   Load(c1, <<Obs(f2, 2), Obs(f1, 3), Obs(f1, 3)>>), Load(c1, <<Obs(f1, 3), Obs(f1, 2)>>),
   Post(c1, <<[kind |-> "ok", id |-> f1, traj |-> Two], Item("empty temporalGeometry", f2)>>),
   Load(c1, <<Obs(f1, 3)>>), Load(c1, <<Obs(f2, 1)>>),
   Append1(c1, f1, Two), Append1(c1, f2, <<{1, 2}, {3}>>), Append1(c2, f1, Seg),
   [Append1(c1, f1, Seg) EXCEPT !.items[1].kind = "bad temporalGeometry"],
   Formed("post_tgsequence", c1, "bad json"),
   Drop(c1, f1, 1), Drop(c1, f1, 2), Drop(c1, f2, 2), Drop(c1, f2, 0),
   [Drop(c1, f1, 1) EXCEPT !.form = "invalid"],
   Plain("get_collection_items", c1), Formed("get_collection_items", c1, "filtered"),
   On("get_velocity", c1, f2)}

\* The temporal properties of one feature; times are in order in every body.
Prop(op, form, times) ==
  [Formed(op, c1, form) EXCEPT !.times = times, !.values = [n \in DOMAIN times |-> "number"]]
MCNameOrder == {<<"height", "speed">>}

PropertyRequests ==
  {Plain("post_collections", c1), Post(c1, <<Item("ok", f1)>>), Load(c1, <<Obs(f1, 1)>>),
   On("delete_single_moving_feature", c1, f1)}
    \cup {Prop("post_tproperties", form, <<2>>) :
            form \in {"ok", "with values", "with bad values", "neither", "invalid", "bad json"}}
    \cup {Prop("post_temporal_property", "ok", times) :
            times \in {<<>>, <<1, 2>>, <<2, 3>>, <<3>>}}
    \cup {[Prop("post_temporal_property", "ok", <<3>>) EXCEPT !.values = <<>>],
          [Prop("post_temporal_property", "ok", <<3>>) EXCEPT !.values = <<"other">>]}
    \cup {Prop("post_temporal_property", form, <<1>>) : form \in {"invalid", "bad json"}}
    \cup {Plain("delete_temporal_property", c1), Plain("delete_temporal_property", c2),
          [Prop("post_tproperties", "with values", <<1, 3>>) EXCEPT
             !.name = "height", !.values = <<"number">>]}

\* Every read, of things that are there or not.
ReadRequests ==
  {On(op, c1, f1) : op \in Reads}
    \cup {Formed("get_collection_items", c1, "invalid"),
          Formed("get_distance", c1, "invalid"), Plain("get_tgsequence", c2),
          [Plain("get_velocity", c1) EXCEPT !.n = 2]}

CoreRequests ==
  FeatureRequests \cup ReadRequests
    \cup {Formed("post_collections", c1, "invalid"), Formed("post_collections", c1, "bad json"),
          Post(c1, <<Item("ok", f1), Item("bad temporalGeometry", f2)>>),
          Prop("post_tproperties", "ok", <<>>)}
=============================================================================
