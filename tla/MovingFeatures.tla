--------------------------- MODULE MovingFeatures ---------------------------
(***************************************************************************)
(* The handlers that write moving features, POST .../items and PUT and     *)
(* DELETE of .../items/{mFeatureId}, and insert_feature, which the first   *)
(* two share.  insert_feature commits in its middle, after creating the    *)
(* tables, so whatever its caller did before is committed with them.       *)
(***************************************************************************)
EXTENDS Session

\* POST /collections/{collectionId}/items, up to the first feature
post_collection_items ==
  /\ At("post_collection_items", "check") /\ Usable
  /\ \/ /\ ~HasCollection(work, req.cid)
        /\ Raise(ExceptStatus(req.op, "does not exist"))
     \/ /\ HasCollection(work, req.cid) /\ req.form = "invalid"
        /\ Raise(ExceptStatus(req.op, "DataError"))
     \/ /\ HasCollection(work, req.cid) /\ req.form # "invalid"
        /\ todo' = req.items /\ made' = {}
        /\ code' = 201 /\ pc' = NextItem(req.items, "feature")
        /\ UNCHANGED <<store, request>>

\* PUT /collections/{collectionId}/items/{mFeatureId}, up to insert_feature:
\* the feature goes, with all that hangs on it, and the body takes its id.
put_single_moving_feature ==
  /\ At("put_single_moving_feature", "check") /\ Usable
  /\ \/ ~HasFeature(work, req.cid, req.fid) /\ Answer(404)
     \/ /\ HasFeature(work, req.cid, req.fid)
        /\ Execute(DeleteFeatures(work, {req.fid}), "feature")
        /\ todo' = <<[req.items[1] EXCEPT !.id = req.fid]>>
        /\ code' = 200 /\ UNCHANGED <<serial, made>>

\* DELETE /collections/{collectionId}/items/{mFeatureId}
delete_single_moving_feature ==
  /\ At("delete_single_moving_feature", "check") /\ Usable
  /\ \/ ~HasCollection(work, req.cid) /\ Answer(404)
     \/ /\ HasCollection(work, req.cid) /\ ~HasFeature(work, req.cid, req.fid)
        /\ ExecuteLast(work, 404)
     \/ /\ HasFeature(work, req.cid, req.fid)
        /\ ExecuteLast(DeleteFeatures(work, {req.fid}), 204)

-----------------------------------------------------------------------------
(* insert_feature for Head(todo).                                          *)

\* Checks the type, then creates the tables; the commit comes next.
insert_feature_tables ==
  /\ pc = "feature"
  /\ \/ /\ Head(todo).kind = "not a Feature"
        /\ Raise(ExceptStatus(req.op, "DataError"))
     \/ /\ Head(todo).kind # "not a Feature" /\ Usable
        /\ Execute(CreateTables(work, {"core", "features"}), "features")
        /\ UNCHANGED <<serial, code, loop>>

FaultyAfterRow_geometryAlways(id, fresh) ==
  IF Head(todo).kind \in {"ok", "bad temporalGeometry"}
  THEN /\ pc' = "insert geometry" /\ todo' = [todo EXCEPT ![1].id = id]
       /\ UNCHANGED <<code, made>>
  ELSE /\ pc' = NextItem(Tail(todo), "feature") /\ todo' = Tail(todo)
       /\ made' = made \cup {id} /\ UNCHANGED code

\* What is left to do once the row of Head(todo) is in, or was there already.
\* Without a temporalGeometry the lookup of its "base" raises; a geometry is
\* inserted only for a row that is new.
AfterRow(id, fresh) ==
  \/ /\ Head(todo).kind = "no temporalGeometry"
     /\ pc' = "except" /\ code' = ExceptStatus(req.op, "other")
     /\ UNCHANGED loop
  \/ /\ Head(todo).kind \in {"ok", "bad temporalGeometry"} /\ fresh
     /\ pc' = "insert geometry" /\ todo' = [todo EXCEPT ![1].id = id]
     /\ UNCHANGED <<code, made>>
  \/ /\ Head(todo).kind = "empty temporalGeometry" \/ ~fresh
     /\ Head(todo).kind # "no temporalGeometry"
     /\ pc' = NextItem(Tail(todo), "feature") /\ todo' = Tail(todo)
     /\ made' = IF fresh THEN made \cup {id} ELSE made
     /\ UNCHANGED code

FaultyKeys_none(given) == {given}
\* The id a Feature gets: its own, or a fresh uuid, which is no row's and not
\* one that another Feature of the body brings.
Keys(given) ==
  IF given = NoId THEN FeatureIds \ (DOMAIN work.features \cup GivenIds(req)) ELSE {given}

\* INSERT INTO moving_features ... ON CONFLICT (id) DO NOTHING: the id may be
\* taken, in this collection or in another one.
insert_feature_row ==
  /\ pc = "insert feature" /\ Usable
  /\ \E id \in Keys(Head(todo).id) :
        LET fresh == id \notin DOMAIN work.features
        IN  /\ work' = IF fresh THEN InsertFeatureRow(work, id, req.cid) ELSE work
            /\ AfterRow(id, fresh)
  /\ UNCHANGED <<disk, tx, serial, request>>

\* INSERT INTO temporal_geometries; the trajectory may not convert.
insert_feature_geometry ==
  /\ pc = "insert geometry" /\ Usable
  /\ \/ /\ Head(todo).kind = "bad temporalGeometry"
        /\ \E kind \in {"does not exist", "other"} :
              StatementFails(ExceptStatus(req.op, kind))
     \/ /\ Head(todo).kind = "ok"
        /\ Draw
        /\ Execute(InsertGeometryRow(work, serial', Head(todo).id, req.cid,
                                     Head(todo).traj, TRUE),
                   NextItem(Tail(todo), "feature"))
        /\ todo' = Tail(todo) /\ made' = made \cup {Head(todo).id}
        /\ UNCHANGED code
=============================================================================
