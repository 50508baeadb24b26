-------------------------------- MODULE Bulk --------------------------------
(***************************************************************************)
(* POST /collections/{collectionId}/bulk: a batch of observations, each    *)
(* appended as one instant to the trajectory of its moving feature, which  *)
(* is created on first sight; one commit after the whole batch.            *)
(***************************************************************************)
EXTENDS Session

\* post_bulk, up to the first observation
post_bulk ==
  /\ At("post_bulk", "check") /\ Usable
  /\ \/ ~HasCollection(work, req.cid) /\ Answer(404)
     \/ HasCollection(work, req.cid) /\ req.form = "bad encoding" /\ Answer(415)
     \/ /\ HasCollection(work, req.cid) /\ req.form \in {"bad json", "invalid"}
        /\ Raise(ExceptStatus(req.op, "ValueError"))
     \/ /\ HasCollection(work, req.cid) /\ req.form = "corrupt"
        /\ Raise(ExceptStatus(req.op, "other"))
     \/ /\ HasCollection(work, req.cid) /\ req.form = "ok"
        /\ todo' = req.items /\ made' = {}
        /\ code' = 201 /\ pc' = NextItem(req.items, "observe")
        /\ UNCHANGED <<store, request>>

Faultyappend_observations_row_commits ==
  /\ pc = "observe" /\ Usable
  /\ LET id == Head(todo).id
     IN  IF id \in DOMAIN work.features
         THEN work' = work /\ made' = made
         ELSE /\ work' = InsertFeatureRow(work, id, req.cid)
              /\ made' = made \cup {id}
  /\ disk' = work' /\ pc' = "append instant"
  /\ UNCHANGED <<tx, serial, request, code, todo>>

\* append_observations: INSERT INTO moving_features ... ON CONFLICT DO NOTHING
append_observations_row ==
  /\ pc = "observe" /\ Usable
  /\ LET id == Head(todo).id
     IN  IF id \in DOMAIN work.features
         THEN work' = work /\ made' = made
         ELSE /\ work' = InsertFeatureRow(work, id, req.cid)
              /\ made' = made \cup {id}
  /\ pc' = "append instant"
  /\ UNCHANGED <<disk, tx, serial, request, code, todo>>

\* At the last instant itself appendInstant accepts the same position only,
\* and positions are abstracted: both outcomes are possible there.
MayAppend(traj, instant) == \A u \in InstantsOf(traj), t \in instant : u <= t
MustAppend(traj, instant) == \A u \in InstantsOf(traj), t \in instant : u < t

\* append_observations: the UPDATE takes every trajectory of the feature, and
\* fails if the instant is not after its end; without one a row is inserted
\* under the collection of the request, its geometry column left NULL.
append_observations_instant ==
  /\ pc = "append instant" /\ Usable
  /\ LET instant == Head(todo).traj[1]
         rows == GeometriesOf(work, Head(todo).id)
     IN  \/ /\ \E g \in rows : ~MustAppend(work.geometries[g].traj, instant)
            /\ StatementFails(ExceptStatus(req.op, "not increasing"))
         \/ /\ rows # {}
            /\ \A g \in rows : MayAppend(work.geometries[g].traj, instant)
            /\ Execute(UpdateTrajectories(work,
                         [g \in rows |->
                            AppendInstant(work.geometries[g].traj, instant)]),
                       NextItem(Tail(todo), "observe"))
            /\ todo' = Tail(todo) /\ UNCHANGED <<serial, code, made>>
         \/ /\ rows = {}
            /\ Draw
            /\ Execute(InsertGeometryRow(work, serial', Head(todo).id, req.cid,
                                         Head(todo).traj, FALSE),
                       NextItem(Tail(todo), "observe"))
            /\ todo' = Tail(todo) /\ UNCHANGED <<code, made>>
=============================================================================
