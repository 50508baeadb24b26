------------------------- MODULE TemporalGeometries -------------------------
(***************************************************************************)
(* The handlers under .../items/{mFeatureId}/tgsequence that write.        *)
(*                                                                         *)
(* A feature has any number of rows in temporal_geometries.  The ids that  *)
(* clients use, {tGeometryId}, are indexes into a row's trajectory.        *)
(***************************************************************************)
EXTENDS Session

\* POST .../tgsequence: one more row for the feature.  The Location names it by
\* the SERIAL id that was drawn.
post_tgsequence ==
  /\ At("post_tgsequence", "check") /\ Usable
  /\ \/ ~HasFeature(work, req.cid, req.fid) /\ Answer(404)
     \/ /\ HasFeature(work, req.cid, req.fid) /\ req.items[1].kind # "ok"
        /\ StatementFails(500)
     \/ /\ HasFeature(work, req.cid, req.fid) /\ req.items[1].kind = "ok"
        /\ Draw
        /\ Execute(InsertGeometryRow(work, serial', req.fid, req.cid,
                                     req.items[1].traj, TRUE), "finish")
        /\ code' = 201 /\ UNCHANGED loop

\* numSequences is not defined on a tgeompoint that is a single instant, and
\* fails the query; a trajectory of one instant may be stored as one.
MayBeInstant(traj) == Len(traj) = 1 /\ Cardinality(InstantsOf(traj)) = 1
CountingMayFail ==
  \E g \in GeometriesIn(work, req.cid, req.fid) : MayBeInstant(work.geometries[g].traj)

\* DELETE .../tgsequence/{tGeometryId}: the index is checked against one row,
\* whichever the query returns first, and removed from every row.
delete_single_temporal_primitive_geo ==
  /\ At("delete_single_temporal_primitive_geo", "check") /\ Usable
  /\ LET rows == GeometriesIn(work, req.cid, req.fid)
         Traj(g) == work.geometries[g].traj
     IN  \/ /\ \/ ~HasFeature(work, req.cid, req.fid)
               \/ req.form # "invalid" /\ rows = {}
               \/ req.form # "invalid" /\ \E g \in rows : req.n \notin DOMAIN Traj(g)
            /\ Answer(404)
         \/ /\ HasFeature(work, req.cid, req.fid) /\ req.form = "invalid"
            /\ Answer(400)
         \/ /\ HasFeature(work, req.cid, req.fid) /\ req.form # "invalid"
            /\ CountingMayFail /\ StatementFails(500)
         \/ /\ HasFeature(work, req.cid, req.fid) /\ req.form # "invalid"
            /\ \E g \in rows : req.n \in DOMAIN Traj(g) /\ Len(Traj(g)) = 1
            /\ Answer(409)
         \/ /\ HasFeature(work, req.cid, req.fid) /\ req.form # "invalid"
            /\ \E g \in rows : req.n \in DOMAIN Traj(g) /\ Len(Traj(g)) > 1
            /\ ExecuteLast(UpdateTrajectories(work,
                             [g \in rows |-> RemoveMember(Traj(g), req.n)]), 204)
=============================================================================
