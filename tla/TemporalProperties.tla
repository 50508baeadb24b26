------------------------- MODULE TemporalProperties -------------------------
(***************************************************************************)
(* The handlers under .../items/{mFeatureId}/tproperties that write.       *)
(*                                                                         *)
(* A property is a row of temporal_properties, its values are rows of      *)
(* temporal_values, each with an array of timestamps and one of values.    *)
(***************************************************************************)
EXTENDS Session

Handles(op) == At(op, "check") /\ Usable /\ HasFeature(work, req.cid, req.fid)

\* The collection or the feature of the path is not there.
NoSuchFeature ==
  /\ pc = "check" /\ Usable
  /\ req.op \in {"post_tproperties", "post_temporal_property", "delete_temporal_property"}
  /\ ~HasFeature(work, req.cid, req.fid) /\ Answer(404)

\* The tables of this module are created by insert_feature only; without them
\* the first statement on a property fails.
HasPropertyTables == "features" \in work.ddl
NoPropertyTables ==
  /\ \/ Handles("post_tproperties") /\ req.form \notin {"neither", "invalid"}
     \/ Handles("post_temporal_property")
     \/ Handles("delete_temporal_property")
  /\ ~HasPropertyTables /\ StatementFails(500)

Named == PropertiesNamed(work, req.fid, req.name)

\* POST .../tproperties.  With "name" in the body the property comes without
\* values; otherwise "datetimes" announces the values, and the property is
\* committed before they are inserted; with neither the handler returns
\* without an answer.  What is invalid is refused or raises; how many values
\* there are is not looked at.
post_tproperties ==
  /\ Handles("post_tproperties")
  /\ \/ req.form = "neither" /\ Leave /\ UNCHANGED store
     \/ req.form = "invalid" /\ (Answer(400) \/ Raise(500))
     \/ /\ req.form \notin {"neither", "invalid"} /\ HasPropertyTables
        /\ Named # {} /\ Answer(409)
     \/ /\ req.form \notin {"neither", "invalid"} /\ HasPropertyTables
        /\ Named = {}
        /\ Draw
        /\ Execute(InsertPropertyRow(work, serial', req.fid, req.name),
                   IF req.form = "ok" THEN "finish" ELSE "property")
        /\ code' = 201 /\ UNCHANGED loop

Faultypost_tproperties_values_commitsEach ==
  /\ At("post_tproperties", "insert values") /\ Usable
  /\ Draw
  /\ \E p \in Named : work' = InsertValuesRow(work, serial', p, req)
  /\ disk' = work'
  /\ pc' = IF req.form = "with values" THEN "respond" ELSE "except"
  /\ code' = IF req.form = "with values" THEN 201 ELSE 500
  /\ UNCHANGED <<tx, request, loop>>

post_tproperties_values ==
  /\ At("post_tproperties", "insert values") /\ Usable
  /\ \/ req.form = "with bad values" /\ (Raise(500) \/ StatementFails(500))
     \/ /\ req.form = "with values"
        /\ Draw
        /\ \E p \in Named :
              Execute(InsertValuesRow(work, serial', p, req), "finish")
        /\ UNCHANGED <<code, loop>>

ValuesOf(db, p) == {v \in DOMAIN db.values : db.values[v].pid = p}

FaultyContinues_orEqual(db, p, time) ==
  \A v \in ValuesOf(db, p) : LET times == db.values[v].times IN
     times # <<>> => Last(times) <= time
\* validate_temporal_continuity: what counts of a row is the last element of
\* its array.
Continues(db, p, time) ==
  \A v \in ValuesOf(db, p) : LET times == db.values[v].times IN
     times # <<>> => Last(times) < time

\* POST .../tproperties/{tPropertyName}
post_temporal_property ==
  /\ Handles("post_temporal_property") /\ HasPropertyTables
  /\ \/ Named = {} /\ Answer(404)
     \/ Named # {} /\ req.times = <<>> /\ Raise(500)
     \/ /\ req.times # <<>>
        /\ \E p \in Named :
              \/ ~Continues(work, p, Head(req.times)) /\ Answer(400)
              \/ /\ Continues(work, p, Head(req.times))
                 /\ Draw
                 /\ Execute(InsertValuesRow(work, serial', p, req), "finish")
                 /\ code' = 201 /\ UNCHANGED loop

\* DELETE .../tproperties/{tPropertyName}
delete_temporal_property ==
  /\ Handles("delete_temporal_property") /\ HasPropertyTables
  /\ \/ Named = {} /\ Answer(404)
     \/ Named # {} /\ ExecuteLast(DeleteProperties(work, Named), 204)
=============================================================================
