---------------------------- MODULE EffectsProofs ----------------------------
(***************************************************************************)
(* What a client was told is so is committed: for every set of             *)
(* identifiers, requests and faults, the success status of each of         *)
(* MobilityAPI's handlers goes out only after the database holds what the  *)
(* request asks for.                                                       *)
(*                                                                         *)
(* A success is decided by the last statement of a handler, which leads to *)
(* the label finish: the transaction then holds the effect.  It stays so   *)
(* until the commit, which makes it the committed database, or until the   *)
(* session is lost and with it the success.  So it is enough to look at    *)
(* the statements that lead to finish, one handler after the other.  What  *)
(* the loops and the handlers that commit in their middle did before that  *)
(* is the subject of invariants of their own.  The last of them also says   *)
(* that a commit made while a batch is served contains all of it.          *)
(***************************************************************************)
EXTENDS AnswersProofs

-----------------------------------------------------------------------------
(* What the other modules know of the transaction, as invariants.          *)

\* Writes are pending only on the way to a commit or a rollback.
LEMMA PendingAlways == Spec => []PendingInv
<1>1. Init => PendingInv
  BY DEF Init, PendingInv
<1>2. QED
  BY <1>1, TypeInvariant, PendingStep, PTL DEF Spec

\* The handlers that commit once keep the rows until then.
LEMMA TraceAlways == Spec => []TraceInv
<1>1. Init => TraceInv
  BY DEF Init, TraceInv
<1>2. QED
  BY <1>1, TypeInvariant, PendingAlways, PendingStep, TraceStep, PTL DEF Spec

\* The facts the statements start from.
Known == TypeInv /\ TablesInv /\ PendingInv /\ TraceInv /\ EntryInv

\* At the first statement of a handler the transaction is empty.
LEMMA FreshStart ==
  ASSUME Known, pc = "check"
  PROVE  /\ work = before.db /\ disk = before.db /\ req \in Requests /\ req \in Request
         /\ IsDatabase(work) /\ IsDatabase(before.db) /\ ReferencesHold(before.db)
         /\ serial \in Nat /\ KeysDrawn(work, serial)
<1>1. work = disk /\ disk = before.db
  BY DEF Known, PendingInv, Uncommitted, EntryInv
<1>2. req \in Requests /\ req \in Request
  BY RequestType DEF Known, TypeInv
<1>3. QED
  BY <1>1, <1>2 DEF Known, TypeInv, TypeOK, TablesInv

-----------------------------------------------------------------------------
(* The rows of a database, without its schema.                             *)

\* They are its five tables,
LEMMA RowsAre ==
  ASSUME NEW db, IsDatabase(db)
  PROVE  Rows(db) = [collections |-> db.collections, features |-> db.features,
                     geometries |-> db.geometries, properties |-> db.properties,
                     values |-> db.values, ddl |-> {}]
  BY DEF Rows, IsDatabase

\* so two databases have the same rows when their tables are the same.
LEMMA SameRows ==
  ASSUME NEW a, IsDatabase(a), NEW b, IsDatabase(b)
  PROVE  Rows(a) = Rows(b) <=>
           /\ a.collections = b.collections /\ a.features = b.features
           /\ a.geometries = b.geometries /\ a.properties = b.properties
           /\ a.values = b.values
  BY RowsAre

\* A collection that is put into the same rows makes the same rows.
LEMMA SameRowsPut ==
  ASSUME NEW a, IsDatabase(a), NEW b, IsDatabase(b), Rows(a) = Rows(b),
         NEW c \in CollectionIds, NEW title \in Titles
  PROVE  Rows(PutCollectionRow(a, c, title)) = Rows(PutCollectionRow(b, c, title))
<1> DEFINE a1 == PutCollectionRow(a, c, title)
           b1 == PutCollectionRow(b, c, title)
<1>1. IsDatabase(a1) /\ IsDatabase(b1)
  BY PutCollectionRowType
<1>2. /\ a.collections = b.collections /\ a.features = b.features
      /\ a.geometries = b.geometries /\ a.properties = b.properties
      /\ a.values = b.values
  BY SameRows
<1>3. \A db : IsDatabase(db) =>
        LET new == PutCollectionRow(db, c, title) IN
          /\ new.collections = Extend(db.collections, c, title)
          /\ new.features = db.features /\ new.geometries = db.geometries
          /\ new.properties = db.properties /\ new.values = db.values
  BY DEF PutCollectionRow, IsDatabase
<1>4. /\ a1.collections = b1.collections /\ a1.features = b1.features
      /\ a1.geometries = b1.geometries /\ a1.properties = b1.properties
      /\ a1.values = b1.values
  BY <1>2, <1>3
<1> HIDE DEF a1, b1
<1>5. Rows(a1) = Rows(b1)
  BY <1>1, <1>4, SameRows
<1>6. QED
  BY <1>5 DEF a1, b1

-----------------------------------------------------------------------------
(* The effect that each operation promises.                                *)

\* TookEffect, by operation.
LEMMA EffectOf ==
  ASSUME NEW r, NEW old, NEW new, NEW ids, NEW key
  PROVE  /\ r.op \in {"post_collections", "put_collection"} /\ CollectionIsPut(r, old, new)
              => TookEffect(r, old, new, ids, key)
         /\ r.op = "delete_collection" /\ CollectionIsGone(r, old, new)
              => TookEffect(r, old, new, ids, key)
         /\ r.op = "post_collection_items" /\ FeaturesArePosted(r, old, new, ids)
              => TookEffect(r, old, new, ids, key)
         /\ r.op = "put_single_moving_feature" /\ FeatureIsReplaced(r, old, new)
              => TookEffect(r, old, new, ids, key)
         /\ r.op = "delete_single_moving_feature" /\ (Rows(new) = Rows(DeleteFeatures(old, {r.fid})))
              => TookEffect(r, old, new, ids, key)
         /\ r.op = "post_bulk" /\ BatchApplied(r.items, old, new)
              => TookEffect(r, old, new, ids, key)
         /\ r.op = "post_tgsequence" /\ GeometryIsAdded(r, old, new, key)
              => TookEffect(r, old, new, ids, key)
         /\ r.op = "post_tproperties" /\ PropertyIsAdded(r, old, new)
              => TookEffect(r, old, new, ids, key)
         /\ r.op = "post_temporal_property" /\ ValuesAreAdded(r, old, new, key)
              => TookEffect(r, old, new, ids, key)
         /\ r.op = "delete_temporal_property" /\ PropertyIsGone(r, old, new)
              => TookEffect(r, old, new, ids, key)
         /\ r.op = "delete_single_temporal_primitive_geo" /\ MemberIsGone(r, old, new)
              => TookEffect(r, old, new, ids, key)
         /\ r.op \notin Writes /\ (Rows(new) = Rows(old))
              => TookEffect(r, old, new, ids, key)
  BY DEF TookEffect, Writes

\* Collections are put and deleted.
LEMMA CollectionEffects ==
  ASSUME Known, Works, pc' = "finish", code' < 400,
         req.op \in {"post_collections", "put_collection", "delete_collection"}
  PROVE  TookEffect(req, before.db, work', made', serial')
<1> USE DEF At
<1>1. CASE req.op = "post_collections"
  <2>1. post_collections_insert /\ pc = "insert collection"
    BY <1>1, OwnStatements
    DEF Works, Known, post_collections, post_collections_insert, Execute
  <2>2. work' = PutCollectionRow(work, req.cid, req.title)
    BY <2>1 DEF post_collections_insert, Answer, ExecuteLast, Execute
  <2>3. work = disk /\ Rows(disk) = Rows(before.db)
    BY <1>1, <2>1 DEF Known, PendingInv, Uncommitted, TraceInv, CommitInTheMiddle, Unchanged
  <2>4. IsDatabase(work) /\ IsDatabase(before.db) /\ req \in Request
    BY <2>1, RequestType DEF Known, TypeInv, TypeOK
  <2>5. req.cid \in CollectionIds /\ req.title \in Titles
    BY <2>4 DEF Request
  <2>6. CollectionIsPut(req, before.db, work')
    BY <2>2, <2>3, <2>4, <2>5, SameRowsPut DEF CollectionIsPut
  <2>7. QED
    BY <1>1, <2>6, EffectOf
<1>2. CASE req.op = "put_collection"
  <2>1. put_collection /\ pc = "check"
    BY <1>2, OwnStatements DEF Works, Known, put_collection
  <2>2. work' = PutCollectionRow(work, req.cid, req.title)
    BY <2>1 DEF put_collection, Answer, ExecuteLast, Execute
  <2>3. CollectionIsPut(req, before.db, work')
    BY <2>1, <2>2, FreshStart DEF CollectionIsPut
  <2>4. QED
    BY <1>2, <2>3, EffectOf
<1>3. CASE req.op = "delete_collection"
  <2>1. delete_collection /\ pc = "check"
    BY <1>3, OwnStatements DEF Works, Known, delete_collection
  <2>2. work' = DeleteCollectionRow(work, req.cid)
    BY <2>1 DEF delete_collection, Answer, ExecuteLast, Execute
  <2>3. CollectionDeleted(before.db, work', req.cid)
    BY <2>1, <2>2, FreshStart, DeleteCollectionRowFields
  <2>4. CollectionIsGone(req, before.db, work')
    BY <2>3 DEF CollectionDeleted, CollectionIsGone, SubTable
  <2>5. QED
    BY <1>3, <2>4, EffectOf
<1>4. QED
  BY <1>1, <1>2, <1>3

\* A feature is deleted, a geometry added.
LEMMA FeatureEffects ==
  ASSUME Known, Works, pc' = "finish", code' < 400,
         req.op \in {"delete_single_moving_feature", "post_tgsequence"}
  PROVE  TookEffect(req, before.db, work', made', serial')
<1> USE DEF At
<1>1. CASE req.op = "delete_single_moving_feature"
  <2>1. delete_single_moving_feature /\ pc = "check"
    BY <1>1, OwnStatements DEF Works, Known, delete_single_moving_feature
  <2>2. work' = DeleteFeatures(work, {req.fid})
    <3>1. ~ExecuteLast(work, 404)
      BY DEF ExecuteLast
    <3>2. QED
      BY <2>1, <3>1 DEF delete_single_moving_feature, Answer, ExecuteLast, Execute
  <2>3. Rows(work') = Rows(DeleteFeatures(before.db, {req.fid}))
    BY <2>1, <2>2, FreshStart
  <2>4. QED
    BY <1>1, <2>3, EffectOf
<1>2. CASE req.op = "post_tgsequence"
  <2>1. post_tgsequence /\ pc = "check"
    BY <1>2, OwnStatements DEF Works, Known, post_tgsequence
  <2>2. work' = InsertGeometryRow(work, serial', req.fid, req.cid, req.items[1].traj, TRUE)
    BY <2>1 DEF post_tgsequence, Answer, StatementFails, Execute
  <2>3. GeometryIsAdded(req, before.db, work', serial')
    BY <2>1, <2>2, FreshStart DEF GeometryIsAdded
  <2>4. QED
    BY <1>2, <2>3, EffectOf
<1>3. QED
  BY <1>1, <1>2

\* A member is removed: from the one trajectory of the feature, if it has one.
LEMMA MemberEffect ==
  ASSUME Known, Works, pc' = "finish", req.op = "delete_single_temporal_primitive_geo"
  PROVE  TookEffect(req, before.db, work', made', serial')
<1> DEFINE rows == GeometriesIn(work, req.cid, req.fid)
           trajs == [g \in rows |-> RemoveMember(work.geometries[g].traj, req.n)]
<1>1. delete_single_temporal_primitive_geo /\ pc = "check"
  BY OwnStatements DEF Works, Known, delete_single_temporal_primitive_geo, At
<1>2. /\ \E g \in rows : req.n \in DOMAIN work.geometries[g].traj
      /\ work' = UpdateTrajectories(work, trajs)
  BY <1>1 DEF delete_single_temporal_primitive_geo, Answer, StatementFails, ExecuteLast, Execute
<1>3. work = before.db /\ IsDatabase(work) /\ req \in Request /\ req.n \in Int
  BY <1>1, FreshStart DEF Request
<1>4. \A g \in DOMAIN work.geometries : work.geometries[g].traj \in Trajectories
  BY <1>3 DEF IsDatabase, IsTable, GeometryRow
<1>5. DOMAIN trajs = rows /\ \A g \in rows : trajs[g] = RemoveMember(work.geometries[g].traj, req.n)
  OBVIOUS
<1>6. rows \subseteq GeometriesOf(work, req.fid) /\ rows \subseteq DOMAIN work.geometries
  BY DEF GeometriesIn, GeometriesOf
<1>7. \A g \in rows : trajs[g] \in Trajectories
  BY <1>3, <1>4, <1>5, <1>6, RemoveMemberType
<1> HIDE DEF trajs, rows
<1>8. TrajectoriesUpdated(work, work', trajs)
  BY <1>2, <1>3, <1>5, <1>7, UpdateTrajectoriesFields
<1>9. ASSUME NEW g \in GeometriesOf(before.db, req.fid), GeometriesOf(before.db, req.fid) = {g}
      PROVE  work'.geometries[g].traj = RemoveAt(before.db.geometries[g].traj, req.n)
  <2>1. g \in rows /\ req.n \in DOMAIN work.geometries[g].traj
    BY <1>2, <1>3, <1>6, <1>9
  <2>2. work'.geometries[g].traj = RemoveMember(work.geometries[g].traj, req.n)
    BY <1>5, <1>6, <1>8, <2>1 DEF TrajectoriesUpdated
  <2>3. QED
    BY <1>3, <2>1, <2>2 DEF RemoveMember
<1>10. MemberIsGone(req, before.db, work')
  BY <1>9 DEF MemberIsGone
<1>11. QED
  BY <1>10, EffectOf

\* Values are added to a property, and properties deleted.
LEMMA PropertyEffects ==
  ASSUME Known, Works, pc' = "finish",
         req.op \in {"post_temporal_property", "delete_temporal_property"}
  PROVE  TookEffect(req, before.db, work', made', serial')
<1> USE DEF At, Handles
<1>1. CASE req.op = "post_temporal_property"
  <2>1. post_temporal_property /\ pc = "check"
    BY <1>1, OwnStatements DEF Works, Known, post_temporal_property
  <2>2. \E p \in Named : work' = InsertValuesRow(work, serial', p, req)
    BY <2>1 DEF post_temporal_property, Answer, Raise, Execute
  <2>3. ValuesAreAdded(req, before.db, work', serial')
    BY <2>1, <2>2, FreshStart DEF ValuesAreAdded, Named
  <2>4. QED
    BY <1>1, <2>3, EffectOf
<1>2. CASE req.op = "delete_temporal_property"
  <2>1. delete_temporal_property /\ pc = "check"
    BY <1>2, OwnStatements DEF Works, Known, delete_temporal_property
  <2>2. work' = DeleteProperties(work, Named)
    BY <2>1 DEF delete_temporal_property, Answer, ExecuteLast, Execute
  <2>3. PropertyIsGone(req, before.db, work')
    BY <2>1, <2>2, FreshStart DEF PropertyIsGone, Named
  <2>4. QED
    BY <1>2, <2>3, EffectOf
<1>3. QED
  BY <1>1, <1>2

\* A property is added: without values, which takes one statement, or with
\* them, after it was committed.
LEMMA PropertyAdded ==
  ASSUME Known, PropertyInv, PropertyNamesUnique, Works, pc' = "finish",
         req.op = "post_tproperties"
  PROVE  TookEffect(req, before.db, work', made', serial')
<1> USE DEF At, Handles
<1>1. pc # "idle" /\ tx = "ok" /\ disk' = disk
  BY DEF Works, Executing
<1>2. /\ req # NoRequest /\ req \in Request /\ serial \in Nat
      /\ IsDatabase(work) /\ IsDatabase(disk) /\ IsDatabase(before.db)
  BY <1>1, RequestType DEF Known, TypeInv, TypeOK
<1>3. CASE post_tproperties
  <2> DEFINE key == serial + 1
  <2>1. pc = "check" /\ work' = InsertPropertyRow(work, key, req.fid, req.name) /\ req.form = "ok"
    <3>1. ~Leave /\ ~Answer(400) /\ ~Answer(409) /\ ~Raise(500)
      BY DEF Leave, Answer, Raise
    <3>2. QED
      BY <1>3, <3>1 DEF post_tproperties, Execute, Draw
  <2>2. work = before.db /\ ReferencesHold(work) /\ KeysDrawn(work, serial)
    BY <2>1, FreshStart
  <2>3. key \notin DOMAIN work.properties
    BY <1>2, <2>2 DEF KeysDrawn, IsDatabase, IsTable
  <2> HIDE DEF key
  <2>4. PropertyInserted(work, work', key, req.fid, req.name)
    BY <1>2, <2>1, InsertPropertyRowFields
  <2>5. ValuesOf(work', key) = {}
    BY <2>2, <2>3, <2>4 DEF PropertyInserted, ReferencesHold, ValuesOf
  <2>6. key \in PropertiesNamed(work', req.fid, req.name)
    BY <2>4 DEF PropertyInserted, PropertiesNamed, PropertiesOf
  <2>7. work'.properties = InsertPropertyRow(before.db, key, req.fid, req.name).properties
    BY <2>1, <2>2
  <2>8. DOMAIN work'.geometries = DOMAIN before.db.geometries
    BY <2>2, <2>4 DEF PropertyInserted
  <2>9. PropertyIsAdded(req, before.db, work')
    BY <2>1, <2>5, <2>6, <2>7, <2>8 DEF PropertyIsAdded
  <2>10. QED
    BY <2>9, EffectOf
<1>4. CASE post_tproperties_values
  <2> DEFINE key == serial + 1
             old == InsertPropertyRow(before.db, serial, req.fid, req.name)
  <2>1. /\ pc = "insert values" /\ req.form = "with values"
        /\ \E p \in Named : work' = InsertValuesRow(work, key, p, req)
    BY <1>4 DEF post_tproperties_values, Raise, StatementFails, Execute, Draw
  <2>2. work = disk /\ Rows(disk) = Rows(old)
    BY <1>2, <2>1 DEF Known, PendingInv, Uncommitted, PropertyInv, PropertyOnly
  <2>3. req.fid \in FeatureIds /\ req.name \in PropertyNames
    BY <1>2 DEF Request
  <2>4. IsDatabase(old) /\ PropertyInserted(before.db, old, serial, req.fid, req.name)
    BY <1>2, <2>3, InsertPropertyRowType, InsertPropertyRowFields
  <2> HIDE DEF old
  <2>5. work.geometries = before.db.geometries /\ work.properties = old.properties
    BY <1>2, <2>2, <2>4, SameRows DEF PropertyInserted
  <2>6. PICK p \in Named : work' = InsertValuesRow(work, key, p, req)
    BY <2>1
  <2>7. /\ p \in DOMAIN work.properties /\ work.properties[p].fid = req.fid
        /\ work.properties[p].name = req.name
    BY <2>6 DEF Named, PropertiesNamed, PropertiesOf
  <2>8. p = serial
    <3>1. /\ serial \in DOMAIN work.properties
          /\ work.properties[serial] = [fid |-> req.fid, name |-> req.name]
      BY <2>4, <2>5 DEF PropertyInserted
    <3>2. work.properties[p] \in PropertyRow
      BY <1>2, <2>7 DEF IsDatabase, IsTable
    <3>3. work.properties[p] = work.properties[serial]
      BY <2>7, <3>1, <3>2 DEF PropertyRow
    <3>4. QED
      BY <2>2, <2>7, <3>1, <3>3 DEF PropertyNamesUnique
  <2>9. ValuesOf(work, p) = {}
    BY <1>1, <2>1, <2>6 DEF Known, TablesInv, Located, Checked
  <2> HIDE DEF key
  <2>10. ValuesInserted(work, work', key, p, req)
    BY <1>2, <2>6, InsertValuesRowFields
  <2>11. \A v : v \in ValuesOf(work', p) <=> v = key
    BY <2>9, <2>10 DEF ValuesInserted, ValuesOf
  <2>12. {work'.values[v] : v \in ValuesOf(work', p)} =
           {[pid |-> p, times |-> req.times, values |-> req.values]}
    BY <2>10, <2>11 DEF ValuesInserted
  <2>13. p \in PropertiesNamed(work', req.fid, req.name)
    BY <2>6, <2>10 DEF ValuesInserted, Named, PropertiesNamed, PropertiesOf
  <2>14. work'.properties = InsertPropertyRow(before.db, p, req.fid, req.name).properties
    BY <2>5, <2>8, <2>10 DEF ValuesInserted, old
  <2>15. DOMAIN work'.geometries = DOMAIN before.db.geometries
    BY <2>5, <2>10 DEF ValuesInserted
  <2>16. PropertyIsAdded(req, before.db, work')
    BY <2>1, <2>12, <2>13, <2>14, <2>15 DEF PropertyIsAdded
  <2>17. QED
    BY <2>16, EffectOf
<1>5. QED
  BY <1>3, <1>4, OwnStatements DEF Works, Known

-----------------------------------------------------------------------------
(* A PUT of a feature: the old one is removed with what hangs on it, the   *)
(* row and then the geometry of the new one go in.                         *)

Removed(db) ==
  /\ req.fid \in DOMAIN before.db.features
  /\ DOMAIN db.features = DOMAIN before.db.features \ {req.fid}
  /\ GeometriesOf(db, req.fid) = {} /\ PropertiesOf(db, req.fid) = {}

Reinserted(db) ==
  /\ DOMAIN db.features = DOMAIN before.db.features
  /\ req.fid \in DOMAIN db.features /\ db.features[req.fid].cid = req.cid
  /\ GeometriesOf(db, req.fid) = {} /\ PropertiesOf(db, req.fid) = {}

ReplacingInv ==
  req # NoRequest /\ req.op = "put_single_moving_feature" /\ tx = "ok" =>
    /\ pc \in FeatureLabels =>
         /\ Head(todo).id = req.fid /\ Head(todo).kind = req.items[1].kind
         /\ Head(todo).traj = req.items[1].traj
    /\ pc \in {"feature", "features", "insert feature"} => Removed(work)
    /\ pc = "insert geometry" => Reinserted(work)

\* The row of the new feature.
LEMMA RowReplaced ==
  ASSUME Known, ReplacingInv, insert_feature_row, req # NoRequest, tx = "ok", pc' # "except",
         req.op = "put_single_moving_feature"
  PROVE  /\ UNCHANGED <<req, before>>
         /\ DOMAIN work'.features = DOMAIN before.db.features
         /\ req.fid \in DOMAIN work'.features /\ work'.features[req.fid].cid = req.cid
         /\ GeometriesOf(work', req.fid) = {} /\ PropertiesOf(work', req.fid) = {}
         /\ \/ /\ pc' = "insert geometry" /\ Head(todo').id = req.fid
               /\ Head(todo').kind = req.items[1].kind /\ Head(todo').traj = req.items[1].traj
            \/ pc' # "insert geometry" /\ req.items[1].kind = "empty temporalGeometry"
<1>1. PICK id \in FeatureIds : RowDone(id) /\ (GeometryNext(id) \/ RowIsAll(id))
  BY InsertedRow DEF Known
<1>2. pc = "insert feature" /\ pc # "idle"
  BY DEF insert_feature_row
<1>3. /\ Head(todo).id = req.fid /\ Head(todo).kind = req.items[1].kind
      /\ Head(todo).traj = req.items[1].traj /\ Removed(work)
  BY <1>2 DEF ReplacingInv, FeatureLabels
<1>4. Head(todo) \in Items /\ req \in Request
  BY <1>2, HeadTailType, RequestType DEF Known, TypeInv, TypeOK, Control, FeatureLabels
<1>5. req.fid # NoId
  BY <1>4, RequestsAssumption DEF Request
<1>6. id = req.fid
  BY <1>1, <1>3, <1>5 DEF RowDone, Keys
<1>7. req.fid \notin DOMAIN work.features
  BY <1>3 DEF Removed
<1>8. FeatureInserted(work, work', req.fid, req.cid) /\ UNCHANGED <<req, before>>
  BY <1>1, <1>6, <1>7 DEF RowDone
<1>9. /\ DOMAIN work'.features = DOMAIN before.db.features /\ req.fid \in DOMAIN work'.features
      /\ work'.features[req.fid].cid = req.cid
      /\ work'.geometries = work.geometries /\ work'.properties = work.properties
  BY <1>3, <1>8 DEF FeatureInserted, FewTables, Removed
<1>10. GeometriesOf(work', req.fid) = {} /\ PropertiesOf(work', req.fid) = {}
  BY <1>3, <1>9 DEF Removed, GeometriesOf, PropertiesOf
<1>11. CASE GeometryNext(id)
  <2>1. Head(todo') = [Head(todo) EXCEPT !.id = req.fid] /\ pc' = "insert geometry"
    BY <1>6, <1>11 DEF GeometryNext
  <2>2. Head(todo').id = req.fid /\ Head(todo').kind = Head(todo).kind
        /\ Head(todo').traj = Head(todo).traj
    BY <1>4, <2>1 DEF Items
  <2>3. QED
    BY <1>3, <1>8, <1>9, <1>10, <2>1, <2>2
<1>12. CASE RowIsAll(id)
  <2>1. Head(todo).kind = "empty temporalGeometry" /\ pc' # "insert geometry"
    BY <1>6, <1>7, <1>12 DEF RowIsAll
  <2>2. QED
    BY <1>3, <1>8, <1>9, <1>10, <2>1
<1>13. QED
  BY <1>1, <1>11, <1>12

\* The statements of PUT keep ReplacingInv.
LEMMA ReplacingWorks ==
  ASSUME Known, ReplaceInv, ReplacingInv, Works, req.op = "put_single_moving_feature"
  PROVE  ReplacingInv'
<1>1. /\ UNCHANGED <<req, before>> /\ tx = "ok" /\ pc # "idle" /\ pc' # "except"
  BY DEF Works, Kept, Executing, Outcomes
<1>2. /\ req # NoRequest /\ IsDatabase(work) /\ req \in Requests /\ req \in Request
  BY <1>1, RequestType DEF Known, TypeInv, TypeOK
<1>3. CASE put_single_moving_feature
  <2>1. /\ pc = "check" /\ pc' = "feature" /\ HasFeature(work, req.cid, req.fid)
        /\ work' = DeleteFeatures(work, {req.fid})
        /\ todo' = <<[req.items[1] EXCEPT !.id = req.fid]>>
    <3>1. ~Answer(404)
      BY DEF Answer, Works, Outcomes
    <3>2. QED
      BY <1>3, <3>1 DEF put_single_moving_feature, At, Execute
  <2>2. work = before.db
    BY <2>1, FreshStart
  <2>3. FeaturesDeleted(work, work', {req.fid})
    BY <1>2, <2>1, DeleteFeaturesFields
  <2>10. /\ DOMAIN work'.features = DOMAIN before.db.features \ {req.fid}
         /\ req.fid \in DOMAIN before.db.features
    BY <2>1, <2>2, <2>3 DEF FeaturesDeleted, SubTable, HasFeature
  <2>11. GeometriesOf(work', req.fid) = {} /\ PropertiesOf(work', req.fid) = {}
    BY <2>3 DEF FeaturesDeleted, SubTable, GeometriesOf, PropertiesOf
  <2>4. Removed(work)'
    BY <1>1, <2>10, <2>11 DEF Removed, GeometriesOf, PropertiesOf
  <2>5. req.items \in Seq(Items) /\ Len(req.items) = 1
    BY <1>2, <2>1, RequestsAssumption DEF Known, TypeInv, Control, Request
  <2>6. req.items[1] \in Items
    BY <2>5
  <2>7. Head(todo') = [req.items[1] EXCEPT !.id = req.fid]
    BY <2>1
  <2>8. /\ Head(todo').id = req.fid /\ Head(todo').kind = req.items[1].kind
        /\ Head(todo').traj = req.items[1].traj
    BY <2>6, <2>7 DEF Items
  <2>9. QED
    BY <1>1, <2>1, <2>4, <2>8 DEF ReplacingInv
<1>4. CASE insert_feature_tables
  <2>1. /\ pc = "feature" /\ pc' = "features" /\ UNCHANGED todo
        /\ work' = CreateTables(work, {"core", "features"})
    BY <1>1, <1>4 DEF insert_feature_tables, Raise, Execute, loop
  <2>2. TablesCreated(work, work', {"core", "features"})
    BY <1>2, <2>1, CreateTablesFields
  <2>3. Removed(work)'
    BY <1>1, <1>2, <2>1, <2>2
    DEF ReplacingInv, FeatureLabels, Removed, TablesCreated, FewTables, GeometriesOf, PropertiesOf
  <2>4. QED
    BY <1>1, <1>2, <2>1, <2>3 DEF ReplacingInv, FeatureLabels
<1>5. ASSUME insert_feature_row \/ insert_feature_geometry
      PROVE  pc' = "finish" \/ (pc' = "insert geometry" /\ insert_feature_row)
  <2>1. pc \in FeatureLabels
    BY <1>5 DEF insert_feature_row, insert_feature_geometry, FeatureLabels
  <2>2. todo # <<>> /\ todo \in Seq(Items) /\ Len(todo) = 1
    BY <1>2, <2>1 DEF Known, TypeInv, TypeOK, Control, ReplaceInv
  <2>3. Tail(todo) \in Seq(Items) /\ Len(Tail(todo)) = Len(todo) - 1
    BY <2>2, HeadTailProperties
  <2>4. Tail(todo) = <<>>
    <3>1. Tail(todo) # <<>> => Len(Tail(todo)) \in Nat \ {0}
      BY <2>3, EmptySeq
    <3>2. QED
      BY <2>2, <2>3, <3>1
  <2>5. NextItem(Tail(todo), "feature") = "finish"
    BY <2>4 DEF NextItem
  <2>6. CASE insert_feature_row
    <3>1. PICK id \in FeatureIds : RowDone(id) /\ (GeometryNext(id) \/ RowIsAll(id))
      BY <1>1, <2>6, InsertedRow DEF Known
    <3>2. QED
      BY <2>5, <2>6, <3>1 DEF GeometryNext, RowIsAll
  <2>7. CASE insert_feature_geometry
    BY <1>1, <2>5, <2>7, InsertedGeometry DEF Known
  <2>8. QED
    BY <1>5, <2>6, <2>7
<1>6. CASE insert_feature_row \/ insert_feature_geometry
  <2>1. CASE pc' = "finish"
    BY <2>1 DEF ReplacingInv, FeatureLabels
  <2>2. CASE pc' = "insert geometry" /\ insert_feature_row
    <3>1. /\ Head(todo').id = req.fid /\ Head(todo').kind = req.items[1].kind
          /\ Head(todo').traj = req.items[1].traj
          /\ DOMAIN work'.features = DOMAIN before.db.features
          /\ req.fid \in DOMAIN work'.features /\ work'.features[req.fid].cid = req.cid
          /\ GeometriesOf(work', req.fid) = {} /\ PropertiesOf(work', req.fid) = {}
      BY <1>1, <1>2, <2>2, RowReplaced
    <3>2. Reinserted(work)'
      BY <1>1, <3>1 DEF Reinserted, GeometriesOf, PropertiesOf
    <3>3. QED
      BY <1>1, <2>2, <3>1, <3>2 DEF ReplacingInv
  <2>3. QED
    BY <1>5, <1>6, <2>1, <2>2
<1>7. QED
  BY <1>3, <1>4, <1>6, OwnStatements DEF Works, Known

\* So does every step: the labels before the first statement and after the last
\* say nothing, and a lost session ends the claim.
LEMMA ReplacingStep ==
  Known /\ ReplaceInv /\ ReplacingInv /\ [Next]_vars => ReplacingInv'
<1> SUFFICES ASSUME Known, ReplaceInv, ReplacingInv, [Next]_vars,
                    req' # NoRequest, req'.op = "put_single_moving_feature", tx' = "ok",
                    pc' \in FeatureLabels
             PROVE  ReplacingInv'
  BY DEF ReplacingInv, FeatureLabels
<1>1. Course
  BY EveryStep DEF Known
<1>2. CASE Leave \/ Arrives \/ Refuses \/ Shows
  BY <1>2 DEF Leave, Arrives, Refuses, Shows, FeatureLabels
<1>3. CASE Waits
  BY <1>3 DEF Waits, Kept, ReplacingInv, Removed, Reinserted, GeometriesOf, PropertiesOf
<1>4. CASE Works
  BY <1>4, ReplacingWorks DEF Works, Kept
<1>5. CASE pc # "idle" /\ Commit
  <2>1. /\ UNCHANGED <<req, before, work, tx, todo>> /\ pc \in DOMAIN AfterCommit
        /\ pc' = AfterCommit[pc]
    BY <1>5 DEF Commit, request, loop
  <2>2. pc = "features" /\ pc' = "insert feature"
    <3>1. /\ AfterCommit["tables"] = "insert collection" /\ AfterCommit["finish"] = "respond"
          /\ AfterCommit["features"] = "insert feature" /\ AfterCommit["property"] = "insert values"
      BY DEF AfterCommit
    <3>2. QED
      BY <2>1, <3>1, LabelsType DEF FeatureLabels
  <2>3. Removed(work)'
    BY <2>1, <2>2 DEF ReplacingInv, Removed, GeometriesOf, PropertiesOf
  <2>4. QED
    BY <2>1, <2>2, <2>3 DEF ReplacingInv, FeatureLabels
<1>6. QED
  BY <1>1, <1>2, <1>3, <1>4, <1>5 DEF Course

\* The last statement of PUT completes the new feature.
LEMMA ReplaceEffect ==
  ASSUME Known, ReplacingInv, Works, pc' = "finish", req.op = "put_single_moving_feature"
  PROVE  TookEffect(req, before.db, work', made', serial')
<1>1. pc # "idle" /\ tx = "ok"
  BY DEF Works, Executing
<1>2. /\ req # NoRequest /\ IsDatabase(work) /\ req \in Request
  BY <1>1, RequestType DEF Known, TypeInv, TypeOK
<1>3. CASE insert_feature_row
  <2>1. /\ DOMAIN work'.features = DOMAIN before.db.features
        /\ work'.features[req.fid].cid = req.cid
        /\ GeometriesOf(work', req.fid) = {} /\ PropertiesOf(work', req.fid) = {}
        /\ req.items[1].kind = "empty temporalGeometry"
    BY <1>1, <1>2, <1>3, RowReplaced
  <2>2. TrajectoriesOf(work', req.fid) = Posted(req.items[1])
    BY <2>1 DEF TrajectoriesOf, Posted
  <2>3. FeatureIsReplaced(req, before.db, work')
    BY <2>1, <2>2 DEF FeatureIsReplaced
  <2>4. QED
    BY <2>3, EffectOf
<1>4. CASE insert_feature_geometry
  <2> DEFINE key == serial + 1
             traj == Head(todo).traj
  <2>1. /\ pc = "insert geometry" /\ Head(todo).kind = "ok" /\ key \notin DOMAIN work.geometries
        /\ GeometryInserted(work, work', key, Head(todo).id, req.cid, traj, TRUE)
    BY <1>4, InsertedGeometry DEF Known
  <2>2. /\ Head(todo).id = req.fid /\ req.items[1].kind = "ok" /\ traj = req.items[1].traj
        /\ Reinserted(work)
    BY <1>1, <1>2, <2>1 DEF ReplacingInv, FeatureLabels
  <2> HIDE DEF key, traj
  <2>3. GeometryInserted(work, work', key, req.fid, req.cid, traj, TRUE)
    BY <2>1, <2>2
  <2>11. /\ key \in DOMAIN work'.geometries
         /\ work'.geometries[key].fid = req.fid /\ work'.geometries[key].traj = traj
    BY <2>3 DEF GeometryInserted
  <2>12. \A g \in DOMAIN work'.geometries : g # key =>
           g \in DOMAIN work.geometries /\ work'.geometries[g].fid = work.geometries[g].fid
    BY <2>1, <2>3 DEF GeometryInserted
  <2>13. \A g \in DOMAIN work.geometries : work.geometries[g].fid # req.fid
    BY <2>2 DEF Reinserted, GeometriesOf
  <2>4. GeometriesOf(work', req.fid) = {key} /\ work'.geometries[key].traj = traj
    BY <2>11, <2>12, <2>13 DEF GeometriesOf
  <2>5. TrajectoriesOf(work', req.fid) = {traj}
    BY <2>4 DEF TrajectoriesOf
  <2>6. PropertiesOf(work', req.fid) = {}
    BY <2>2, <2>3 DEF GeometryInserted, Reinserted, PropertiesOf
  <2>7. work.features[req.fid] \in FeatureRow
    BY <1>2, <2>2 DEF Reinserted, IsDatabase, IsTable
  <2>8. /\ DOMAIN work'.features = DOMAIN before.db.features
        /\ work'.features[req.fid].cid = req.cid
    BY <2>2, <2>3, <2>7 DEF GeometryInserted, Reinserted, FeatureRow
  <2>9. FeatureIsReplaced(req, before.db, work')
    BY <2>2, <2>5, <2>6, <2>8 DEF FeatureIsReplaced, Posted
  <2>10. QED
    BY <2>9, EffectOf
<1>5. CASE put_single_moving_feature \/ insert_feature_tables
  BY <1>5 DEF put_single_moving_feature, insert_feature_tables, Answer, Raise, Execute
<1>6. QED
  BY <1>3, <1>4, <1>5, OwnStatements DEF Works, Known

-----------------------------------------------------------------------------
(* The loops: what is left of the items of a body is their end, and what   *)
(* was done holds for the items before it.                                 *)

Suffix(seq, items) ==
  /\ Len(seq) <= Len(items)
  /\ \A n \in 1..Len(seq) : seq[n] = items[Len(items) - Len(seq) + n]

\* The head of what is left is the next item.
LEMMA SuffixHead ==
  ASSUME NEW items \in Seq(Items), NEW seq \in Seq(Items), seq # <<>>, Suffix(seq, items)
  PROVE  LET n == Len(items) - Len(seq) + 1
         IN  /\ n \in 1..Len(items) /\ Head(seq) = items[n]
             /\ Len(items) - Len(Tail(seq)) = n
             /\ Suffix(Tail(seq), items) /\ Tail(seq) \in Seq(Items)
<1>1. /\ Tail(seq) \in Seq(Items) /\ Len(Tail(seq)) = Len(seq) - 1
      /\ \A n \in 1..Len(Tail(seq)) : Tail(seq)[n] = seq[n + 1]
  BY HeadTailProperties
<1>2. Len(seq) \in Nat \ {0} /\ Len(items) \in Nat /\ Head(seq) = seq[1]
  BY EmptySeq, HeadTailType
<1>3. /\ Len(seq) <= Len(items)
      /\ \A n \in 1..Len(seq) : seq[n] = items[Len(items) - Len(seq) + n]
  BY DEF Suffix
<1>4. Suffix(Tail(seq), items)
  <2>1. ASSUME NEW n \in 1..Len(Tail(seq))
        PROVE  Tail(seq)[n] = items[Len(items) - Len(Tail(seq)) + n]
    <3>1. n + 1 \in 1..Len(seq) /\ Tail(seq)[n] = seq[n + 1]
      BY <1>1, <1>2
    <3>2. seq[n + 1] = items[Len(items) - Len(seq) + (n + 1)]
      BY <1>3, <3>1
    <3>3. Len(items) - Len(seq) + (n + 1) = Len(items) - Len(Tail(seq)) + n
      BY <1>1, <1>2
    <3>4. QED
      BY <3>1, <3>2, <3>3
  <2>2. QED
    BY <1>1, <1>2, <1>3, <2>1 DEF Suffix
<1>5. Head(seq) = items[Len(items) - Len(seq) + 1]
  BY <1>2, <1>3
<1>6. QED
  BY <1>1, <1>2, <1>3, <1>4, <1>5

\* The loop is done when nothing is left.
LEMMA LastItem ==
  ASSUME NEW seq \in Seq(Items), NEW l, l # "finish"
  PROVE  NextItem(seq, l) = "finish" <=> Len(seq) = 0
  BY EmptySeq DEF NextItem

-----------------------------------------------------------------------------
(* A batch of observations.                                                *)

\* No trajectory lost an instant, no feature its row.
Larger(old, new) ==
  /\ DOMAIN old.features \subseteq DOMAIN new.features
  /\ \A g \in DOMAIN old.geometries :
       /\ g \in DOMAIN new.geometries
       /\ new.geometries[g].fid = old.geometries[g].fid
       /\ InstantsOf(old.geometries[g].traj) \subseteq InstantsOf(new.geometries[g].traj)

\* Then no feature lost an instant either.
LEMMA LargerInstants ==
  ASSUME NEW old, NEW new, Larger(old, new), NEW f
  PROVE  InstantsIn(old, f) \subseteq InstantsIn(new, f)
<1>1. SUFFICES ASSUME NEW t \in InstantsIn(old, f) PROVE t \in InstantsIn(new, f)
  OBVIOUS
<1>2. PICK g \in GeometriesOf(old, f) : t \in InstantsOf(old.geometries[g].traj)
  BY <1>1 DEF InstantsIn, TrajectoriesOf
<1>3. g \in GeometriesOf(new, f) /\ t \in InstantsOf(new.geometries[g].traj)
  BY <1>2 DEF Larger, GeometriesOf
<1>4. QED
  BY <1>3 DEF InstantsIn, TrajectoriesOf

\* The first done observations are in trajectories of their features.
Observed(items, db, done) ==
  \A n \in 1..done :
    items[n].id \in DOMAIN db.features /\ items[n].traj[1] \subseteq InstantsIn(db, items[n].id)

\* An instant that is appended is in the trajectory, with those that were.
LEMMA AppendInstantGrows ==
  ASSUME NEW traj \in Trajectories, NEW instant
  PROVE  /\ InstantsOf(traj) \subseteq InstantsOf(AppendInstant(traj, instant))
         /\ traj # Null => instant \subseteq InstantsOf(AppendInstant(traj, instant))
<1>1. CASE traj = Null
  BY <1>1 DEF AppendInstant
<1>2. CASE traj # Null
  <2> DEFINE new == [traj EXCEPT ![Len(traj)] = @ \cup instant]
  <2>1. AppendInstant(traj, instant) = new
    BY <1>2 DEF AppendInstant
  <2>2. Len(traj) \in DOMAIN traj
    BY <1>2 DEF Null, Trajectories
  <2>3. /\ DOMAIN new = DOMAIN traj /\ \A m \in DOMAIN traj : traj[m] \subseteq new[m]
        /\ instant \subseteq new[Len(traj)]
    BY <2>2
  <2> HIDE DEF new
  <2>4. QED
    BY <2>1, <2>2, <2>3 DEF InstantsOf
<1>3. QED
  BY <1>1, <1>2

\* The step that appends an observation has it in a trajectory of its feature.
LEMMA InstantAppended ==
  ASSUME TypeInv, TablesInv, Filled(work), append_observations_instant, tx = "ok", pc' # "except"
  PROVE  /\ pc = "append instant" /\ pc' = NextItem(Tail(todo), "observe") /\ todo' = Tail(todo)
         /\ Larger(work, work') /\ Head(todo).id \in DOMAIN work'.features
         /\ Head(todo).traj[1] \subseteq InstantsIn(work', Head(todo).id)
<1>1. pc = "append instant" /\ pc \in BatchLabels
  BY DEF append_observations_instant, BatchLabels
<1>2. /\ todo \in Seq(Items) /\ todo # <<>> /\ Head(todo).id \in FeatureIds
      /\ Head(todo).traj \in Trajectories /\ Head(todo).traj[1] \in SUBSET Instants
      /\ req.cid \in CollectionIds
  BY <1>1, HeadObservation
<1>3. IsDatabase(work) /\ serial \in Nat /\ Head(todo).id \in DOMAIN work.features
  BY <1>1 DEF TypeInv, TypeOK, TablesInv, Located, Checked
<1>4. PICK id : id = Head(todo).id
  OBVIOUS
<1>5. PICK instant : instant = Head(todo).traj[1]
  OBVIOUS
<1> DEFINE rows  == GeometriesOf(work, id)
           trajs == [g \in rows |-> AppendInstant(work.geometries[g].traj, instant)]
<1>6. /\ pc' = NextItem(Tail(todo), "observe") /\ todo' = Tail(todo)
      /\ \/ rows # {} /\ work' = UpdateTrajectories(work, trajs)
         \/ /\ rows = {} /\ serial' = serial + 1
            /\ work' = InsertGeometryRow(work, serial', id, req.cid, Head(todo).traj, FALSE)
  BY <1>4, <1>5 DEF append_observations_instant, StatementFails, Execute, Draw
<1> DEFINE Appended == /\ Larger(work, work') /\ id \in DOMAIN work'.features
                       /\ instant \subseteq InstantsIn(work', id)
<1> HIDE DEF Appended
<1>7. ASSUME rows # {}, work' = UpdateTrajectories(work, trajs)
      PROVE  Appended
  <2>1. \A g \in DOMAIN work.geometries : work.geometries[g].traj \in Trajectories
    BY <1>3 DEF IsDatabase, IsTable, GeometryRow
  <2>2. DOMAIN trajs = rows /\ \A g \in rows :
          trajs[g] = AppendInstant(work.geometries[g].traj, instant)
    OBVIOUS
  <2>3. rows \subseteq DOMAIN work.geometries
    BY DEF GeometriesOf
  <2>4. \A g \in rows : trajs[g] \in Trajectories
    BY <1>2, <1>5, <2>1, <2>2, <2>3, AppendInstantType
  <2> HIDE DEF trajs
  <2>5. TrajectoriesUpdated(work, work', trajs)
    BY <1>3, <1>7, <2>2, <2>4, UpdateTrajectoriesFields
  <2>6. ASSUME NEW g \in DOMAIN work.geometries
        PROVE  InstantsOf(work.geometries[g].traj) \subseteq InstantsOf(work'.geometries[g].traj)
    <3>1. work'.geometries[g].traj = IF g \in rows THEN trajs[g] ELSE work.geometries[g].traj
      BY <2>2, <2>5 DEF TrajectoriesUpdated
    <3>2. g \in rows => InstantsOf(work.geometries[g].traj) \subseteq InstantsOf(trajs[g])
      BY <2>1, <2>2, AppendInstantGrows
    <3>3. QED
      BY <3>1, <3>2
  <2>7. Larger(work, work')
    BY <2>5, <2>6 DEF TrajectoriesUpdated, Larger
  <2>8. PICK g \in rows : TRUE
    BY <1>7
  <2>9. PICK h \in DOMAIN work.geometries :
          work.geometries[h].fid = work.geometries[g].fid /\ work.geometries[h].traj # Null
    BY <2>3 DEF Filled
  <2>10. h \in rows
    BY <2>8, <2>9 DEF GeometriesOf
  <2>11. instant \subseteq InstantsOf(trajs[h])
    BY <2>1, <2>2, <2>9, <2>10, AppendInstantGrows
  <2>12. h \in GeometriesOf(work', id) /\ work'.geometries[h].traj = trajs[h]
    BY <2>2, <2>5, <2>10 DEF TrajectoriesUpdated, GeometriesOf
  <2>13. instant \subseteq InstantsIn(work', id)
    BY <2>11, <2>12 DEF InstantsIn, TrajectoriesOf
  <2>14. id \in DOMAIN work.features
    BY <1>3, <1>4
  <2>15. id \in DOMAIN work'.features
    BY <2>7, <2>14 DEF Larger
  <2>16. QED
    BY <2>7, <2>13, <2>15 DEF Appended
<1>8. ASSUME rows = {}, serial' = serial + 1,
             work' = InsertGeometryRow(work, serial', id, req.cid, Head(todo).traj, FALSE)
      PROVE  Appended
  <2>1. PICK key : key = serial + 1
    OBVIOUS
  <2>2. PICK traj : traj = Head(todo).traj
    OBVIOUS
  <2>3. key \in Nat \ DOMAIN work.geometries
    BY <1>3, <2>1 DEF TablesInv, KeysDrawn, IsDatabase, IsTable
  <2>4. FALSE \in BOOLEAN
    OBVIOUS
  <2>5. work' = InsertGeometryRow(work, key, id, req.cid, traj, FALSE)
    BY <1>8, <2>1, <2>2
  <2>6. GeometryInserted(work, work', key, id, req.cid, traj, FALSE)
    BY <1>2, <1>3, <1>4, <2>2, <2>3, <2>4, <2>5, InsertGeometryRowFields
  <2>7. Larger(work, work')
    BY <2>6 DEF GeometryInserted, Larger
  <2>8. key \in GeometriesOf(work', id) /\ work'.geometries[key].traj = traj
    BY <2>6 DEF GeometryInserted, GeometriesOf
  <2>9. instant \subseteq InstantsOf(traj)
    <3>1. Observation(Head(todo))
      BY <1>1, <1>2, HeadTailType DEF TypeInv, Control
    <3>2. QED
      BY <1>5, <2>2, <3>1 DEF Observation, InstantsOf
  <2>10. instant \subseteq InstantsIn(work', id)
    BY <2>8, <2>9 DEF InstantsIn, TrajectoriesOf
  <2>11. id \in DOMAIN work.features
    BY <1>3, <1>4
  <2>12. id \in DOMAIN work'.features
    BY <2>7, <2>11 DEF Larger
  <2>13. QED
    BY <2>7, <2>10, <2>12 DEF Appended
<1>9. Appended
  BY <1>6, <1>7, <1>8
<1>10. QED
  BY <1>1, <1>4, <1>5, <1>6, <1>9 DEF Appended

\* Until the one commit, the transaction holds what the batch brought so far.
BulkInv ==
  req # NoRequest /\ req.op = "post_bulk" =>
    /\ pc \in BatchLabels \cup {"start", "check", "finish", "except", "respond",
                                "respond in except"}
    /\ tx = "ok" /\ pc \in BatchLabels \cup {"finish"} =>
         /\ Suffix(todo, req.items) /\ Larger(disk, work)
         /\ Observed(req.items, work, Len(req.items) - Len(todo))
         /\ pc = "finish" => Len(todo) = 0

\* A database is as large as itself.
LEMMA LargerChain ==
  /\ \A db : Larger(db, db)
  /\ \A a, b, c : Larger(a, b) /\ Larger(b, c) => Larger(a, c)
  BY DEF Larger

\* What was observed stays so in a larger database.
LEMMA StillObserved ==
  ASSUME NEW old, NEW new, Larger(old, new), NEW items, NEW done, Observed(items, old, done)
  PROVE  Observed(items, new, done)
<1>1. SUFFICES ASSUME NEW n \in 1..done
               PROVE  /\ items[n].id \in DOMAIN new.features
                      /\ items[n].traj[1] \subseteq InstantsIn(new, items[n].id)
  BY DEF Observed
<1>2. /\ items[n].id \in DOMAIN old.features
      /\ items[n].traj[1] \subseteq InstantsIn(old, items[n].id)
  BY DEF Observed
<1>3. PICK f : f = items[n].id
  OBVIOUS
<1>4. InstantsIn(old, f) \subseteq InstantsIn(new, f)
  BY LargerInstants
<1>5. QED
  BY <1>2, <1>3, <1>4 DEF Larger

\* The statements of the batch keep BulkInv.
LEMMA BulkWorks ==
  ASSUME Known, Filled(work), BulkInv, Works, req.op = "post_bulk"
  PROVE  BulkInv'
<1>1. /\ UNCHANGED <<disk, req, before>> /\ tx = "ok" /\ tx' = "ok" /\ pc # "idle"
      /\ pc' \notin {"except", "respond"}
  BY DEF Works, Kept, Executing, Outcomes
<1>2. /\ req # NoRequest /\ IsDatabase(work) /\ todo \in Seq(Items) /\ req.items \in Seq(Items)
  BY <1>1, RequestType DEF Known, TypeInv, TypeOK, Request
<1>3. CASE post_bulk
  <2>1. /\ pc = "check" /\ pc' = NextItem(req.items, "observe") /\ todo' = req.items
        /\ UNCHANGED work
    BY <1>1, <1>3 DEF post_bulk, At, Answer, Raise, store
  <2>2. work = disk
    BY <2>1, FreshStart
  <2>3. pc' \in {"observe", "finish"} /\ (pc' = "finish" => Len(todo') = 0)
    BY <1>2, <2>1, NextItemType, LastItem
  <2>4. Suffix(req.items, req.items)
    BY <1>2 DEF Suffix
  <2>5. Observed(req.items, work, 0)
    BY DEF Observed
  <2>6. Len(req.items) - Len(todo') = 0
    BY <1>2, <2>1
  <2>7. Observed(req.items, work, Len(req.items) - Len(todo))'
    BY <1>1, <2>1, <2>5, <2>6 DEF Observed
  <2>8. Larger(disk, work)'
    BY <1>1, <2>1, <2>2, LargerChain
  <2>9. QED
    BY <1>1, <2>1, <2>3, <2>4, <2>7, <2>8 DEF BulkInv, BatchLabels
<1>4. ASSUME append_observations_row \/ append_observations_instant
      PROVE  /\ Suffix(todo, req.items) /\ Larger(disk, work) /\ todo # <<>>
             /\ Observed(req.items, work, Len(req.items) - Len(todo))
  <2>1. pc \in BatchLabels
    BY <1>4 DEF append_observations_row, append_observations_instant, BatchLabels
  <2>2. QED
    BY <1>1, <1>2, <2>1, HeadObservation DEF BulkInv, Known
<1>5. CASE append_observations_row
  <2>1. /\ pc' = "append instant" /\ UNCHANGED todo
    BY <1>5 DEF append_observations_row
  <2>2. Larger(work, work')
    <3>1. CASE Head(todo).id \in DOMAIN work.features
      BY <1>5, <3>1, LargerChain DEF append_observations_row
    <3>2. CASE Head(todo).id \notin DOMAIN work.features
      <4>1. PICK id : id = Head(todo).id
        OBVIOUS
      <4>2. work' = InsertFeatureRow(work, id, req.cid)
        BY <1>5, <3>2, <4>1 DEF append_observations_row
      <4>3. FeatureInserted(work, work', id, req.cid)
        BY <1>2, <4>2, InsertFeatureRowFields
      <4>4. QED
        BY <4>3 DEF FeatureInserted, FewTables, Larger
    <3>3. QED
      BY <3>1, <3>2
  <2>3. Larger(disk, work)'
    BY <1>1, <1>4, <1>5, <2>2, LargerChain
  <2>4. Observed(req.items, work', Len(req.items) - Len(todo))
    BY <1>4, <1>5, <2>2, StillObserved
  <2>5. Observed(req.items, work, Len(req.items) - Len(todo))'
    BY <1>1, <2>1, <2>4
  <2>6. QED
    BY <1>1, <1>4, <1>5, <2>1, <2>3, <2>5 DEF BulkInv, BatchLabels
<1>6. CASE append_observations_instant
  <2>1. /\ pc' = NextItem(Tail(todo), "observe") /\ todo' = Tail(todo)
        /\ Larger(work, work') /\ Head(todo).id \in DOMAIN work'.features
        /\ Head(todo).traj[1] \subseteq InstantsIn(work', Head(todo).id)
    BY <1>1, <1>6, InstantAppended DEF Known
  <2>2. PICK done : done = Len(req.items) - Len(todo)
    OBVIOUS
  <2>3. /\ done + 1 \in 1..Len(req.items) /\ Head(todo) = req.items[done + 1]
        /\ Len(req.items) - Len(Tail(todo)) = done + 1
        /\ Suffix(Tail(todo), req.items) /\ Tail(todo) \in Seq(Items)
    BY <1>2, <1>4, <1>6, <2>2, SuffixHead
  <2>4. pc' \in {"observe", "finish"} /\ (pc' = "finish" => Len(todo') = 0)
    BY <2>1, <2>3, NextItemType, LastItem
  <2>5. Observed(req.items, work', done)
    BY <1>4, <1>6, <2>1, <2>2, StillObserved
  <2>6. Observed(req.items, work', done + 1)
    <3>1. done \in Int
      BY <1>2, <2>2
    <3>2. \A n \in 1..done + 1 : n \in 1..done \/ n = done + 1
      BY <3>1
    <3>3. QED
      BY <2>1, <2>3, <2>5, <3>2 DEF Observed
  <2>7. Observed(req.items, work, Len(req.items) - Len(todo))'
    BY <1>1, <2>1, <2>3, <2>6
  <2>8. Larger(disk, work)'
    BY <1>1, <1>4, <1>6, <2>1, LargerChain
  <2>9. QED
    BY <1>1, <2>1, <2>3, <2>4, <2>7, <2>8 DEF BulkInv, BatchLabels
<1>7. QED
  BY <1>3, <1>5, <1>6, OwnStatements DEF Works, Known

\* So does every step.
LEMMA BulkStep == Known /\ Filled(work) /\ BulkInv /\ [Next]_vars => BulkInv'
<1> SUFFICES ASSUME Known, Filled(work), BulkInv, [Next]_vars,
                    req' # NoRequest, req'.op = "post_bulk"
             PROVE  BulkInv'
  BY DEF BulkInv
<1>1. Course
  BY EveryStep DEF Known
<1>2. ASSUME Kept
      PROVE  req # NoRequest /\ req.op = "post_bulk" /\ UNCHANGED <<req, before>>
  BY <1>2 DEF Kept
<1>3. CASE Leave
  BY <1>3 DEF Leave
<1>4. CASE Arrives
  BY <1>4 DEF Arrives, BulkInv, BatchLabels
<1>5. CASE Refuses
  BY <1>5 DEF Refuses, BulkInv, BatchLabels
<1>6. CASE Shows
  BY <1>2, <1>6 DEF Shows, Reads, BareReads, SilentReads, GuardedReads
<1>7. CASE Waits
  <2>1. CASE UNCHANGED <<disk, work, tx>>
    <3>1. UNCHANGED <<pc, todo, req>>
      BY <1>7 DEF Waits, Kept
    <3>2. Larger(disk, work) => Larger(disk, work)'
      BY <2>1
    <3>3. Observed(req.items, work, Len(req.items) - Len(todo)) =>
            Observed(req.items, work, Len(req.items) - Len(todo))'
      BY <2>1, <3>1
    <3>4. QED
      BY <1>2, <1>7, <2>1, <3>1, <3>2, <3>3 DEF BulkInv
  <2>2. CASE tx' = "closed"
    BY <1>2, <1>7, <2>2 DEF Waits, Kept, BulkInv
  <2>3. QED
    BY <1>7, <2>1, <2>2 DEF Waits
<1>8. CASE Works
  BY <1>2, <1>8, BulkWorks DEF Works
<1>9. CASE pc # "idle" /\ Commit
  <2>1. Kept /\ pc \in DOMAIN AfterCommit /\ pc' = AfterCommit[pc]
    BY <1>9 DEF Commit, request, Kept
  <2>2. pc = "finish"
    BY <1>2, <2>1, LabelsType DEF BulkInv, BatchLabels
  <2>3. pc' = "respond"
    BY <2>1, <2>2 DEF AfterCommit
  <2>4. QED
    BY <1>2, <2>1, <2>3 DEF BulkInv, BatchLabels
<1>10. QED
  BY <1>1, <1>3, <1>4, <1>5, <1>6, <1>7, <1>8, <1>9 DEF Course

\* What the statements start from always holds, and so does BulkInv.
LEMMA BulkAlways == Spec => [](Known /\ BulkInv)
<1>1. Init => BulkInv
  BY DEF Init, BulkInv
<1>2. Spec => []Known
  BY TypeInvariant, TablesAlways, PendingAlways, TraceAlways, EntryAlways, PTL DEF Known
<1>3. QED
  BY <1>1, <1>2, BulkStep, FilledAlways, PTL DEF Spec

\* When all its observations are there, the batch is applied.
LEMMA BatchIsApplied ==
  ASSUME NEW items \in Seq(Items), NEW old, NEW new, Larger(old, new),
         Observed(items, new, Len(items))
  PROVE  BatchApplied(items, old, new)
<1>1. DOMAIN items = 1..Len(items)
  OBVIOUS
<1>2. QED
  BY <1>1 DEF BatchApplied, Observed, Larger

\* "The whole batch commits atomically": a commit made while a batch is served
\* contains all of it.  Ctrl-C is the exception: the main block then commits
\* what the transaction holds.
THEOREM BatchesAreAtomic == ASSUME "interrupt" \notin Faults PROVE Spec => BulkIsAtomic
<1>1. ASSUME Known, BulkInv, [Next]_vars, req # NoRequest, req.op = "post_bulk", disk' # disk
      PROVE  BatchApplied(req.items, disk, disk')
  <2>1. disk' = work /\ pc \in DOMAIN AfterCommit
    BY <1>1, StepEffect DEF Known, TablesInv, Effect, Settles, Executes
  <2>2. tx = "ok"
    BY <1>1, <2>1 DEF Known, PendingInv
  <2>3. pc = "finish"
    BY <1>1, <2>1, LabelsType DEF BulkInv, BatchLabels
  <2>4. /\ Larger(disk, work) /\ Len(todo) = 0
        /\ Observed(req.items, work, Len(req.items) - Len(todo))
    BY <1>1, <2>2, <2>3 DEF BulkInv
  <2>5. req.items \in Seq(Items)
    BY <1>1, <2>3, RequestType DEF Known, TypeInv, Request
  <2>6. Len(req.items) - Len(todo) = Len(req.items)
    BY <2>4, <2>5
  <2>7. QED
    BY <2>1, <2>4, <2>5, <2>6, BatchIsApplied
<1>2. Known /\ BulkInv /\ [Next]_vars =>
        (req # NoRequest /\ req.op = "post_bulk" /\ disk' # disk
           => BatchApplied(req.items, disk, disk'))
  BY <1>1
<1>3. QED
  BY <1>2, BulkAlways, PTL DEF Spec, BulkIsAtomic

\* A batch that was accepted is in the database.
LEMMA BulkEffect ==
  ASSUME Known, Filled(work), BulkInv, Works, pc' = "finish", req.op = "post_bulk"
  PROVE  TookEffect(req, before.db, work', made', serial')
<1>1. /\ UNCHANGED <<disk, req, before>> /\ tx' = "ok" /\ pc # "idle"
      /\ pc \in BatchLabels \cup {"check"}
  BY OwnStatements DEF Works, Kept, Executing, Known, post_bulk, At, BatchLabels,
     append_observations_row, append_observations_instant
<1>2. /\ req # NoRequest /\ IsDatabase(disk) /\ IsDatabase(before.db)
      /\ req.items \in Seq(Items)
  BY <1>1, RequestType DEF Known, TypeInv, TypeOK, Request
<1>3. BulkInv'
  BY BulkWorks
<1>4. /\ Larger(disk, work') /\ Len(todo') = 0
      /\ Observed(req.items, work', Len(req.items) - Len(todo'))
  BY <1>1, <1>2, <1>3 DEF BulkInv
<1>5. Len(req.items) - Len(todo') = Len(req.items)
  BY <1>2, <1>4
<1>6. BatchApplied(req.items, disk, work')
  BY <1>2, <1>4, <1>5, BatchIsApplied
<1>7. Rows(disk) = Rows(before.db)
  BY <1>1 DEF Known, TraceInv, CommitInTheMiddle, Unchanged, BatchLabels
<1>8. disk.geometries = before.db.geometries
  BY <1>2, <1>7, SameRows
<1>9. BatchApplied(req.items, before.db, work')
  BY <1>1, <1>6, <1>8 DEF BatchApplied
<1>10. QED
  BY <1>9, EffectOf

-----------------------------------------------------------------------------
(* A POST of features.                                                     *)

\* The first done items are posted: those whose id was free are of the
\* collection and have the trajectory of the first item of that id, and the
\* features that were there are as they were.  A feature that was made has the
\* id of one of these items, or one that the body does not name.
PostedUpTo(db, ids, done) ==
  /\ \A f \in ids : db.features[f].cid = req.cid
  /\ \A f \in DOMAIN before.db.features : db.features[f] = before.db.features[f]
  /\ \A n \in 1..done : LET item == req.items[n] IN
       /\ item.id \in DOMAIN db.features \cup {NoId}
       /\ item.id \in ids /\ (\A m \in 1..n-1 : req.items[m].id # item.id)
            => TrajectoriesOf(db, item.id) = Posted(item)
  /\ \A f \in ids : f \notin GivenIds(req) \/ \E m \in 1..done : req.items[m].id = f

\* The next item has the id, or none, and then the id is one it could draw.
Names(item, id) == item.id = id \/ (item.id = NoId /\ id \notin GivenIds(req))

\* The row of the next item is in, its geometry is not.
HalfPosted(n) ==
  LET id == Head(todo).id IN
  /\ n \in 1..Len(req.items) /\ Suffix(Tail(todo), req.items)
  /\ Names(req.items[n], id) /\ id \notin made
  /\ Head(todo).kind = req.items[n].kind /\ Head(todo).traj = req.items[n].traj
  /\ \A m \in 1..n-1 : req.items[m].id # id
  /\ GeometriesOf(work, id) = {} /\ id \in DOMAIN work.features
  /\ work.features[id].cid = req.cid

PostedInv ==
  req # NoRequest /\ req.op = "post_collection_items" /\ tx = "ok" =>
    /\ pc \in {"feature", "features", "insert feature", "finish"} =>
         /\ Suffix(todo, req.items)
         /\ PostedUpTo(work, made, Len(req.items) - Len(todo))
    /\ pc = "insert geometry" =>
         LET n == Len(req.items) - Len(Tail(todo))
         IN  PostedUpTo(work, made, n - 1) /\ HalfPosted(n)
    /\ pc = "finish" => Len(todo) = 0

\* A feature that is made posts its item.
LEMMA FeaturePosted ==
  ASSUME NEW db, NEW ids \in SUBSET FeatureIds, NEW n \in 1..Len(req.items), NEW id \in FeatureIds,
         req.items \in Seq(Items), PostedUpTo(db, ids, n - 1), Names(req.items[n], id),
         \A m \in 1..n-1 : req.items[m].id # id,
         NEW new, DOMAIN db.features \cup {id} \subseteq DOMAIN new.features,
         \A f \in ids \cup {id} : new.features[f].cid = req.cid,
         \A f \in DOMAIN before.db.features : new.features[f] = before.db.features[f],
         \A f : f # id => TrajectoriesOf(new, f) = TrajectoriesOf(db, f),
         TrajectoriesOf(new, id) = Posted(req.items[n])
  PROVE  PostedUpTo(new, ids \cup {id}, n)
<1>1. NoId \notin FeatureIds /\ Len(req.items) \in Nat /\ n \in Nat \ {0}
  <2>1. NoId \notin FeatureIds
    BY RequestsAssumption
  <2>2. QED
    BY <2>1
<1>2. \A m \in 1..n : m \in 1..n-1 \/ m = n
  BY <1>1
<1>3. n \in 1..n /\ \A m \in 1..n-1 : m \in 1..n
  BY <1>1
<1>4. ASSUME NEW m \in 1..n
      PROVE  /\ req.items[m].id \in DOMAIN new.features \cup {NoId}
             /\ /\ req.items[m].id \in ids \cup {id}
                /\ \A k \in 1..m-1 : req.items[k].id # req.items[m].id
                => TrajectoriesOf(new, req.items[m].id) = Posted(req.items[m])
  <2>1. CASE m \in 1..n-1
    <3>1. PICK f : f = req.items[m].id
      OBVIOUS
    <3>2. /\ f \in DOMAIN db.features \cup {NoId} /\ f # id
          /\ f \in ids /\ (\A k \in 1..m-1 : req.items[k].id # f)
               => TrajectoriesOf(db, f) = Posted(req.items[m])
      BY <2>1, <3>1 DEF PostedUpTo
    <3>3. TrajectoriesOf(new, f) = TrajectoriesOf(db, f)
      BY <3>2
    <3>4. QED
      BY <3>1, <3>2, <3>3
  <2>2. CASE m = n
    <3>1. CASE req.items[n].id = id
      BY <2>2, <3>1
    <3>2. CASE req.items[n].id = NoId
      BY <1>1, <2>2, <3>2
    <3>3. QED
      BY <3>1, <3>2 DEF Names
  <2>3. QED
    BY <1>2, <2>1, <2>2
<1>5. ASSUME NEW f \in ids \cup {id}
      PROVE  f \notin GivenIds(req) \/ \E m \in 1..n : req.items[m].id = f
  <2>1. CASE f \in ids
    BY <1>3, <2>1 DEF PostedUpTo
  <2>2. CASE f = id
    BY <1>3, <2>2 DEF Names
  <2>3. QED
    BY <2>1, <2>2
<1>6. QED
  BY <1>4, <1>5 DEF PostedUpTo

\* An item whose id was taken is passed over.
LEMMA FeaturePassedOver ==
  ASSUME NEW db, NEW ids, NEW n \in 1..Len(req.items), req.items \in Seq(Items),
         PostedUpTo(db, ids, n - 1), req.items[n].id \in DOMAIN db.features
  PROVE  PostedUpTo(db, ids, n)
<1>1. Len(req.items) \in Nat /\ n \in Nat \ {0} /\ DOMAIN req.items = 1..Len(req.items)
  OBVIOUS
<1>2. \A m \in 1..n : m \in 1..n-1 \/ m = n
  BY <1>1
<1>3. n \in 1..n /\ \A m \in 1..n-1 : m \in 1..n
  BY <1>1
<1>4. req.items[n].id \in GivenIds(req)
  BY <1>1 DEF GivenIds
<1>5. req.items[n].id \in ids => \E m \in 1..n-1 : req.items[m].id = req.items[n].id
  BY <1>4 DEF PostedUpTo
<1>6. ASSUME NEW m \in 1..n
      PROVE  /\ req.items[m].id \in DOMAIN db.features \cup {NoId}
             /\ /\ req.items[m].id \in ids
                /\ \A k \in 1..m-1 : req.items[k].id # req.items[m].id
                => TrajectoriesOf(db, req.items[m].id) = Posted(req.items[m])
  <2>1. CASE m \in 1..n-1
    BY <2>1 DEF PostedUpTo
  <2>2. CASE m = n
    BY <1>5, <2>2
  <2>3. QED
    BY <1>2, <2>1, <2>2
<1>7. \A f \in ids : f \notin GivenIds(req) \/ \E m \in 1..n : req.items[m].id = f
  BY <1>3 DEF PostedUpTo
<1>8. QED
  BY <1>6, <1>7 DEF PostedUpTo

\* What a statement of the loop starts from.
LEMMA PostedStart ==
  ASSUME Known, PrefixInv, PostedInv, req # NoRequest, tx = "ok",
         req.op = "post_collection_items", pc \in {"insert feature", "insert geometry"}
  PROVE  /\ IsDatabase(work) /\ req.items \in Seq(Items) /\ made \in SUBSET FeatureIds
         /\ todo \in Seq(Items) /\ todo # <<>> /\ Head(todo) \in Items
         /\ HasCollection(work, req.cid) /\ ReferencesHold(work)
         /\ made \cap DOMAIN before.db.features = {}
         /\ pc = "insert feature" =>
              /\ Grown(work, made) /\ Suffix(todo, req.items)
              /\ PostedUpTo(work, made, Len(req.items) - Len(todo))
<1>1. pc # "idle" /\ pc \in FeatureLabels
  BY DEF FeatureLabels
<1>2. /\ IsDatabase(work) /\ made \subseteq FeatureIds /\ todo \in Seq(Items) /\ todo # <<>>
      /\ req \in Request
  BY <1>1, RequestType DEF Known, TypeInv, TypeOK, Control
<1>3. req.items \in Seq(Items) /\ Head(todo) \in Items
  BY <1>2, HeadTailType DEF Request
<1>4. HasCollection(work, req.cid) /\ ReferencesHold(work)
  BY <1>1 DEF Known, TablesInv, Located, Checked
<1>5. QED
  BY <1>2, <1>3, <1>4 DEF PrefixInv, PostedInv

\* The step that inserts the row of a feature.
LEMMA PostedRow ==
  ASSUME Known, PrefixInv, PostedInv, Works, req.op = "post_collection_items",
         insert_feature_row
  PROVE  PostedInv'
<1>1. /\ UNCHANGED <<req, before>> /\ tx = "ok" /\ req # NoRequest /\ pc' # "except"
      /\ pc = "insert feature"
  BY RequestType DEF Works, Kept, Executing, Outcomes, insert_feature_row, Known, TypeInv
<1>2. /\ IsDatabase(work) /\ req.items \in Seq(Items) /\ made \in SUBSET FeatureIds
      /\ todo \in Seq(Items) /\ todo # <<>> /\ Head(todo) \in Items
      /\ ReferencesHold(work) /\ made \cap DOMAIN before.db.features = {}
      /\ Grown(work, made) /\ Suffix(todo, req.items)
      /\ PostedUpTo(work, made, Len(req.items) - Len(todo))
  BY <1>1, PostedStart
<1>3. PICK n : n = Len(req.items) - Len(todo) + 1
  OBVIOUS
<1>4. /\ n \in 1..Len(req.items) /\ Head(todo) = req.items[n]
      /\ Len(req.items) - Len(Tail(todo)) = n
      /\ Suffix(Tail(todo), req.items) /\ Tail(todo) \in Seq(Items)
  BY <1>2, <1>3, SuffixHead
<1>5. PostedUpTo(work, made, n - 1)
  <2>1. Len(req.items) - Len(todo) = n - 1
    BY <1>2, <1>3
  <2>2. QED
    BY <1>2, <2>1
<1>6. PICK id \in FeatureIds : RowDone(id) /\ (GeometryNext(id) \/ RowIsAll(id))
  BY <1>1, InsertedRow DEF Known
<1>7. Names(req.items[n], id)
  BY <1>4, <1>6 DEF RowDone, Keys, Names
<1> DEFINE Onwards == /\ pc' \in {"feature", "finish"} /\ pc' = NextItem(Tail(todo), "feature")
                      /\ todo' = Tail(todo) /\ PostedUpTo(work', made', n)
<1>8. ASSUME Onwards PROVE PostedInv'
  <2>1. pc' = "finish" => Len(todo') = 0
    BY <1>4, <1>8, LastItem
  <2>2. Len(req'.items) - Len(todo') = n
    BY <1>1, <1>4, <1>8
  <2>3. PostedUpTo(work, made, Len(req.items) - Len(todo))'
    <3>1. PostedUpTo(work, made, n)'
      BY <1>1, <1>8 DEF PostedUpTo
    <3>2. QED
      BY <2>2, <3>1
  <2>4. Suffix(todo, req.items)'
    BY <1>1, <1>4, <1>8 DEF Suffix
  <2>5. QED
    BY <1>8, <2>1, <2>3, <2>4 DEF PostedInv
<1> HIDE DEF Onwards
<1>9. CASE id \in DOMAIN work.features
  <2>1. RowIsAll(id) /\ work' = work /\ made' = made
    BY <1>6, <1>9 DEF RowDone, GeometryNext, RowIsAll
  <2>2. id \notin FeatureIds \ (DOMAIN work.features \cup GivenIds(req))
    BY <1>9
  <2>3. req.items[n].id = id
    BY <1>4, <1>6, <2>2 DEF RowDone, Keys
  <2>4. PostedUpTo(work, made, n)
    BY <1>2, <1>4, <1>5, <1>9, <2>3, FeaturePassedOver
  <2>5. Onwards
    BY <2>1, <2>4 DEF RowIsAll, Onwards
  <2>6. QED
    BY <1>8, <2>5
<1>10. CASE id \notin DOMAIN work.features
  <2>1. FeatureInserted(work, work', id, req.cid)
    BY <1>6, <1>10 DEF RowDone
  <2>2. /\ GeometriesOf(work', id) = {} /\ work'.geometries = work.geometries
        /\ id \in DOMAIN work'.features /\ work'.features[id].cid = req.cid
        /\ DOMAIN work'.features = DOMAIN work.features \cup {id}
    <3>1. work'.geometries = work.geometries
      BY <2>1 DEF FeatureInserted, FewTables
    <3>2. GeometriesOf(work', id) = {}
      BY <1>2, <1>10, <3>1 DEF GeometriesOf, ReferencesHold
    <3>3. QED
      BY <2>1, <3>1, <3>2 DEF FeatureInserted
  <2>3. \A m \in 1..n-1 : req.items[m].id # id
    <3>1. id # NoId
      BY RequestsAssumption
    <3>2. QED
      BY <1>5, <1>10, <3>1 DEF PostedUpTo
  <2>4. \A e \in DOMAIN work.features : work'.features[e] = work.features[e]
    BY <1>10, <2>1 DEF FeatureInserted
  <2>5. /\ \A f \in made \cup {id} : work'.features[f].cid = req.cid
        /\ \A f \in DOMAIN before.db.features : work'.features[f] = before.db.features[f]
    BY <1>2, <1>5, <2>2, <2>4 DEF PostedUpTo, Grown
  <2>6. \A f : TrajectoriesOf(work', f) = TrajectoriesOf(work, f)
    BY <2>2 DEF TrajectoriesOf, GeometriesOf
  <2>7. CASE RowIsAll(id)
    <3>1. /\ req.items[n].kind = "empty temporalGeometry" /\ made' = made \cup {id}
          /\ todo' = Tail(todo) /\ pc' \in {"feature", "finish"}
          /\ pc' = NextItem(Tail(todo), "feature")
      BY <1>4, <1>10, <2>7 DEF RowIsAll
    <3>2. TrajectoriesOf(work', id) = Posted(req.items[n])
      BY <2>2, <3>1 DEF TrajectoriesOf, Posted
    <3>3. PostedUpTo(work', made \cup {id}, n)
      BY <1>2, <1>4, <1>5, <1>7, <2>2, <2>3, <2>5, <2>6, <3>2, FeaturePosted
    <3>4. QED
      BY <1>8, <3>1, <3>3 DEF Onwards
  <2>8. CASE GeometryNext(id)
    <3>1. /\ pc' = "insert geometry" /\ made' = made /\ Tail(todo') = Tail(todo)
          /\ Head(todo') = [Head(todo) EXCEPT !.id = id]
      BY <2>8 DEF GeometryNext
    <3>2. Head(todo').id = id /\ Head(todo').kind = Head(todo).kind
          /\ Head(todo').traj = Head(todo).traj
      BY <1>2, <3>1 DEF Items
    <3>3. id \notin made
      BY <1>2, <1>10 DEF Grown
    <3>4. HalfPosted(n)'
      BY <1>1, <1>4, <1>7, <2>2, <2>3, <3>1, <3>2, <3>3
      DEF HalfPosted, Names, GivenIds, GeometriesOf, Suffix
    <3>5. PostedUpTo(work', made, n - 1)
      BY <1>2, <1>5, <2>2, <2>5, <2>6 DEF PostedUpTo
    <3>6. PostedUpTo(work, made, n - 1)'
      BY <1>1, <3>1, <3>5 DEF PostedUpTo
    <3>7. (Len(req.items) - Len(Tail(todo)))' = n
      BY <1>1, <1>4, <3>1
    <3>8. QED
      BY <3>1, <3>4, <3>6, <3>7 DEF PostedInv
  <2>9. QED
    BY <1>6, <2>7, <2>8
<1>11. QED
  BY <1>9, <1>10

\* The step that inserts its geometry.
LEMMA PostedGeometry ==
  ASSUME Known, PrefixInv, PostedInv, Works, req.op = "post_collection_items",
         insert_feature_geometry
  PROVE  PostedInv'
<1>1. /\ UNCHANGED <<req, before>> /\ tx = "ok" /\ req # NoRequest /\ pc' # "except"
      /\ pc = "insert geometry"
  BY RequestType DEF Works, Kept, Executing, Outcomes, insert_feature_geometry, Known, TypeInv
<1>2. /\ IsDatabase(work) /\ req.items \in Seq(Items) /\ made \in SUBSET FeatureIds
      /\ todo \in Seq(Items) /\ todo # <<>> /\ Head(todo) \in Items
  BY <1>1, PostedStart
<1>3. PICK n : n = Len(req.items) - Len(Tail(todo))
  OBVIOUS
<1>4. PICK id : id = Head(todo).id
  OBVIOUS
<1>5. PICK traj : traj = Head(todo).traj
  OBVIOUS
<1>6. PICK key : key = serial + 1
  OBVIOUS
<1>7. /\ Head(todo).kind = "ok" /\ id \in FeatureIds /\ key \notin DOMAIN work.geometries
      /\ GeometryInserted(work, work', key, id, req.cid, traj, TRUE)
      /\ pc' = NextItem(Tail(todo), "feature") /\ pc' \in {"feature", "finish"}
      /\ todo' = Tail(todo) /\ made' = made \cup {id}
  BY <1>1, <1>4, <1>5, <1>6, InsertedGeometry DEF Known
<1>8. PostedUpTo(work, made, n - 1) /\ HalfPosted(n)
  BY <1>1, <1>3 DEF PostedInv
<1>9. /\ n \in 1..Len(req.items) /\ Suffix(Tail(todo), req.items)
      /\ Names(req.items[n], id) /\ id \notin made
      /\ req.items[n].kind = "ok" /\ req.items[n].traj = traj
      /\ \A m \in 1..n-1 : req.items[m].id # id
      /\ GeometriesOf(work, id) = {} /\ id \in DOMAIN work.features
      /\ work.features[id].cid = req.cid
  BY <1>4, <1>5, <1>7, <1>8 DEF HalfPosted
<1>10. /\ id \notin DOMAIN before.db.features
       /\ DOMAIN work.features = DOMAIN before.db.features \cup (made \cup {id})
  BY <1>1, <1>4 DEF PrefixInv, Grown
<1>11. /\ DOMAIN work'.features = DOMAIN work.features
       /\ \A e \in DOMAIN work.features : e # id => work'.features[e] = work.features[e]
       /\ \A e \in DOMAIN work.features : work'.features[e].cid = work.features[e].cid
  <2>1. \A e \in DOMAIN work.features : work.features[e] \in FeatureRow
    BY <1>2 DEF IsDatabase, IsTable
  <2>2. ASSUME NEW e \in DOMAIN work.features
        PROVE  [work.features[e] EXCEPT !.extent = ExtentOf(work', e)].cid = work.features[e].cid
    BY <2>1 DEF FeatureRow
  <2>3. QED
    BY <1>7, <2>2 DEF GeometryInserted
<1>12. /\ \A f \in made \cup {id} : work'.features[f].cid = req.cid
       /\ \A f \in DOMAIN before.db.features : work'.features[f] = before.db.features[f]
  BY <1>8, <1>9, <1>10, <1>11 DEF PostedUpTo
<1>13. /\ key \in DOMAIN work'.geometries /\ work'.geometries[key].traj = traj
       /\ work'.geometries[key].fid = id
       /\ \A g \in DOMAIN work.geometries :
            g # key /\ g \in DOMAIN work'.geometries /\ work'.geometries[g] = work.geometries[g]
       /\ \A g \in DOMAIN work'.geometries : g = key \/ g \in DOMAIN work.geometries
  BY <1>7 DEF GeometryInserted
<1>14. \A f : f # id => TrajectoriesOf(work', f) = TrajectoriesOf(work, f)
  <2>1. ASSUME NEW f, f # id PROVE GeometriesOf(work', f) = GeometriesOf(work, f)
    BY <1>13, <2>1 DEF GeometriesOf
  <2>2. ASSUME NEW f, f # id PROVE TrajectoriesOf(work', f) = TrajectoriesOf(work, f)
    BY <1>13, <2>1, <2>2 DEF TrajectoriesOf, GeometriesOf
  <2>3. QED
    BY <2>2
<1>15. TrajectoriesOf(work', id) = Posted(req.items[n])
  <2>1. GeometriesOf(work', id) = {key}
    BY <1>9, <1>13 DEF GeometriesOf
  <2>2. TrajectoriesOf(work', id) = {traj}
    BY <1>13, <2>1 DEF TrajectoriesOf
  <2>3. QED
    BY <1>9, <2>2 DEF Posted
<1>16. PostedUpTo(work', made \cup {id}, n)
  BY <1>2, <1>7, <1>8, <1>9, <1>11, <1>12, <1>14, <1>15, FeaturePosted
<1>17. PostedUpTo(work, made, n)'
  BY <1>1, <1>7, <1>16 DEF PostedUpTo
<1>18. (Len(req.items) - Len(todo))' = n
  BY <1>1, <1>3, <1>7
<1>19. pc' = "finish" => Len(todo') = 0
  <2>1. Tail(todo) \in Seq(Items)
    BY <1>2, HeadTailType
  <2>2. QED
    BY <1>7, <2>1, LastItem
<1>20. Suffix(todo, req.items)'
  BY <1>1, <1>7, <1>9 DEF Suffix
<1>21. PostedUpTo(work, made, Len(req.items) - Len(todo))'
  BY <1>17, <1>18
<1>22. QED
  BY <1>7, <1>19, <1>20, <1>21 DEF PostedInv

\* The statements of the POST keep PostedInv.
LEMMA PostedWorks ==
  ASSUME Known, PrefixInv, PostedInv, Works, req.op = "post_collection_items"
  PROVE  PostedInv'
<1>1. /\ UNCHANGED <<req, before>> /\ tx = "ok" /\ pc # "idle" /\ pc' # "except"
  BY DEF Works, Kept, Executing, Outcomes
<1>2. req # NoRequest /\ IsDatabase(work) /\ req.items \in Seq(Items)
  BY <1>1, RequestType DEF Known, TypeInv, TypeOK, Request
<1>3. CASE post_collection_items
  <2>1. /\ pc = "check" /\ pc' = NextItem(req.items, "feature") /\ todo' = req.items
        /\ made' = {} /\ UNCHANGED work
    BY <1>1, <1>3 DEF post_collection_items, At, Raise, store
  <2>2. work' = before.db
    BY <2>1, FreshStart
  <2>3. pc' \in {"feature", "finish"} /\ (pc' = "finish" => Len(todo') = 0)
    BY <1>2, <2>1, NextItemType, LastItem
  <2>4. Suffix(req.items, req.items)
    BY <1>2 DEF Suffix
  <2>5. PostedUpTo(work, made, 0)'
    BY <1>1, <2>1, <2>2 DEF PostedUpTo
  <2>6. (Len(req.items) - Len(todo))' = 0
    BY <1>1, <1>2, <2>1
  <2>7. PostedUpTo(work, made, Len(req.items) - Len(todo))'
    BY <2>5, <2>6
  <2>8. QED
    BY <1>1, <2>1, <2>3, <2>4, <2>7 DEF PostedInv
<1>4. CASE insert_feature_tables
  <2>1. /\ pc = "feature" /\ pc' = "features" /\ UNCHANGED <<todo, made>>
        /\ work' = CreateTables(work, {"core", "features"})
    BY <1>1, <1>4 DEF insert_feature_tables, Raise, Execute, loop
  <2>2. work'.features = work.features /\ work'.geometries = work.geometries
    BY <1>2, <2>1, CreateTablesFields DEF TablesCreated, FewTables
  <2>3. Suffix(todo, req.items) /\ PostedUpTo(work, made, Len(req.items) - Len(todo))
    BY <1>1, <1>2, <2>1 DEF PostedInv
  <2>4. \A f : TrajectoriesOf(work', f) = TrajectoriesOf(work, f)
    BY <2>2 DEF TrajectoriesOf, GeometriesOf
  <2>5. PostedUpTo(work, made, Len(req.items) - Len(todo))'
    BY <1>1, <2>1, <2>2, <2>3, <2>4 DEF PostedUpTo
  <2>6. QED
    BY <1>1, <2>1, <2>3, <2>5 DEF PostedInv
<1>5. QED
  BY <1>3, <1>4, PostedRow, PostedGeometry, OwnStatements DEF Works, Known

\* What is posted depends on the request, the loop and the transaction only.
LEMMA SamePosted ==
  ASSUME UNCHANGED <<req, before, work, todo, made>>
  PROVE  /\ PostedUpTo(work, made, Len(req.items) - Len(todo)) =>
              PostedUpTo(work, made, Len(req.items) - Len(todo))'
         /\ LET n == Len(req.items) - Len(Tail(todo))
            IN  PostedUpTo(work, made, n - 1) /\ HalfPosted(n) =>
                  (PostedUpTo(work, made, n - 1) /\ HalfPosted(n))'
<1>1. \A n : PostedUpTo(work, made, n) => PostedUpTo(work, made, n)'
  BY DEF PostedUpTo
<1>2. \A n : HalfPosted(n) => HalfPosted(n)'
  BY DEF HalfPosted, Names
<1>3. /\ (Len(req.items) - Len(todo))' = Len(req.items) - Len(todo)
      /\ (Len(req.items) - Len(Tail(todo)))' = Len(req.items) - Len(Tail(todo))
  OBVIOUS
<1>4. QED
  BY <1>1, <1>2, <1>3

\* So does every step.
LEMMA PostedStep ==
  Known /\ PrefixInv /\ PostedInv /\ [Next]_vars => PostedInv'
<1> SUFFICES ASSUME Known, PrefixInv, PostedInv, [Next]_vars,
                    req' # NoRequest, req'.op = "post_collection_items", tx' = "ok",
                    pc' \in FeatureLabels \cup {"finish"}
             PROVE  PostedInv'
  BY DEF PostedInv, FeatureLabels
<1>1. Course
  BY EveryStep DEF Known
<1>2. CASE Leave \/ Arrives \/ Refuses \/ Shows
  BY <1>2 DEF Leave, Arrives, Refuses, Shows, FeatureLabels
<1>3. CASE Waits
  <2>1. UNCHANGED <<pc, todo, made, req, before, work, tx>>
    BY <1>3 DEF Waits, Kept
  <2>2. QED
    BY <2>1, SamePosted DEF PostedInv
<1>4. CASE Works
  BY <1>4, PostedWorks DEF Works, Kept
<1>5. CASE pc # "idle" /\ Commit
  <2>1. /\ UNCHANGED <<req, before, work, tx, todo, made>> /\ pc \in DOMAIN AfterCommit
        /\ pc' = AfterCommit[pc]
    BY <1>5 DEF Commit, request, loop
  <2>2. pc = "features" /\ pc' = "insert feature"
    <3>1. /\ AfterCommit["tables"] = "insert collection" /\ AfterCommit["finish"] = "respond"
          /\ AfterCommit["features"] = "insert feature" /\ AfterCommit["property"] = "insert values"
      BY DEF AfterCommit
    <3>2. QED
      BY <2>1, <3>1, LabelsType DEF FeatureLabels
  <2>3. Suffix(todo, req.items) /\ PostedUpTo(work, made, Len(req.items) - Len(todo))
    BY <2>1, <2>2 DEF PostedInv
  <2>4. PostedUpTo(work, made, Len(req.items) - Len(todo))'
    BY <2>1, <2>3, SamePosted
  <2>5. QED
    BY <2>1, <2>2, <2>3, <2>4 DEF PostedInv
<1>6. QED
  BY <1>1, <1>2, <1>3, <1>4, <1>5 DEF Course

\* When nothing is left, the features are posted.
LEMMA PostEffect ==
  ASSUME Known, PrefixInv, PostedInv, Works, pc' = "finish", req.op = "post_collection_items"
  PROVE  TookEffect(req, before.db, work', made', serial')
<1>1. /\ UNCHANGED <<req, before>> /\ tx' = "ok" /\ pc # "idle"
  BY DEF Works, Kept, Executing
<1>2. req # NoRequest /\ req.items \in Seq(Items)
  BY <1>1, RequestType DEF Known, TypeInv, TypeOK, Request
<1>3. PostedInv' /\ PrefixInv'
  BY PostedWorks, PrefixWorks DEF Known, PendingInv, NothingPending, Uncommitted
<1>4. /\ PostedUpTo(work, made, Len(req.items) - Len(todo))' /\ Len(todo') = 0
      /\ DOMAIN work'.features = DOMAIN before.db.features \cup made'
  BY <1>1, <1>2, <1>3 DEF PostedInv, PrefixInv, Grown
<1>5. DOMAIN req.items = 1..Len(req.items) - Len(todo')
  BY <1>2, <1>4
<1>6. FeaturesArePosted(req, before.db, work', made')
  <2>1. (Len(req.items) - Len(todo))' = Len(req.items) - Len(todo')
    BY <1>1
  <2>2. QED
    BY <1>1, <1>4, <1>5, <2>1 DEF FeaturesArePosted, PostedUpTo
<1>7. QED
  BY <1>6, EffectOf

-----------------------------------------------------------------------------
(* All handlers.                                                           *)

\* What the loops and the handlers that commit in their middle keep.
Progress ==
  /\ Known /\ Filled(work) /\ BulkInv /\ PrefixInv /\ PostedInv
  /\ ReplaceInv /\ ReplacingInv /\ PropertyInv /\ PropertyNamesUnique

\* It always holds.
LEMMA ProgressAlways == Spec => []Progress
<1>1. Init => PostedInv /\ ReplaceInv /\ ReplacingInv
  BY DEF Init, PostedInv, ReplaceInv, ReplacingInv
<1>2. Known => TypeInv /\ NothingPending /\ EntryInv
  BY DEF Known, PendingInv, NothingPending, Uncommitted
<1>3. Spec => []PostedInv
  BY <1>1, BulkAlways, PrefixAlways, PostedStep, PTL DEF Spec
<1>4. Spec => []ReplaceInv
  BY <1>1, <1>2, BulkAlways, ReplaceStep, PTL DEF Spec
<1>5. Spec => []ReplacingInv
  BY <1>1, <1>4, BulkAlways, ReplacingStep, PTL DEF Spec
<1>6. Spec => []Filled(work)
  BY FilledAlways, PTL
<1>7. QED
  BY <1>3, <1>4, <1>5, <1>6, BulkAlways, PrefixAlways, PropertyAlways, NamesStayUnique, PTL
  DEF Progress

\* A success holds in the transaction that is about to commit, and then in what
\* was committed.
AcceptInv ==
  req # NoRequest =>
    /\ pc = "finish" /\ tx = "ok" /\ code < 400 => TookEffect(req, before.db, work, made, serial)
    /\ pc = "respond" /\ code < 400 => TookEffect(req, before.db, disk, made, serial)

\* The last statement of every handler completes its effect.
LEMMA LastStatement ==
  ASSUME Progress, Works, pc' = "finish", code' < 400, req.op \in Writes
  PROVE  TookEffect(req, before.db, work', made', serial')
<1>1. CASE req.op \in {"post_collections", "put_collection", "delete_collection"}
  BY <1>1, CollectionEffects DEF Progress
<1>2. CASE req.op \in {"delete_single_moving_feature", "post_tgsequence"}
  BY <1>2, FeatureEffects DEF Progress
<1>3. CASE req.op = "delete_single_temporal_primitive_geo"
  BY <1>3, MemberEffect DEF Progress
<1>4. CASE req.op \in {"post_temporal_property", "delete_temporal_property"}
  BY <1>4, PropertyEffects DEF Progress
<1>5. CASE req.op = "post_tproperties"
  BY <1>5, PropertyAdded DEF Progress
<1>6. CASE req.op = "put_single_moving_feature"
  BY <1>6, ReplaceEffect DEF Progress
<1>7. CASE req.op = "post_bulk"
  BY <1>7, BulkEffect DEF Progress
<1>8. CASE req.op = "post_collection_items"
  BY <1>8, PostEffect DEF Progress
<1>9. QED
  BY <1>1, <1>2, <1>3, <1>4, <1>5, <1>6, <1>7, <1>8 DEF Writes

\* Every step keeps AcceptInv.
LEMMA AcceptStep == Progress /\ AcceptInv /\ [Next]_vars => AcceptInv'
<1> SUFFICES ASSUME Progress, AcceptInv, [Next]_vars, req' # NoRequest PROVE AcceptInv'
  BY DEF AcceptInv
<1>1. Course /\ TypeInv'
  BY EveryStep, TypeStep DEF Progress, Known
<1>2. TraceInv'
  BY TraceStep DEF Progress, Known
<1>3. CASE Leave
  BY <1>3 DEF Leave
<1>4. CASE Arrives
  BY <1>4 DEF Arrives, AcceptInv
<1>5. CASE Refuses
  <2>1. pc' \in {"except", "respond in except"} \/ (pc' = "respond" /\ code' >= 400)
    BY <1>5 DEF Refuses
  <2>2. code' \in Nat /\ \A n \in Nat : n >= 400 => ~(n < 400)
    BY <1>1 DEF TypeInv, TypeOK
  <2>3. QED
    BY <2>1, <2>2 DEF AcceptInv
<1>6. CASE Shows
  <2>1. /\ UNCHANGED <<disk, req, before, made, serial>> /\ pc = "check" /\ pc' = "respond"
        /\ req.op \in Reads
    BY <1>6 DEF Shows, Kept
  <2>2. disk' = before.db
    BY <2>1, FreshStart DEF Progress
  <2>3. req.op \notin Writes
    BY <2>1 DEF Reads, BareReads, SilentReads, GuardedReads, Writes
  <2>4. TookEffect(req, before.db, disk', made', serial')
    BY <2>2, <2>3, EffectOf
  <2>5. QED
    BY <2>1, <2>4 DEF AcceptInv
<1>7. CASE Waits
  <2>1. /\ UNCHANGED <<req, before, pc, code, serial, made>>
        /\ UNCHANGED <<disk, work, tx>> \/ (tx' = "closed" /\ (pc = "respond" => disk' = disk))
    BY <1>7, LabelsType DEF Waits, Kept
  <2>2. QED
    BY <2>1 DEF AcceptInv
<1>8. CASE Works
  <2>1. /\ UNCHANGED <<req, before>> /\ pc' \notin {"respond", "idle"} /\ pc # "idle"
    BY <1>8 DEF Works, Kept, Outcomes, Executing
  <2>2. pc' = "finish" => req.op \in Writes
    BY <1>2, <2>1 DEF TraceInv
  <2>3. pc' = "finish" /\ code' < 400 => TookEffect(req, before.db, work', made', serial')
    BY <1>8, <2>2, LastStatement
  <2>4. QED
    BY <2>1, <2>3 DEF AcceptInv
<1>9. CASE pc # "idle" /\ Commit
  <2>1. /\ UNCHANGED <<req, before, work, tx, serial, code, made>> /\ tx = "ok" /\ disk' = work
        /\ pc \in DOMAIN AfterCommit /\ pc' = AfterCommit[pc]
    BY <1>9 DEF Commit, request, loop
  <2>2. pc' # "finish" /\ (pc' = "respond" => pc = "finish")
    <3>1. /\ AfterCommit["tables"] = "insert collection" /\ AfterCommit["finish"] = "respond"
          /\ AfterCommit["features"] = "insert feature" /\ AfterCommit["property"] = "insert values"
      BY DEF AfterCommit
    <3>2. QED
      BY <2>1, <3>1, LabelsType
  <2>3. QED
    BY <2>1, <2>2 DEF AcceptInv
<1>10. QED
  BY <1>1, <1>3, <1>4, <1>5, <1>6, <1>7, <1>8, <1>9 DEF Course

\* What a client was told is so is committed: each handler's success status
\* goes out only after the database holds exactly what the request asks for.
THEOREM SuccessesAreCommitted == Spec => []AcceptedTookEffect
<1>1. Init => AcceptInv
  BY DEF Init, AcceptInv
<1>2. Progress /\ AcceptInv => AcceptedTookEffect
  BY DEF Progress, Known, TypeInv, TypeOK, AcceptInv, AcceptedTookEffect, Accepted
<1>3. QED
  BY <1>1, <1>2, AcceptStep, ProgressAlways, PTL DEF Spec
=============================================================================
