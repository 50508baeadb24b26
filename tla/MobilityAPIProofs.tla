------------------------- MODULE MobilityAPIProofs -------------------------
(***************************************************************************)
(* For every value of the constants: what every SQL statement of the       *)
(* server preserves, the types of the tables and the foreign keys, and     *)
(* from it the types of the variables of MobilityAPI, for every set of     *)
(* identifiers, requests and faults; then what MobilityAPI keeps of the    *)
(* transactions of its one session: no uncommitted write outlives the      *)
(* request that made it, and a refused request leaves no trace.            *)
(***************************************************************************)
EXTENDS MobilityAPI, SequenceTheorems, TLAPS

-----------------------------------------------------------------------------
(* Rows and tables.                                                        *)

\* Adding a row of the right type to a table, under a key of the right type.
LEMMA ExtendType ==
  ASSUME NEW Ids, NEW Row, NEW t, IsTable(t, Ids, Row), NEW k \in Ids, NEW row \in Row
  PROVE  IsTable(Extend(t, k, row), Ids, Row)
  BY DEF IsTable, Extend

\* Removing rows from a table.
LEMMA WithoutType ==
  ASSUME NEW Ids, NEW Row, NEW t, IsTable(t, Ids, Row), NEW Gone
  PROVE  IsTable(Without(t, Gone), Ids, Row)
  BY DEF IsTable, Without, Restrict

\* The instants of a trajectory are instants of the clock.
LEMMA InstantsOfType ==
  ASSUME NEW traj \in Trajectories
  PROVE  InstantsOf(traj) \subseteq Instants
  BY DEF Trajectories, InstantsOf

\* Appending an instant keeps a trajectory a trajectory.
LEMMA AppendInstantType ==
  ASSUME NEW traj \in Trajectories, NEW instant \in SUBSET Instants
  PROVE  AppendInstant(traj, instant) \in Trajectories
<1>1. CASE traj = Null
  BY <1>1 DEF AppendInstant
<1>2. CASE traj # Null
  <2>1. Len(traj) \in 1 .. Len(traj)
    BY <1>2, EmptySeq, LenProperties DEF Null, Trajectories
  <2>2. traj[Len(traj)] \cup instant \in SUBSET Instants
    BY <2>1, ElementOfSeq DEF Trajectories
  <2>3. QED
    BY <1>2, <2>1, <2>2, ExceptSeq DEF AppendInstant, Trajectories
<1>3. QED
  BY <1>1, <1>2

\* Removing a member keeps a trajectory a trajectory.
LEMMA RemoveMemberType ==
  ASSUME NEW traj \in Trajectories, NEW n \in Int
  PROVE  RemoveMember(traj, n) \in Trajectories
<1>1. CASE n \in DOMAIN traj
  <2>1. n \in 1 .. Len(traj) /\ Len(traj) \in Nat
    BY <1>1, LenProperties DEF Trajectories
  <2>2. SubSeq(traj, 1, n - 1) \in Seq(SUBSET Instants)
    <3>1. \A i \in 1 .. n - 1 : traj[i] \in SUBSET Instants
      BY <2>1, ElementOfSeq DEF Trajectories
    <3>2. QED
      BY <2>1, <3>1, SubSeqProperties
  <2>3. SubSeq(traj, n + 1, Len(traj)) \in Seq(SUBSET Instants)
    <3>1. \A i \in n + 1 .. Len(traj) : traj[i] \in SUBSET Instants
      BY <2>1, ElementOfSeq DEF Trajectories
    <3>2. QED
      BY <2>1, <3>1, SubSeqProperties
  <2>4. QED
    BY <1>1, <2>2, <2>3, ConcatProperties DEF RemoveMember, RemoveAt, Trajectories
<1>2. CASE n \notin DOMAIN traj
  BY <1>2, EmptySeq DEF RemoveMember, Null, Trajectories
<1>3. QED
  BY <1>1, <1>2

-----------------------------------------------------------------------------
(* Statements keep a database a database.                                  *)

\* A database without tables is one.
LEMMA EmptyDatabaseType == IsDatabase(EmptyDatabase)
  BY DEF IsDatabase, EmptyDatabase, NoRows, IsTable

\* CREATE TABLE IF NOT EXISTS keeps a database.
LEMMA CreateTablesType ==
  ASSUME NEW db, IsDatabase(db), NEW group \in SUBSET TableGroups
  PROVE  IsDatabase(CreateTables(db, group))
  BY DEF IsDatabase, CreateTables

\* So does the INSERT or UPDATE of a collection,
LEMMA PutCollectionRowType ==
  ASSUME NEW db, IsDatabase(db), NEW c \in CollectionIds, NEW title \in Titles
  PROVE  IsDatabase(PutCollectionRow(db, c, title))
<1>1. IsTable(Extend(db.collections, c, title), CollectionIds, Titles)
  BY ExtendType DEF IsDatabase
<1>2. QED
  BY <1>1 DEF IsDatabase, PutCollectionRow

\* the INSERT of a feature,
LEMMA InsertFeatureRowType ==
  ASSUME NEW db, IsDatabase(db), NEW f \in FeatureIds, NEW c \in CollectionIds
  PROVE  IsDatabase(InsertFeatureRow(db, f, c))
<1>1. IsTable(Extend(db.features, f, [cid |-> c, extent |-> {}]), FeatureIds, FeatureRow)
  BY ExtendType DEF IsDatabase, FeatureRow
<1>2. QED
  BY <1>1 DEF IsDatabase, InsertFeatureRow

\* The extent of a feature is made of instants of the clock.
LEMMA ExtentOfType ==
  ASSUME NEW db, IsDatabase(db), NEW f
  PROVE  ExtentOf(db, f) \subseteq Instants
<1>1. \A g \in GeometriesIn(db, db.features[f].cid, f) :
         InstantsOf(db.geometries[g].traj) \subseteq Instants
  BY InstantsOfType DEF GeometriesIn, GeometriesOf, IsDatabase, IsTable, GeometryRow
<1>2. QED
  BY <1>1 DEF ExtentOf, Hull

\* the trigger on temporal_geometries,
LEMMA FireTriggerType ==
  ASSUME NEW db, IsDatabase(db), NEW touched
  PROVE  IsDatabase(FireTrigger(db, touched))
<1> DEFINE Fired(f) == IF touched \cap GeometriesIn(db, db.features[f].cid, f) # {}
                       THEN [db.features[f] EXCEPT !.extent = ExtentOf(db, f)]
                       ELSE db.features[f]
           new == [f \in DOMAIN db.features |-> Fired(f)]
<1>1. ASSUME NEW f \in DOMAIN db.features
      PROVE  Fired(f) \in FeatureRow
  <2>1. db.features[f] \in FeatureRow
    BY DEF IsDatabase, IsTable
  <2>2. ExtentOf(db, f) \subseteq Instants
    BY ExtentOfType
  <2>3. QED
    BY <2>1, <2>2 DEF FeatureRow
<1>2. IsTable(new, FeatureIds, FeatureRow)
  <2> HIDE DEF Fired
  <2>1. QED
    BY <1>1 DEF IsTable, IsDatabase
<1>3. FireTrigger(db, touched) = IF "features" \in db.ddl THEN [db EXCEPT !.features = new]
                                                           ELSE db
  BY DEF FireTrigger
<1> HIDE DEF new
<1>4. QED
  BY <1>2, <1>3 DEF IsDatabase

\* the INSERT of a geometry and the trigger it fires,
LEMMA InsertGeometryRowType ==
  ASSUME NEW db, IsDatabase(db), NEW g \in Nat, NEW f \in FeatureIds,
         NEW c \in CollectionIds, NEW traj \in Trajectories, NEW geometry \in BOOLEAN
  PROVE  IsDatabase(InsertGeometryRow(db, g, f, c, traj, geometry))
<1> DEFINE row == [fid |-> f, cid |-> c, traj |-> traj, geometry |-> geometry]
           db1 == [db EXCEPT !.geometries = Extend(db.geometries, g, row)]
<1>1. row \in GeometryRow
  BY DEF GeometryRow
<1> HIDE DEF row
<1>2. IsTable(Extend(db.geometries, g, row), Nat, GeometryRow)
  BY <1>1, ExtendType DEF IsDatabase
<1>3. IsDatabase(db1)
  BY <1>2 DEF IsDatabase
<1>4. InsertGeometryRow(db, g, f, c, traj, geometry) = FireTrigger(db1, {g})
  BY DEF InsertGeometryRow, row
<1> HIDE DEF db1
<1>5. QED
  BY <1>3, <1>4, FireTriggerType

\* the UPDATE of trajectories and the trigger it fires,
LEMMA UpdateTrajectoriesType ==
  ASSUME NEW db, IsDatabase(db), NEW new,
         \A g \in DOMAIN new : new[g] \in Trajectories
  PROVE  IsDatabase(UpdateTrajectories(db, new))
<1> DEFINE Row(g) == IF g \in DOMAIN new THEN [db.geometries[g] EXCEPT !.traj = new[g]]
                                         ELSE db.geometries[g]
           t == [g \in DOMAIN db.geometries |-> Row(g)]
           db1 == [db EXCEPT !.geometries = t]
<1>1. \A g \in DOMAIN db.geometries : Row(g) \in GeometryRow
  BY DEF IsDatabase, IsTable, GeometryRow
<1>2. IsTable(t, Nat, GeometryRow)
  <2> HIDE DEF Row
  <2>1. QED
    BY <1>1 DEF IsTable, IsDatabase
<1>3. IsDatabase(db1)
  <2> HIDE DEF t
  <2>1. QED
    BY <1>2 DEF IsDatabase
<1>4. UpdateTrajectories(db, new) = FireTrigger(db1, DOMAIN new)
  BY DEF UpdateTrajectories
<1> HIDE DEF db1
<1>5. QED
  BY <1>3, <1>4, FireTriggerType

\* the INSERT of a property,
LEMMA InsertPropertyRowType ==
  ASSUME NEW db, IsDatabase(db), NEW p \in Nat, NEW f \in FeatureIds,
         NEW name \in PropertyNames
  PROVE  IsDatabase(InsertPropertyRow(db, p, f, name))
<1>1. IsTable(Extend(db.properties, p, [fid |-> f, name |-> name]), Nat, PropertyRow)
  BY ExtendType DEF IsDatabase, PropertyRow
<1>2. QED
  BY <1>1 DEF IsDatabase, InsertPropertyRow

\* the INSERT of values,
LEMMA InsertValuesRowType ==
  ASSUME NEW db, IsDatabase(db), NEW v \in Nat, NEW p \in Nat, NEW body,
         body.times \in Seq(Instants), body.values \in Seq(ValueKinds)
  PROVE  IsDatabase(InsertValuesRow(db, v, p, body))
<1>1. IsTable(Extend(db.values, v, [pid |-> p, times |-> body.times, values |-> body.values]),
              Nat, ValuesRow)
  BY ExtendType DEF IsDatabase, ValuesRow
<1>2. QED
  BY <1>1 DEF IsDatabase, InsertValuesRow

\* and the cascading deletes of properties,
LEMMA DeletePropertiesType ==
  ASSUME NEW db, IsDatabase(db), NEW P
  PROVE  IsDatabase(DeleteProperties(db, P))
<1> DEFINE V == {v \in DOMAIN db.values : db.values[v].pid \in P}
<1>1. /\ IsTable(Without(db.properties, P), Nat, PropertyRow)
      /\ IsTable(Without(db.values, V), Nat, ValuesRow)
  BY WithoutType DEF IsDatabase
<1>2. DeleteProperties(db, P) = [db EXCEPT !.properties = Without(db.properties, P),
                                           !.values = Without(db.values, V)]
  BY DEF DeleteProperties
<1> HIDE DEF V
<1>3. QED
  BY <1>1, <1>2 DEF IsDatabase

\* of features,
LEMMA DeleteFeaturesType ==
  ASSUME NEW db, IsDatabase(db), NEW F
  PROVE  IsDatabase(DeleteFeatures(db, F))
<1> DEFINE P == {p \in DOMAIN db.properties : db.properties[p].fid \in F}
           G == {g \in DOMAIN db.geometries : db.geometries[g].fid \in F}
<1>1. IsDatabase(DeleteProperties(db, P))
  BY DeletePropertiesType
<1>2. /\ IsTable(Without(db.features, F), FeatureIds, FeatureRow)
      /\ IsTable(Without(db.geometries, G), Nat, GeometryRow)
  BY WithoutType DEF IsDatabase
<1>3. DeleteFeatures(db, F) =
        [DeleteProperties(db, P) EXCEPT !.features = Without(db.features, F),
                                        !.geometries = Without(db.geometries, G)]
  BY DEF DeleteFeatures
<1> HIDE DEF P, G
<1>4. QED
  BY <1>1, <1>2, <1>3 DEF IsDatabase

\* and of a collection.
LEMMA DeleteCollectionRowType ==
  ASSUME NEW db, IsDatabase(db), NEW c
  PROVE  IsDatabase(DeleteCollectionRow(db, c))
<1> DEFINE F == {f \in DOMAIN db.features : db.features[f].cid = c}
           db1 == DeleteFeatures(db, F)
           G == {g \in DOMAIN db1.geometries : db1.geometries[g].cid = c}
<1>1. IsDatabase(db1)
  BY DeleteFeaturesType
<1>2. DeleteCollectionRow(db, c) =
        [db1 EXCEPT !.collections = Without(db.collections, {c}),
                    !.geometries = Without(db1.geometries, G)]
  BY DEF DeleteCollectionRow
<1> HIDE DEF F, db1, G
<1>3. /\ IsTable(Without(db.collections, {c}), CollectionIds, Titles)
      /\ IsTable(Without(db1.geometries, G), Nat, GeometryRow)
  BY <1>1, WithoutType DEF IsDatabase
<1>4. QED
  BY <1>1, <1>2, <1>3 DEF IsDatabase

-----------------------------------------------------------------------------
(* What the statements change, column by column.                           *)

\* A table that has some of the rows of another.
SubTable(s, t) == DOMAIN s \subseteq DOMAIN t /\ \A k \in DOMAIN s : s[k] = t[k]

\* The extent of a feature is read off the geometries and its collection.
LEMMA ExtentOfReads ==
  ASSUME NEW db, NEW new, NEW f,
         new.geometries = db.geometries, new.features[f].cid = db.features[f].cid
  PROVE  ExtentOf(new, f) = ExtentOf(db, f)
  BY DEF ExtentOf, GeometriesIn, GeometriesOf

\* The trigger writes the extents of features, and nothing else.
LEMMA FireTriggerFields ==
  ASSUME NEW db, IsDatabase(db), NEW touched, NEW new, new = FireTrigger(db, touched)
  PROVE  /\ new.collections = db.collections /\ new.geometries = db.geometries
         /\ new.properties = db.properties /\ new.values = db.values /\ new.ddl = db.ddl
         /\ DOMAIN new.features = DOMAIN db.features
         /\ \A f \in DOMAIN db.features :
              new.features[f] =
                IF /\ "features" \in db.ddl
                   /\ touched \cap GeometriesIn(db, db.features[f].cid, f) # {}
                THEN [db.features[f] EXCEPT !.extent = ExtentOf(new, f)]
                ELSE db.features[f]
<1> DEFINE Fired(f) == IF touched \cap GeometriesIn(db, db.features[f].cid, f) # {}
                       THEN [db.features[f] EXCEPT !.extent = ExtentOf(db, f)]
                       ELSE db.features[f]
           features == [f \in DOMAIN db.features |-> Fired(f)]
<1>1. new = IF "features" \in db.ddl THEN [db EXCEPT !.features = features] ELSE db
  BY DEF FireTrigger
<1>2. DOMAIN features = DOMAIN db.features
  OBVIOUS
<1>3. \A f \in DOMAIN db.features : features[f] = Fired(f)
  OBVIOUS
<1>4. \A f \in DOMAIN db.features : Fired(f).cid = db.features[f].cid
  BY DEF IsDatabase, IsTable, FeatureRow
<1>5. /\ new.collections = db.collections /\ new.geometries = db.geometries
      /\ new.properties = db.properties /\ new.values = db.values /\ new.ddl = db.ddl
      /\ new.features = IF "features" \in db.ddl THEN features ELSE db.features
  <2> HIDE DEF features
  <2>1. QED
    BY <1>1 DEF IsDatabase
<1> HIDE DEF features
<1>6. \A f \in DOMAIN db.features : new.features[f].cid = db.features[f].cid
  <2> HIDE DEF Fired
  <2>1. QED
    BY <1>3, <1>4, <1>5
<1>7. \A f \in DOMAIN db.features : ExtentOf(new, f) = ExtentOf(db, f)
  BY <1>5, <1>6, ExtentOfReads
<1>8. ASSUME NEW f \in DOMAIN db.features
      PROVE  new.features[f] =
               IF /\ "features" \in db.ddl
                  /\ touched \cap GeometriesIn(db, db.features[f].cid, f) # {}
               THEN [db.features[f] EXCEPT !.extent = ExtentOf(new, f)]
               ELSE db.features[f]
  BY <1>3, <1>5, <1>7
<1>9. QED
  BY <1>2, <1>5, <1>8

\* A geometry is inserted, and the extent of its feature refreshed when the row
\* carries the feature's collection.
GeometryInserted(db, new, g, f, c, traj, geometry) ==
  /\ new.collections = db.collections /\ new.properties = db.properties
  /\ new.values = db.values /\ new.ddl = db.ddl
  /\ DOMAIN new.geometries = DOMAIN db.geometries \cup {g}
  /\ new.geometries[g] = [fid |-> f, cid |-> c, traj |-> traj, geometry |-> geometry]
  /\ \A h \in DOMAIN db.geometries : new.geometries[h] = db.geometries[h]
  /\ DOMAIN new.features = DOMAIN db.features
  /\ \A e \in DOMAIN db.features :
       new.features[e] = IF "features" \in db.ddl /\ e = f /\ db.features[e].cid = c
                         THEN [db.features[e] EXCEPT !.extent = ExtentOf(new, e)]
                         ELSE db.features[e]

\* That is what the INSERT of a geometry under a fresh key does,
LEMMA InsertGeometryRowFields ==
  ASSUME NEW db, IsDatabase(db), NEW g \in Nat \ DOMAIN db.geometries, NEW f \in FeatureIds,
         NEW c \in CollectionIds, NEW traj \in Trajectories, NEW geometry \in BOOLEAN,
         NEW new, new = InsertGeometryRow(db, g, f, c, traj, geometry)
  PROVE  GeometryInserted(db, new, g, f, c, traj, geometry)
<1> DEFINE row == [fid |-> f, cid |-> c, traj |-> traj, geometry |-> geometry]
           table == Extend(db.geometries, g, row)
           db1 == [db EXCEPT !.geometries = table]
           touched == {g}
<1>1. row \in GeometryRow /\ row.fid = f /\ row.cid = c
  BY DEF GeometryRow
<1>2. new = FireTrigger(db1, touched)
  BY DEF InsertGeometryRow
<1> HIDE DEF row
<1>3. IsTable(table, Nat, GeometryRow)
  BY <1>1, ExtendType DEF IsDatabase
<1>4. /\ DOMAIN table = DOMAIN db.geometries \cup {g} /\ table[g] = row
      /\ \A h \in DOMAIN db.geometries : table[h] = db.geometries[h]
  BY DEF Extend
<1> HIDE DEF table
<1>5. /\ IsDatabase(db1) /\ db1.geometries = table /\ db1.features = db.features
      /\ db1.collections = db.collections /\ db1.properties = db.properties
      /\ db1.values = db.values /\ db1.ddl = db.ddl
  BY <1>3 DEF IsDatabase
<1> HIDE DEF db1, touched
<1>6. /\ new.collections = db1.collections /\ new.geometries = db1.geometries
      /\ new.properties = db1.properties /\ new.values = db1.values /\ new.ddl = db1.ddl
      /\ DOMAIN new.features = DOMAIN db1.features
      /\ \A e \in DOMAIN db1.features :
           new.features[e] =
             IF /\ "features" \in db1.ddl
                /\ touched \cap GeometriesIn(db1, db1.features[e].cid, e) # {}
             THEN [db1.features[e] EXCEPT !.extent = ExtentOf(new, e)]
             ELSE db1.features[e]
  BY <1>2, <1>5, FireTriggerFields
<1>7. ASSUME NEW e \in DOMAIN db.features
      PROVE  touched \cap GeometriesIn(db1, db1.features[e].cid, e) # {}
               <=> e = f /\ db.features[e].cid = c
  BY <1>1, <1>4, <1>5 DEF GeometriesIn, GeometriesOf, touched
<1>8. QED
  BY <1>4, <1>5, <1>6, <1>7 DEF row, GeometryInserted

\* The trajectories of some rows are written, and the extents refreshed.
TrajectoriesUpdated(db, new, trajs) ==
  /\ new.collections = db.collections /\ new.properties = db.properties
  /\ new.values = db.values /\ new.ddl = db.ddl
  /\ DOMAIN new.geometries = DOMAIN db.geometries
  /\ \A g \in DOMAIN db.geometries :
       /\ new.geometries[g].fid = db.geometries[g].fid
       /\ new.geometries[g].cid = db.geometries[g].cid
       /\ new.geometries[g].geometry = db.geometries[g].geometry
       /\ new.geometries[g].traj = IF g \in DOMAIN trajs THEN trajs[g]
                                                         ELSE db.geometries[g].traj
  /\ DOMAIN new.features = DOMAIN db.features
  /\ \A e \in DOMAIN db.features :
       new.features[e] =
         IF /\ "features" \in db.ddl
            /\ DOMAIN trajs \cap GeometriesIn(db, db.features[e].cid, e) # {}
         THEN [db.features[e] EXCEPT !.extent = ExtentOf(new, e)]
         ELSE db.features[e]

\* that is what the UPDATE of trajectories does,
LEMMA UpdateTrajectoriesFields ==
  ASSUME NEW db, IsDatabase(db), NEW trajs,
         \A g \in DOMAIN trajs : trajs[g] \in Trajectories,
         NEW new, new = UpdateTrajectories(db, trajs)
  PROVE  TrajectoriesUpdated(db, new, trajs)
<1> DEFINE Row(g) == IF g \in DOMAIN trajs THEN [db.geometries[g] EXCEPT !.traj = trajs[g]]
                                           ELSE db.geometries[g]
           table == [g \in DOMAIN db.geometries |-> Row(g)]
           db1 == [db EXCEPT !.geometries = table]
<1>1. ASSUME NEW g \in DOMAIN db.geometries
      PROVE  /\ Row(g) \in GeometryRow
             /\ Row(g).fid = db.geometries[g].fid /\ Row(g).cid = db.geometries[g].cid
             /\ Row(g).geometry = db.geometries[g].geometry
             /\ Row(g).traj = IF g \in DOMAIN trajs THEN trajs[g] ELSE db.geometries[g].traj
  BY DEF IsDatabase, IsTable, GeometryRow
<1>2. new = FireTrigger(db1, DOMAIN trajs)
  BY DEF UpdateTrajectories
<1> HIDE DEF Row
<1>3. IsTable(table, Nat, GeometryRow)
  BY <1>1 DEF IsTable, IsDatabase
<1>4. DOMAIN table = DOMAIN db.geometries /\ \A g \in DOMAIN table : table[g] = Row(g)
  OBVIOUS
<1> HIDE DEF table
<1>5. /\ IsDatabase(db1) /\ db1.geometries = table /\ db1.features = db.features
      /\ db1.collections = db.collections /\ db1.properties = db.properties
      /\ db1.values = db.values /\ db1.ddl = db.ddl
  BY <1>3 DEF IsDatabase
<1> HIDE DEF db1
<1>6. /\ new.collections = db1.collections /\ new.geometries = db1.geometries
      /\ new.properties = db1.properties /\ new.values = db1.values /\ new.ddl = db1.ddl
      /\ DOMAIN new.features = DOMAIN db1.features
      /\ \A e \in DOMAIN db1.features :
           new.features[e] =
             IF /\ "features" \in db1.ddl
                /\ DOMAIN trajs \cap GeometriesIn(db1, db1.features[e].cid, e) # {}
             THEN [db1.features[e] EXCEPT !.extent = ExtentOf(new, e)]
             ELSE db1.features[e]
  BY <1>2, <1>5, FireTriggerFields
<1>7. ASSUME NEW e \in DOMAIN db.features
      PROVE  GeometriesIn(db1, db1.features[e].cid, e) = GeometriesIn(db, db.features[e].cid, e)
  BY <1>1, <1>4, <1>5 DEF GeometriesIn, GeometriesOf
<1>8. \A g \in DOMAIN db.geometries : new.geometries[g] = Row(g)
  BY <1>4, <1>5, <1>6
<1>9. ASSUME NEW g \in DOMAIN db.geometries
      PROVE  /\ new.geometries[g].fid = db.geometries[g].fid
             /\ new.geometries[g].cid = db.geometries[g].cid
             /\ new.geometries[g].geometry = db.geometries[g].geometry
             /\ new.geometries[g].traj = IF g \in DOMAIN trajs THEN trajs[g]
                                                               ELSE db.geometries[g].traj
  BY <1>1, <1>8
<1>10. ASSUME NEW e \in DOMAIN db.features
       PROVE  new.features[e] =
                IF /\ "features" \in db.ddl
                   /\ DOMAIN trajs \cap GeometriesIn(db, db.features[e].cid, e) # {}
                THEN [db.features[e] EXCEPT !.extent = ExtentOf(new, e)]
                ELSE db.features[e]
  BY <1>5, <1>6, <1>7
<1>11. QED
  BY <1>4, <1>5, <1>6, <1>9, <1>10 DEF TrajectoriesUpdated

\* Properties are deleted, and their values with them.
PropertiesDeleted(db, new, P) ==
  /\ new.collections = db.collections /\ new.features = db.features
  /\ new.geometries = db.geometries /\ new.ddl = db.ddl
  /\ DOMAIN new.properties = DOMAIN db.properties \ P
  /\ SubTable(new.properties, db.properties)
  /\ DOMAIN new.values = {v \in DOMAIN db.values : db.values[v].pid \notin P}
  /\ SubTable(new.values, db.values)

\* that is what the DELETE of properties does,
LEMMA DeletePropertiesFields ==
  ASSUME NEW db, IsDatabase(db), NEW P, NEW new, new = DeleteProperties(db, P)
  PROVE  PropertiesDeleted(db, new, P)
<1> DEFINE V == {v \in DOMAIN db.values : db.values[v].pid \in P}
<1>1. new = [db EXCEPT !.properties = Without(db.properties, P),
                       !.values = Without(db.values, V)]
  BY DEF DeleteProperties
<1> HIDE DEF V
<1>2. /\ new.properties = Without(db.properties, P) /\ new.values = Without(db.values, V)
      /\ new.collections = db.collections /\ new.features = db.features
      /\ new.geometries = db.geometries /\ new.ddl = db.ddl
  BY <1>1 DEF IsDatabase
<1>3. QED
  BY <1>2 DEF V, Without, Restrict, SubTable, PropertiesDeleted

\* Features are deleted, and their geometries and properties with them.
FeaturesDeleted(db, new, F) ==
  /\ new.collections = db.collections /\ new.ddl = db.ddl
  /\ DOMAIN new.features = DOMAIN db.features \ F
  /\ SubTable(new.features, db.features)
  /\ DOMAIN new.geometries = {g \in DOMAIN db.geometries : db.geometries[g].fid \notin F}
  /\ SubTable(new.geometries, db.geometries)
  /\ DOMAIN new.properties = {p \in DOMAIN db.properties : db.properties[p].fid \notin F}
  /\ SubTable(new.properties, db.properties)
  /\ DOMAIN new.values =
       {v \in DOMAIN db.values :
          ~(/\ db.values[v].pid \in DOMAIN db.properties
            /\ db.properties[db.values[v].pid].fid \in F)}
  /\ SubTable(new.values, db.values)

\* that is what the DELETE of features does,
LEMMA DeleteFeaturesFields ==
  ASSUME NEW db, IsDatabase(db), NEW F, NEW new, new = DeleteFeatures(db, F)
  PROVE  FeaturesDeleted(db, new, F)
<1> DEFINE P == {p \in DOMAIN db.properties : db.properties[p].fid \in F}
           G == {g \in DOMAIN db.geometries : db.geometries[g].fid \in F}
           db1 == DeleteProperties(db, P)
<1>1. IsDatabase(db1)
  BY DeletePropertiesType
<1>2. new = [db1 EXCEPT !.features = Without(db.features, F),
                        !.geometries = Without(db.geometries, G)]
  BY DEF DeleteFeatures
<1>3. /\ db1.collections = db.collections /\ db1.ddl = db.ddl
      /\ DOMAIN db1.properties = DOMAIN db.properties \ P
      /\ SubTable(db1.properties, db.properties)
      /\ DOMAIN db1.values = {v \in DOMAIN db.values : db.values[v].pid \notin P}
      /\ SubTable(db1.values, db.values)
  <2> HIDE DEF P
  <2>1. QED
    BY DeletePropertiesFields DEF PropertiesDeleted
<1> HIDE DEF P, G, db1
<1>4. /\ new.features = Without(db.features, F) /\ new.geometries = Without(db.geometries, G)
      /\ new.collections = db1.collections /\ new.ddl = db1.ddl
      /\ new.properties = db1.properties /\ new.values = db1.values
  BY <1>1, <1>2 DEF IsDatabase
<1>5. /\ DOMAIN new.features = DOMAIN db.features \ F /\ SubTable(new.features, db.features)
      /\ DOMAIN new.geometries = DOMAIN db.geometries \ G
      /\ SubTable(new.geometries, db.geometries)
  BY <1>4 DEF Without, Restrict, SubTable
<1>6. QED
  BY <1>3, <1>4, <1>5 DEF P, G, FeaturesDeleted

\* A collection is deleted with its features, and with the geometries that
\* carry its identifier whatever their feature.
CollectionDeleted(db, new, c) ==
  /\ DOMAIN new.collections = DOMAIN db.collections \ {c}
  /\ SubTable(new.collections, db.collections) /\ new.ddl = db.ddl
  /\ DOMAIN new.features = {f \in DOMAIN db.features : db.features[f].cid # c}
  /\ SubTable(new.features, db.features)
  /\ DOMAIN new.geometries =
       {g \in DOMAIN db.geometries :
          /\ db.geometries[g].cid # c
          /\ ~(/\ db.geometries[g].fid \in DOMAIN db.features
               /\ db.features[db.geometries[g].fid].cid = c)}
  /\ SubTable(new.geometries, db.geometries)
  /\ DOMAIN new.properties =
       {p \in DOMAIN db.properties :
          ~(/\ db.properties[p].fid \in DOMAIN db.features
            /\ db.features[db.properties[p].fid].cid = c)}
  /\ SubTable(new.properties, db.properties)
  /\ DOMAIN new.values =
       {v \in DOMAIN db.values :
          ~(/\ db.values[v].pid \in DOMAIN db.properties
            /\ db.properties[db.values[v].pid].fid \in DOMAIN db.features
            /\ db.features[db.properties[db.values[v].pid].fid].cid = c)}
  /\ SubTable(new.values, db.values)

\* and that is what the DELETE of a collection does.
LEMMA DeleteCollectionRowFields ==
  ASSUME NEW db, IsDatabase(db), NEW c, NEW new, new = DeleteCollectionRow(db, c)
  PROVE  CollectionDeleted(db, new, c)
<1> DEFINE F == {f \in DOMAIN db.features : db.features[f].cid = c}
           db1 == DeleteFeatures(db, F)
           G == {g \in DOMAIN db1.geometries : db1.geometries[g].cid = c}
<1>1. IsDatabase(db1)
  BY DeleteFeaturesType
<1>2. new = [db1 EXCEPT !.collections = Without(db.collections, {c}),
                        !.geometries = Without(db1.geometries, G)]
  BY DEF DeleteCollectionRow
<1>3. /\ db1.ddl = db.ddl
      /\ DOMAIN db1.features = DOMAIN db.features \ F
      /\ SubTable(db1.features, db.features)
      /\ DOMAIN db1.geometries = {g \in DOMAIN db.geometries : db.geometries[g].fid \notin F}
      /\ SubTable(db1.geometries, db.geometries)
      /\ DOMAIN db1.properties = {p \in DOMAIN db.properties : db.properties[p].fid \notin F}
      /\ SubTable(db1.properties, db.properties)
      /\ DOMAIN db1.values =
           {v \in DOMAIN db.values :
              ~(/\ db.values[v].pid \in DOMAIN db.properties
                /\ db.properties[db.values[v].pid].fid \in F)}
      /\ SubTable(db1.values, db.values)
  <2> HIDE DEF F
  <2>1. QED
    BY DeleteFeaturesFields DEF FeaturesDeleted
<1>4. DOMAIN Without(db1.geometries, G) = {g \in DOMAIN db1.geometries : db1.geometries[g].cid # c}
  <2> HIDE DEF db1
  <2>1. QED
    BY DEF Without, Restrict
<1>5. SubTable(Without(db1.geometries, G), db1.geometries)
  BY DEF Without, Restrict, SubTable
<1> HIDE DEF F, db1, G
<1>6. /\ new.collections = Without(db.collections, {c})
      /\ new.geometries = Without(db1.geometries, G)
      /\ new.features = db1.features /\ new.ddl = db1.ddl
      /\ new.properties = db1.properties /\ new.values = db1.values
  BY <1>1, <1>2 DEF IsDatabase
<1>7. DOMAIN new.collections = DOMAIN db.collections \ {c} /\ SubTable(new.collections, db.collections)
  BY <1>6 DEF Without, Restrict, SubTable
<1>8. SubTable(new.geometries, db.geometries)
  BY <1>3, <1>5, <1>6 DEF SubTable
<1>9. \A g \in DOMAIN db1.geometries : db1.geometries[g] = db.geometries[g]
  BY <1>3 DEF SubTable
<1>10. DOMAIN new.geometries = {g \in DOMAIN db.geometries :
            db.geometries[g].cid # c /\ db.geometries[g].fid \notin F}
  BY ZenonT(60), <1>3, <1>4, <1>6, <1>9
<1>11. QED
  BY <1>3, <1>6, <1>7, <1>8, <1>10 DEF F, CollectionDeleted

-----------------------------------------------------------------------------
(* Type correctness.  TypeOK is not inductive by itself: the steps of a    *)
(* loop take the head of todo, which must be there and be of the right     *)
(* kind, and two handlers read the one item of their body without a check. *)

FeatureLabels == {"feature", "features", "insert feature", "insert geometry"}
BatchLabels   == {"observe", "append instant"}

Observation(item) ==
  item.kind = "ok" /\ item.id \in FeatureIds /\ DOMAIN item.traj = {1}

Control ==
  /\ pc \in FeatureLabels =>
       todo # <<>> /\ req.op \in {"post_collection_items", "put_single_moving_feature"}
  /\ pc = "insert geometry" => Head(todo).id \in FeatureIds
  /\ pc \in BatchLabels =>
       /\ todo # <<>> /\ req.op = "post_bulk"
       /\ \A n \in DOMAIN todo : Observation(todo[n])
  /\ pc = "check" /\ req.op \in {"put_single_moving_feature", "post_tgsequence"} =>
       req.form # "bad json"
  /\ pc = "check" /\ req.op = "post_temporal_property" => Len(req.times) = Len(req.values)

TypeInv == TypeOK /\ Control

\* Every exception has a status.
LEMMA ExceptStatusType ==
  ASSUME NEW op, NEW kind
  PROVE  ExceptStatus(op, kind) \in Nat
  BY DEF ExceptStatus

\* The loop goes on with an item only if there is one.
LEMMA NextItemType ==
  ASSUME NEW rest, NEW l
  PROVE  NextItem(rest, l) \in {"finish", l} /\ (NextItem(rest, l) = l /\ l # "finish" => rest # <<>>)
  BY DEF NextItem

\* A request that is being served is one that clients may send.
LEMMA RequestType ==
  ASSUME TypeOK, pc # "idle"
  PROVE  req \in Requests /\ req \in Request /\ req # NoRequest
  BY RequestsAssumption DEF TypeOK

\* The labels that steps move to, and where a commit leads.
LEMMA LabelsType ==
  /\ Executing \subseteq Labels
  /\ FeatureLabels \cup BatchLabels \subseteq Labels
  /\ {"idle", "start", "check", "except", "respond", "respond in except", "finish",
      "tables", "features", "property", "insert values", "insert collection"} \subseteq Labels
  /\ \A l \in DOMAIN AfterCommit : AfterCommit[l] \in
       {"insert collection", "insert feature", "insert values", "respond"}
  /\ DOMAIN AfterCommit = {"tables", "features", "property", "finish"}
<1>1. DOMAIN AfterCommit = {"tables", "features", "property", "finish"}
  BY DEF AfterCommit
<1>2. /\ AfterCommit["tables"] = "insert collection"
      /\ AfterCommit["features"] = "insert feature"
      /\ AfterCommit["property"] = "insert values"
      /\ AfterCommit["finish"] = "respond"
  BY DEF AfterCommit
<1>3. QED
  BY <1>1, <1>2 DEF Labels, Executing, FeatureLabels, BatchLabels

\* The initial state is typed.
LEMMA TypeInit == Init => TypeInv
<1> SUFFICES ASSUME Init PROVE TypeInv
  OBVIOUS
<1>1. IsDatabase(EmptyDatabase)
  BY EmptyDatabaseType
<1>2. <<>> \in Seq(Items)
  BY EmptySeq
<1>3. TypeOK
  BY <1>1, <1>2, LabelsType, RequestsAssumption DEF Init, TypeOK, Blank
<1>4. Control
  BY DEF Init, Control, FeatureLabels, BatchLabels
<1>5. QED
  BY <1>3, <1>4 DEF TypeInv

-----------------------------------------------------------------------------
(* The steps that leave the store alone.                                   *)

\* Any step to the answer, or to the except clause, with a new status.
LEMMA AnswersType ==
  ASSUME TypeInv, pc # "idle", NEW status \in Nat,
         Answer(status) \/ AnswerInExcept(status) \/ Raise(status) \/ StatementFails(status)
  PROVE  TypeInv'
<1>1. pc' \in {"respond", "respond in except", "except"} /\ code' = status
  BY DEF Answer, AnswerInExcept, Raise, StatementFails
<1>2. /\ disk' = disk /\ work' \in {work, disk} /\ tx' \in {tx, "closed", "inerror"}
      /\ UNCHANGED <<serial, req, before, todo, made>>
  BY DEF Answer, AnswerInExcept, Raise, StatementFails, store, request, loop
<1>3. TypeOK'
  BY <1>1, <1>2, LabelsType, RequestType DEF TypeInv, TypeOK
<1>4. Control'
  BY <1>1 DEF Control, FeatureLabels, BatchLabels
<1>5. QED
  BY <1>3, <1>4 DEF TypeInv

\* The same step, whatever its status.
Answers ==
  \E status \in Nat :
    Answer(status) \/ AnswerInExcept(status) \/ Raise(status) \/ StatementFails(status)

\* It keeps the types.
LEMMA AnswersKeepType ==
  ASSUME TypeInv, pc # "idle", Answers
  PROVE  TypeInv'
  BY AnswersType DEF Answers

\* A step with one of the answers a handler names is such a step.
LEMMA AnswersWith ==
  ASSUME NEW status \in Nat,
         Answer(status) \/ AnswerInExcept(status) \/ Raise(status) \/ StatementFails(status)
  PROVE  Answers
  BY DEF Answers

\* Reading and validating the body keeps the types.
LEMMA ReadBodyType == TypeInv /\ ReadBody => TypeInv'
<1> SUFFICES ASSUME TypeInv, ReadBody PROVE TypeInv'
  OBVIOUS
<1>1. CASE Answers
  BY <1>1, AnswersKeepType DEF ReadBody
<1>2. CASE /\ req.form = "bad json" => req.op \notin DecodeErrorAnswered \cup DecodeErrorRaised
           /\ ~LengthsDiffer /\ Goto("check")
  <2>1. pc' = "check" /\ UNCHANGED <<disk, work, tx, serial, req, before, code, todo, made>>
    BY <1>2 DEF Goto, store, request, loop
  <2>2. TypeOK'
    BY <2>1, LabelsType, RequestType DEF TypeInv, TypeOK, ReadBody
  <2>3. Control'
    BY <1>2, <2>1
    DEF Control, FeatureLabels, BatchLabels, DecodeErrorAnswered, DecodeErrorRaised, LengthsDiffer
  <2>4. QED
    BY <2>2, <2>3 DEF TypeInv
<1>3. CASE AnswerInExcept(400) \/ Answer(400) \/ Answer(501)
  BY <1>1, <1>3, AnswersWith
<1>4. CASE \/ Raise(ExceptStatus(req.op, "other"))
           \/ Raise(ExceptStatus(req.op, "DataError"))
  BY <1>1, <1>4, AnswersWith, ExceptStatusType
<1>5. QED
  BY ZenonT(60), <1>2, <1>3, <1>4 DEF ReadBody

\* The handlers that only query keep them.
LEMMA ReadType == TypeInv /\ Read => TypeInv'
<1> SUFFICES ASSUME TypeInv, Read PROVE TypeInv'
  OBVIOUS
<1>1. pc = "check"
  BY DEF Read
<1>2. Answers
  BY AnswersWith DEF Read
<1>3. QED
  BY <1>1, <1>2, AnswersKeepType

-----------------------------------------------------------------------------
(* The handlers without a loop: each step answers, or leaves a database.   *)

\* A step whose statements leave the transaction with a database.
Stores ==
  /\ IsDatabase(work') /\ serial' \in Nat /\ code' \in Nat
  /\ pc' \in {"finish", "tables", "property"}
  /\ UNCHANGED <<disk, tx, req, before, todo, made>>

\* It keeps the types.
LEMMA StoresKeepType ==
  ASSUME TypeInv, pc # "idle", Answers \/ Stores
  PROVE  TypeInv'
<1>1. CASE Answers
  BY <1>1, AnswersKeepType
<1>2. CASE Stores
  <2>1. TypeOK'
    BY <1>2, LabelsType, RequestType DEF Stores, TypeInv, TypeOK
  <2>2. Control'
    BY <1>2 DEF Stores, Control, FeatureLabels, BatchLabels
  <2>3. QED
    BY <2>1, <2>2 DEF TypeInv
<1>3. QED
  BY <1>1, <1>2

\* A step that executes its statements with these effects stores.
LEMMA StoresWith ==
  ASSUME NEW db, IsDatabase(db), NEW l \in {"finish", "tables", "property"},
         Execute(db, l), serial' \in Nat, code' \in Nat, UNCHANGED loop
  PROVE  Stores
  BY DEF Stores, Execute, request, loop

\* So does the last statement before the final commit.
LEMMA LastStores ==
  ASSUME TypeInv, NEW db, IsDatabase(db), NEW status \in Nat, ExecuteLast(db, status)
  PROVE  Stores
  BY StoresWith DEF ExecuteLast, TypeInv, TypeOK

\* The handlers of collections keep the types.
LEMMA CollectionsType ==
  ASSUME TypeInv,
         \/ post_collections \/ post_collections_insert
         \/ put_collection \/ delete_collection
  PROVE  TypeInv'
<1>1. pc # "idle"
  BY DEF At, post_collections, post_collections_insert, put_collection, delete_collection
<1>2. req.cid \in CollectionIds /\ req.title \in Titles /\ IsDatabase(work)
  BY <1>1, RequestType DEF TypeInv, TypeOK, Request
<1>3. CASE post_collections
  <2>1. IsDatabase(CreateTables(work, {"core"}))
    BY <1>2, CreateTablesType DEF TableGroups
  <2>2. Stores
    BY <1>3, <2>1, StoresWith DEF post_collections, TypeInv, TypeOK
  <2>3. QED
    BY <1>1, <2>2, StoresKeepType
<1>4. CASE post_collections_insert \/ put_collection
  <2>1. IsDatabase(PutCollectionRow(work, req.cid, req.title))
    BY <1>2, PutCollectionRowType
  <2>2. CASE \/ ExecuteLast(PutCollectionRow(work, req.cid, req.title), 201)
             \/ ExecuteLast(PutCollectionRow(work, req.cid, req.title), 204)
    BY <1>1, <2>1, <2>2, LastStores, StoresKeepType
  <2>3. CASE Answer(404) \/ Answer(400) \/ Answer(409)
    BY <1>1, <2>3, AnswersWith, AnswersKeepType
  <2>4. QED
    BY ZenonT(60), <1>4, <2>2, <2>3 DEF post_collections_insert, put_collection
<1>5. CASE delete_collection
  <2>1. IsDatabase(DeleteCollectionRow(work, req.cid))
    BY <1>2, DeleteCollectionRowType
  <2>2. Answers \/ Stores
    BY <1>5, <2>1, AnswersWith, LastStores DEF delete_collection
  <2>3. QED
    BY <1>1, <2>2, StoresKeepType
<1>6. QED
  BY <1>3, <1>4, <1>5

\* DELETE of a moving feature keeps the types.
LEMMA DeleteFeatureType ==
  ASSUME TypeInv, delete_single_moving_feature
  PROVE  TypeInv'
<1>1. pc # "idle"
  BY DEF At, delete_single_moving_feature
<1>2. IsDatabase(work) /\ IsDatabase(DeleteFeatures(work, {req.fid}))
  BY DeleteFeaturesType DEF TypeInv, TypeOK
<1>3. Answers \/ Stores
  BY <1>2, AnswersWith, LastStores DEF delete_single_moving_feature
<1>4. QED
  BY <1>1, <1>3, StoresKeepType

\* The handlers of temporal geometries keep the types; post_tgsequence finds its
\* one item.
LEMMA TemporalGeometriesType ==
  ASSUME TypeInv, post_tgsequence \/ delete_single_temporal_primitive_geo
  PROVE  TypeInv'
<1>1. pc = "check" /\ pc # "idle"
  BY DEF At, post_tgsequence, delete_single_temporal_primitive_geo
<1>2. req \in Request /\ req \in Requests /\ IsDatabase(work) /\ serial \in Nat
  BY <1>1, RequestType DEF TypeInv, TypeOK
<1>3. CASE post_tgsequence
  <2>1. CASE Answers
    BY <1>1, <2>1, AnswersKeepType
  <2>2. CASE /\ Draw
             /\ Execute(InsertGeometryRow(work, serial', req.fid, req.cid,
                                          req.items[1].traj, TRUE), "finish")
             /\ code' = 201 /\ UNCHANGED loop
    <3>1. req.op = "post_tgsequence"
      BY <1>3 DEF At, post_tgsequence
    <3>2. req.form # "bad json"
      BY <1>1, <3>1 DEF TypeInv, Control
    <3>3. req.items \in Seq(Items) /\ Len(req.items) = 1
      BY <1>2, <3>1, <3>2, RequestsAssumption DEF Request
    <3>4. req.items[1] \in Items
      BY <3>3
    <3>5. req.items[1].traj \in Trajectories /\ req.fid \in FeatureIds
          /\ req.cid \in CollectionIds /\ serial' \in Nat
      BY <1>2, <2>2, <3>4 DEF Items, Request, Draw
    <3>6. IsDatabase(InsertGeometryRow(work, serial', req.fid, req.cid,
                                       req.items[1].traj, TRUE))
      BY <1>2, <3>5, InsertGeometryRowType
    <3>7. Stores
      BY ZenonT(60), <2>2, <3>5, <3>6, StoresWith
    <3>8. QED
      BY <1>1, <3>7, StoresKeepType
  <2>3. CASE Answer(404) \/ StatementFails(500)
    BY <2>1, <2>3, AnswersWith
  <2>4. QED
    BY <1>3, <2>2, <2>3 DEF post_tgsequence
<1>4. CASE delete_single_temporal_primitive_geo
  <2> DEFINE rows == GeometriesIn(work, req.cid, req.fid)
             new == [g \in rows |-> RemoveMember(work.geometries[g].traj, req.n)]
  <2>1. \A g \in rows : work.geometries[g].traj \in Trajectories
    BY <1>2 DEF GeometriesIn, GeometriesOf, IsDatabase, IsTable, GeometryRow
  <2>2. \A g \in rows : RemoveMember(work.geometries[g].traj, req.n) \in Trajectories
    BY <1>2, <2>1, RemoveMemberType DEF Request
  <2>3. IsDatabase(UpdateTrajectories(work, new))
    <3>1. \A g \in DOMAIN new : new[g] \in Trajectories
      BY <2>2
    <3> HIDE DEF new
    <3>2. QED
      BY <1>2, <3>1, UpdateTrajectoriesType
  <2>4. Answers \/ ExecuteLast(UpdateTrajectories(work, new), 204)
    BY <1>4, AnswersWith DEF delete_single_temporal_primitive_geo
  <2>5. Answers \/ Stores
    BY <2>3, <2>4, LastStores
  <2>6. QED
    BY <1>1, <2>5, StoresKeepType
<1>5. QED
  BY <1>3, <1>4

\* Leaving a handler, whatever becomes of the store.
LEMMA LeaveType ==
  ASSUME TypeInv, Leave, disk' \in {disk, work}, work' \in {disk, work},
         tx' \in {tx, "ok"}, serial' = serial
  PROVE  TypeInv'
<1>1. <<>> \in Seq(Items)
  BY EmptySeq
<1>2. IsDatabase(EmptyDatabase)
  BY EmptyDatabaseType
<1>3. TypeOK'
  <2>1. IsDatabase(disk') /\ IsDatabase(work') /\ serial' \in Nat
        /\ tx' \in {"ok", "inerror", "closed"}
    BY DEF TypeInv, TypeOK
  <2>2. /\ req' = NoRequest /\ pc' = "idle" /\ code' = 0 /\ todo' = <<>> /\ made' = {}
        /\ before'.db = EmptyDatabase /\ before'.tx = "ok"
    BY DEF Leave, Blank
  <2>3. QED
    BY <1>1, <1>2, <2>1, <2>2, LabelsType DEF TypeOK
<1>4. Control'
  BY DEF Leave, Control, FeatureLabels, BatchLabels
<1>5. QED
  BY <1>3, <1>4 DEF TypeInv

\* The handlers of temporal properties keep the types.
LEMMA TemporalPropertiesType ==
  ASSUME TypeInv,
         \/ NoSuchFeature \/ NoPropertyTables \/ post_tproperties
         \/ post_tproperties_values \/ post_temporal_property \/ delete_temporal_property
  PROVE  TypeInv'
<1>1. pc # "idle"
  BY DEF At, Handles, NoSuchFeature, NoPropertyTables, post_tproperties,
         post_tproperties_values, post_temporal_property, delete_temporal_property
<1>2. /\ req.fid \in FeatureIds /\ req.name \in PropertyNames
      /\ req.times \in Seq(Instants) /\ req.values \in Seq(ValueKinds)
      /\ IsDatabase(work) /\ serial \in Nat /\ code \in Nat
  BY <1>1, RequestType DEF TypeInv, TypeOK, Request
<1>3. \A p \in Named : p \in Nat
  BY <1>2 DEF Named, PropertiesNamed, PropertiesOf, IsDatabase, IsTable
<1>4. CASE Answer(400) \/ Answer(404) \/ Answer(409) \/ Raise(500) \/ StatementFails(500)
  BY <1>1, <1>4, AnswersWith, AnswersKeepType
<1>5. CASE Stores
  BY <1>1, <1>5, StoresKeepType
<1>6. CASE NoSuchFeature \/ NoPropertyTables
  BY <1>4, <1>6 DEF NoSuchFeature, NoPropertyTables
<1>7. CASE post_tproperties
  <2>1. CASE Leave /\ UNCHANGED store
    BY <2>1, LeaveType DEF store
  <2>2. CASE \E l \in {"finish", "property"} :
               /\ Draw /\ Execute(InsertPropertyRow(work, serial', req.fid, req.name), l)
               /\ code' = 201 /\ UNCHANGED loop
    <3>1. serial' \in Nat
      BY <1>2, <2>2 DEF Draw
    <3>2. IsDatabase(InsertPropertyRow(work, serial', req.fid, req.name))
      BY <1>2, <3>1, InsertPropertyRowType
    <3>3. QED
      BY <1>5, <2>2, <3>1, <3>2, StoresWith
  <2>3. QED
    BY <1>4, <1>7, <2>1, <2>2 DEF post_tproperties
<1>8. CASE post_tproperties_values \/ post_temporal_property
  <2>1. CASE \E p \in Named :
               /\ Draw /\ Execute(InsertValuesRow(work, serial', p, req), "finish")
               /\ code' \in {code, 201} /\ UNCHANGED loop
    <3>1. serial' \in Nat
      BY <1>2, <2>1 DEF Draw
    <3>2. PICK p \in Named : Execute(InsertValuesRow(work, serial', p, req), "finish")
      BY <2>1
    <3>3. IsDatabase(InsertValuesRow(work, serial', p, req))
      BY <1>2, <1>3, <3>1, InsertValuesRowType
    <3>4. QED
      BY <1>2, <1>5, <2>1, <3>1, <3>2, <3>3, StoresWith
  <2>2. CASE post_tproperties_values
    BY ZenonT(60), <1>4, <2>1, <2>2 DEF post_tproperties_values
  <2>3. CASE post_temporal_property
    BY <1>4, <2>1, <2>3 DEF post_temporal_property
  <2>4. QED
    BY <1>8, <2>2, <2>3
<1>9. CASE delete_temporal_property
  <2>1. IsDatabase(DeleteProperties(work, Named))
    BY <1>2, DeletePropertiesType
  <2>2. CASE ExecuteLast(DeleteProperties(work, Named), 204)
    BY <1>5, <2>1, <2>2, LastStores
  <2>3. QED
    BY <1>4, <1>9, <2>2 DEF delete_temporal_property
<1>10. QED
  BY <1>6, <1>7, <1>8, <1>9

-----------------------------------------------------------------------------
(* The steps of Session.                                                   *)

\* Failing statements, commits, except clauses, arrivals, answers and the faults
\* of the environment keep the types.
LEMMA SessionType ==
  ASSUME TypeInv,
         \/ StatementError \/ Commit \/ Except \/ Respond
         \/ Receive \/ ClientGone \/ DatabaseRestart \/ Kill \/ Interrupt
  PROVE  TypeInv'
<1>1. CASE StatementError
  <2>1. pc # "idle"
    BY <1>1 DEF StatementError, Executing, AfterCommit
  <2>2. \E kind \in {"does not exist", "other"} : StatementFails(ExceptStatus(req.op, kind))
    BY <1>1 DEF StatementError
  <2>3. QED
    BY <2>1, <2>2, ExceptStatusType, AnswersWith, AnswersKeepType
<1>2. CASE Commit
  <2>1. /\ pc \in DOMAIN AfterCommit /\ pc' = AfterCommit[pc] /\ disk' = work
        /\ UNCHANGED <<work, tx, serial, req, before, code, todo, made>>
    BY <1>2 DEF Commit, request, loop
  <2>2. TypeOK'
    <3>1. pc \in {"tables", "features", "property", "finish"}
      BY <2>1, LabelsType
    <3>2. pc # "idle"
      BY <3>1
    <3>3. pc' \in Labels /\ pc' # "idle"
      <4>1. pc' \in {"insert collection", "insert feature", "insert values", "respond"}
        BY <2>1, LabelsType
      <4>2. QED
        BY <4>1 DEF Labels, Executing
    <3>4. QED
      <4>1. disk' = work /\ UNCHANGED <<work, tx, serial, req, before, code, todo, made>>
        BY <2>1
      <4>2. QED
        BY <3>2, <3>3, <4>1 DEF TypeInv, TypeOK
  <2>3. /\ pc' \in {"insert collection", "insert feature", "insert values", "respond"}
        /\ pc' = "insert feature" => pc = "features"
    BY <2>1, LabelsType DEF AfterCommit
  <2>4. Control'
    BY <2>1, <2>3 DEF TypeInv, Control, FeatureLabels, BatchLabels
  <2>5. QED
    BY <2>2, <2>4 DEF TypeInv
<1>3. CASE pc = "except" /\ pc' = "respond in except"
           /\ work' \in {disk, work} /\ tx' \in {tx, "ok"}
           /\ UNCHANGED <<disk, serial, req, before, code, todo, made>>
  <2>1. TypeOK'
    BY <1>3, LabelsType, RequestType DEF TypeInv, TypeOK
  <2>2. Control'
    BY <1>3 DEF Control, FeatureLabels, BatchLabels
  <2>3. QED
    BY <2>1, <2>2 DEF TypeInv
<1>4. CASE Except
  <2>1. CASE Leave
    BY <1>4, <2>1, LeaveType DEF Except, store, Leave
  <2>2. CASE pc' = "respond in except"
    BY <1>3, <1>4, <2>2 DEF Except, Rollback, Leave, store, request, loop
  <2>3. QED
    BY <1>4, <2>1, <2>2 DEF Except
<1>5. CASE Respond
  BY <1>5, LeaveType DEF Respond, store
<1>6. CASE Receive
  <2>1. /\ req' \in Requests /\ before'.db = disk /\ before'.tx = tx /\ pc' = "start"
        /\ UNCHANGED <<disk, work, tx, serial, code, todo, made>>
    BY <1>6 DEF Receive, store, loop
  <2>2. TypeOK'
    BY <2>1, LabelsType, RequestsAssumption DEF TypeInv, TypeOK
  <2>3. Control'
    BY <2>1 DEF Control, FeatureLabels, BatchLabels
  <2>4. QED
    BY <2>2, <2>3 DEF TypeInv
<1>7. CASE ClientGone
  BY <1>7, LeaveType DEF ClientGone, Rollback, store
<1>8. CASE DatabaseRestart
  <2>1. /\ disk' \in {disk, work} /\ work' = disk' /\ tx' = "closed"
        /\ UNCHANGED <<serial, req, before, pc, code, todo, made>>
    BY <1>8 DEF DatabaseRestart, request, loop
  <2>2. TypeOK'
    BY <2>1 DEF TypeInv, TypeOK
  <2>3. Control'
    BY <2>1 DEF TypeInv, Control
  <2>4. QED
    BY <2>2, <2>3 DEF TypeInv
<1>9. CASE Kill \/ Interrupt
  BY <1>9, LeaveType DEF Kill, Interrupt
<1>10. QED
  BY <1>1, <1>2, <1>4, <1>5, <1>6, <1>7, <1>8, <1>9

-----------------------------------------------------------------------------
(* The loops over the items of a body.                                     *)

FeatureOps == {"post_collection_items", "put_single_moving_feature"}

\* A step of the loop over Features leaves items for the steps to come.
FeatureStep ==
  /\ IsDatabase(work') /\ serial' \in Nat /\ code' \in Nat
  /\ todo' \in Seq(Items) /\ made' \subseteq FeatureIds
  /\ pc' \in FeatureLabels \cup {"finish", "except"}
  /\ pc' \in FeatureLabels => todo' # <<>> /\ req.op \in FeatureOps
  /\ pc' = "insert geometry" => Head(todo').id \in FeatureIds
  /\ UNCHANGED <<disk, tx, req, before>>

\* It keeps the types.
LEMMA FeatureStepType ==
  ASSUME TypeInv, pc # "idle", FeatureStep
  PROVE  TypeInv'
<1>1. pc' \in Labels /\ pc' # "idle"
  BY LabelsType DEF FeatureStep, FeatureLabels
<1>2. TypeOK'
  BY <1>1 DEF FeatureStep, TypeInv, TypeOK
<1>3. Control'
  BY DEF FeatureStep, Control, FeatureLabels, BatchLabels, FeatureOps
<1>4. QED
  BY <1>2, <1>3 DEF TypeInv

\* The head and the rest of a sequence that is not empty.
LEMMA HeadTailType ==
  ASSUME NEW seq \in Seq(Items), seq # <<>>
  PROVE  Head(seq) \in Items /\ Tail(seq) \in Seq(Items) /\ Head(seq) = seq[1] /\ 1 \in DOMAIN seq
  OBVIOUS

\* Giving the first item the id its row has.
LEMMA IdentifiedType ==
  ASSUME NEW seq \in Seq(Items), seq # <<>>, NEW id \in FeatureIds,
         NEW new, new = [seq EXCEPT ![1].id = id]
  PROVE  new \in Seq(Items) /\ new # <<>> /\ Head(new).id \in FeatureIds
<1>1. Len(seq) \in Nat \ {0} /\ seq \in [1..Len(seq) -> Items] /\ 1 \in 1..Len(seq)
  OBVIOUS
<1>2. new = [seq EXCEPT ![1] = [seq[1] EXCEPT !.id = id]]
  OBVIOUS
<1>3. [seq[1] EXCEPT !.id = id] \in Items /\ [seq[1] EXCEPT !.id = id].id = id
  BY <1>1 DEF Items
<1>4. new \in [1..Len(seq) -> Items] /\ new[1].id = id
  <2> DEFINE first == [seq[1] EXCEPT !.id = id]
  <2>1. first \in Items /\ first.id = id /\ new = [seq EXCEPT ![1] = first]
    BY <1>2, <1>3
  <2> HIDE DEF first
  <2>2. QED
    BY <1>1, <2>1
<1>5. new \in Seq(Items) /\ Len(new) = Len(seq)
  <2>1. \A n \in 1..Len(seq) : new[n] \in Items
    BY <1>4
  <2>2. QED
    BY <1>1, <1>4, SeqDef
<1>6. new # <<>> /\ Head(new) = new[1]
  BY <1>1, <1>5
<1>7. QED
  BY <1>4, <1>5, <1>6

\* The handlers that enter the loop keep the types: PUT finds its one item.
LEMMA AcceptFeaturesType ==
  ASSUME TypeInv, post_collection_items \/ put_single_moving_feature
  PROVE  TypeInv'
<1>1. pc = "check" /\ pc # "idle" /\ req.op \in FeatureOps
  BY DEF At, post_collection_items, put_single_moving_feature, FeatureOps
<1>2. /\ req \in Request /\ req \in Requests /\ IsDatabase(work) /\ serial \in Nat
      /\ req.items \in Seq(Items) /\ req.fid \in FeatureIds
  BY <1>1, RequestType DEF TypeInv, TypeOK, Request
<1>3. CASE post_collection_items
  <2>1. CASE /\ todo' = req.items /\ made' = {}
             /\ code' = 201 /\ pc' = NextItem(req.items, "feature")
             /\ UNCHANGED <<store, request>>
    <3>1. pc' \in {"finish", "feature"} /\ (pc' = "feature" => todo' # <<>>)
      BY <2>1, NextItemType
    <3>2. FeatureStep
      BY ZenonT(60), <1>1, <1>2, <2>1, <3>1 DEF FeatureStep, FeatureLabels, store, request
    <3>3. QED
      BY <1>1, <3>2, FeatureStepType
  <2>2. CASE \/ Raise(ExceptStatus(req.op, "does not exist"))
             \/ Raise(ExceptStatus(req.op, "DataError"))
    BY <1>1, <2>2, ExceptStatusType, AnswersWith, AnswersKeepType
  <2>3. QED
    BY <1>3, <2>1, <2>2 DEF post_collection_items
<1>4. CASE put_single_moving_feature
  <2>1. CASE Answer(404)
    BY <1>1, <2>1, AnswersWith, AnswersKeepType
  <2>2. CASE /\ Execute(DeleteFeatures(work, {req.fid}), "feature")
             /\ todo' = <<[req.items[1] EXCEPT !.id = req.fid]>>
             /\ code' = 200 /\ UNCHANGED <<serial, made>>
    <3>1. req.op = "put_single_moving_feature"
      BY <1>4 DEF At, put_single_moving_feature
    <3>2. Len(req.items) = 1
      BY <1>1, <1>2, <3>1, RequestsAssumption DEF TypeInv, Control
    <3>3. req.items[1] \in Items
      BY <1>2, <3>2
    <3>4. [req.items[1] EXCEPT !.id = req.fid] \in Items
      BY <1>2, <3>3 DEF Items
    <3>5. todo' \in Seq(Items) /\ todo' # <<>>
      <4> DEFINE item == [req.items[1] EXCEPT !.id = req.fid]
      <4>1. item \in Items /\ todo' = <<item>>
        BY <2>2, <3>4
      <4> HIDE DEF item
      <4>2. QED
        BY <4>1
    <3>6. IsDatabase(DeleteFeatures(work, {req.fid}))
      BY <1>2, DeleteFeaturesType
    <3>7. FeatureStep
      <4>1. /\ work' = DeleteFeatures(work, {req.fid}) /\ pc' = "feature" /\ code' = 200
            /\ UNCHANGED <<disk, tx, req, before, serial, made>>
        BY <2>2 DEF Execute, request
      <4>2. QED
        BY <1>1, <1>2, <3>5, <3>6, <4>1 DEF FeatureStep, FeatureLabels, TypeInv, TypeOK
    <3>8. QED
      BY <1>1, <3>7, FeatureStepType
  <2>3. QED
    BY <1>4, <2>1, <2>2 DEF put_single_moving_feature
<1>5. QED
  BY <1>3, <1>4

\* insert_feature, up to its commit, keeps the types.
LEMMA InsertFeatureTablesType ==
  ASSUME TypeInv, insert_feature_tables
  PROVE  TypeInv'
<1>1. pc = "feature" /\ pc # "idle"
  BY DEF insert_feature_tables
<1>2. CASE Raise(ExceptStatus(req.op, "DataError"))
  BY <1>1, <1>2, ExceptStatusType, AnswersWith, AnswersKeepType
<1>3. CASE /\ Execute(CreateTables(work, {"core", "features"}), "features")
           /\ UNCHANGED <<serial, code, loop>>
  <2>1. IsDatabase(CreateTables(work, {"core", "features"}))
    BY CreateTablesType DEF TypeInv, TypeOK, TableGroups
  <2>2. /\ work' = CreateTables(work, {"core", "features"}) /\ pc' = "features"
        /\ UNCHANGED <<disk, tx, req, before, serial, code, todo, made>>
    BY <1>3 DEF Execute, request, loop
  <2>3. FeatureStep
    BY <1>1, <2>1, <2>2
    DEF FeatureStep, FeatureLabels, FeatureOps, TypeInv, TypeOK, Control
  <2>4. QED
    BY <1>1, <2>3, FeatureStepType
<1>4. QED
  BY <1>2, <1>3 DEF insert_feature_tables

\* Its INSERT of the feature keeps the types.
LEMMA InsertFeatureRowStepType ==
  ASSUME TypeInv, insert_feature_row
  PROVE  TypeInv'
<1>1. pc = "insert feature" /\ pc # "idle"
  BY DEF insert_feature_row
<1>2. /\ todo \in Seq(Items) /\ todo # <<>> /\ req.op \in FeatureOps
      /\ req.cid \in CollectionIds /\ IsDatabase(work)
  BY <1>1, RequestType DEF TypeInv, TypeOK, Control, FeatureLabels, FeatureOps, Request
<1>3. Head(todo) \in Items /\ Tail(todo) \in Seq(Items)
  BY <1>2, HeadTailType
<1>4. PICK id \in Keys(Head(todo).id) :
        LET fresh == id \notin DOMAIN work.features
        IN  /\ work' = IF fresh THEN InsertFeatureRow(work, id, req.cid) ELSE work
            /\ AfterRow(id, fresh)
  BY DEF insert_feature_row
<1> DEFINE fresh == id \notin DOMAIN work.features
<1>6. id \in FeatureIds
  BY <1>3, <1>4 DEF Keys, Items
<1>7. IsDatabase(work')
  BY <1>2, <1>4, <1>6, InsertFeatureRowType
<1>8. UNCHANGED <<disk, tx, serial, req, before>>
  BY DEF insert_feature_row, request
<1>9. CASE pc' = "except" /\ code' = ExceptStatus(req.op, "other") /\ UNCHANGED loop
  <2>1. FeatureStep
    BY <1>7, <1>8, <1>9, ExceptStatusType
    DEF FeatureStep, FeatureLabels, loop, TypeInv, TypeOK
  <2>2. QED
    BY <1>1, <2>1, FeatureStepType
<1>10. CASE pc' = "insert geometry" /\ todo' = [todo EXCEPT ![1].id = id] /\ UNCHANGED <<code, made>>
  <2>1. todo' \in Seq(Items) /\ todo' # <<>> /\ Head(todo').id \in FeatureIds
    BY <1>2, <1>6, <1>10, IdentifiedType
  <2>2. UNCHANGED <<code, made>> /\ pc' = "insert geometry"
    BY <1>10
  <2>3. FeatureStep
    BY <1>2, <1>7, <1>8, <2>1, <2>2 DEF FeatureStep, FeatureLabels, TypeInv, TypeOK
  <2>4. QED
    BY <1>1, <2>3, FeatureStepType
<1>11. CASE /\ pc' = NextItem(Tail(todo), "feature") /\ todo' = Tail(todo)
            /\ made' \in {made, made \cup {id}} /\ UNCHANGED code
  <2>1. pc' \in {"finish", "feature"} /\ (pc' = "feature" => todo' # <<>>)
    BY <1>11, NextItemType
  <2>2. FeatureStep
    BY <1>2, <1>3, <1>6, <1>7, <1>8, <1>11, <2>1
    DEF FeatureStep, FeatureLabels, TypeInv, TypeOK
  <2>3. QED
    BY <1>1, <2>2, FeatureStepType
<1>12. QED
  BY <1>4, <1>9, <1>10, <1>11 DEF AfterRow

\* Its INSERT of the geometry keeps the types.
LEMMA InsertFeatureGeometryType ==
  ASSUME TypeInv, insert_feature_geometry
  PROVE  TypeInv'
<1>1. pc = "insert geometry" /\ pc # "idle"
  BY DEF insert_feature_geometry
<1>2. /\ todo \in Seq(Items) /\ todo # <<>> /\ req.op \in FeatureOps
      /\ Head(todo).id \in FeatureIds
      /\ req.cid \in CollectionIds /\ IsDatabase(work) /\ serial \in Nat
  BY <1>1, RequestType DEF TypeInv, TypeOK, Control, FeatureLabels, FeatureOps, Request
<1>3. Head(todo) \in Items /\ Tail(todo) \in Seq(Items)
  BY <1>2, HeadTailType
<1>4. CASE \E kind \in {"does not exist", "other"} : StatementFails(ExceptStatus(req.op, kind))
  BY <1>1, <1>4, ExceptStatusType, AnswersWith, AnswersKeepType
<1>5. CASE /\ Draw
           /\ Execute(InsertGeometryRow(work, serial', Head(todo).id, req.cid,
                                        Head(todo).traj, TRUE),
                      NextItem(Tail(todo), "feature"))
           /\ todo' = Tail(todo) /\ made' = made \cup {Head(todo).id}
           /\ UNCHANGED code
  <2>1. serial' \in Nat /\ Head(todo).traj \in Trajectories
    BY <1>2, <1>3, <1>5 DEF Draw, Items
  <2>2. IsDatabase(InsertGeometryRow(work, serial', Head(todo).id, req.cid,
                                     Head(todo).traj, TRUE))
    BY <1>2, <2>1, InsertGeometryRowType
  <2>3. /\ IsDatabase(work') /\ pc' = NextItem(Tail(todo), "feature")
        /\ UNCHANGED <<disk, tx, req, before>>
    BY <1>5, <2>2 DEF Execute, request
  <2>4. pc' \in {"finish", "feature"} /\ (pc' = "feature" => todo' # <<>>)
    BY <1>5, <2>3, NextItemType
  <2>5. todo' \in Seq(Items) /\ made' \subseteq FeatureIds /\ code' \in Nat
    BY <1>2, <1>3, <1>5 DEF TypeInv, TypeOK
  <2>6. FeatureStep
    BY <1>2, <2>1, <2>3, <2>4, <2>5 DEF FeatureStep, FeatureLabels
  <2>7. QED
    BY <1>1, <2>6, FeatureStepType
<1>6. QED
  BY <1>4, <1>5 DEF insert_feature_geometry

\* A step of the loop over observations leaves observations.
BatchStep ==
  /\ IsDatabase(work') /\ serial' \in Nat /\ code' \in Nat
  /\ todo' \in Seq(Items) /\ made' \subseteq FeatureIds
  /\ pc' \in BatchLabels \cup {"finish"}
  /\ pc' \in BatchLabels => todo' # <<>> /\ req.op = "post_bulk"
  /\ \A n \in DOMAIN todo' : Observation(todo'[n])
  /\ UNCHANGED <<disk, tx, req, before>>

\* It keeps the types.
LEMMA BatchStepType ==
  ASSUME TypeInv, pc # "idle", BatchStep
  PROVE  TypeInv'
<1>1. pc' \in Labels /\ pc' # "idle"
  BY LabelsType DEF BatchStep, BatchLabels
<1>2. TypeOK'
  BY <1>1 DEF BatchStep, TypeInv, TypeOK
<1>3. Control'
  BY DEF BatchStep, Control, FeatureLabels, BatchLabels, Observation
<1>4. QED
  BY <1>2, <1>3 DEF TypeInv

\* post_bulk, up to the loop, keeps the types.
LEMMA AcceptBatchType ==
  ASSUME TypeInv, post_bulk
  PROVE  TypeInv'
<1>1. pc # "idle" /\ req.op = "post_bulk"
  BY DEF At, post_bulk
<1>2. req \in Request /\ req \in Requests /\ req.items \in Seq(Items)
  BY <1>1, RequestType DEF TypeInv, Request
<1>3. \A n \in DOMAIN req.items : Observation(req.items[n])
  <2>1. \A n \in DOMAIN req.items :
          /\ req.items[n].id \in FeatureIds /\ req.items[n].kind = "ok"
          /\ \E t \in Instants : req.items[n].traj = <<{t}>>
    BY <1>1, <1>2, RequestsAssumption
  <2>2. \A t \in Instants : DOMAIN <<{t}>> = {1}
    OBVIOUS
  <2>3. QED
    BY <2>1, <2>2 DEF Observation
<1>4. CASE /\ todo' = req.items /\ made' = {}
           /\ code' = 201 /\ pc' = NextItem(req.items, "observe")
           /\ UNCHANGED <<store, request>>
  <2>1. pc' \in {"finish", "observe"} /\ (pc' = "observe" => todo' # <<>>)
    BY <1>4, NextItemType
  <2>2. BatchStep
    BY ZenonT(60), <1>1, <1>2, <1>3, <1>4, <2>1
    DEF BatchStep, BatchLabels, store, request, TypeInv, TypeOK
  <2>3. QED
    BY <1>1, <2>2, BatchStepType
<1>5. CASE Answer(404) \/ Answer(415)
  BY <1>1, <1>5, AnswersWith, AnswersKeepType
<1>6. CASE \/ Raise(ExceptStatus(req.op, "ValueError"))
           \/ Raise(ExceptStatus(req.op, "other"))
  BY <1>1, <1>6, ExceptStatusType, AnswersWith, AnswersKeepType
<1>7. QED
  BY <1>4, <1>5, <1>6 DEF post_bulk

\* What the steps of the loop find at the head of todo.
LEMMA HeadObservation ==
  ASSUME TypeInv, pc \in BatchLabels
  PROVE  /\ req.op = "post_bulk" /\ req.cid \in CollectionIds
         /\ todo \in Seq(Items) /\ todo # <<>> /\ Tail(todo) \in Seq(Items)
         /\ Head(todo).id \in FeatureIds /\ Head(todo).traj \in Trajectories
         /\ Head(todo).traj[1] \in SUBSET Instants
         /\ \A n \in DOMAIN Tail(todo) : Observation(Tail(todo)[n])
<1>1. pc # "idle"
  BY DEF BatchLabels
<1>2. req.op = "post_bulk" /\ todo # <<>> /\ \A n \in DOMAIN todo : Observation(todo[n])
  BY DEF TypeInv, Control
<1>3. todo \in Seq(Items) /\ req.cid \in CollectionIds
  BY <1>1, RequestType DEF TypeInv, TypeOK, Request
<1>4. /\ Head(todo) \in Items /\ Tail(todo) \in Seq(Items)
      /\ Head(todo) = todo[1] /\ 1 \in DOMAIN todo
  BY <1>2, <1>3, HeadTailType
<1>5. Observation(Head(todo))
  BY <1>2, <1>4
<1>6. \A n \in DOMAIN Tail(todo) : Tail(todo)[n] = todo[n + 1] /\ n + 1 \in DOMAIN todo
  BY <1>2, <1>3
<1>7. Head(todo).traj \in Seq(SUBSET Instants)
  BY <1>4 DEF Items, Trajectories
<1>8. Head(todo).traj[1] \in SUBSET Instants
  <2>1. DOMAIN Head(todo).traj = 1..Len(Head(todo).traj) /\ 1 \in DOMAIN Head(todo).traj
    BY <1>5, <1>7 DEF Observation
  <2>2. QED
    BY <1>7, <2>1
<1>9. QED
  BY <1>2, <1>3, <1>4, <1>5, <1>6, <1>7, <1>8 DEF Observation, Trajectories

\* append_observations keeps the types.
LEMMA AppendObservationsType ==
  ASSUME TypeInv, append_observations_row \/ append_observations_instant
  PROVE  TypeInv'
<1>1. pc \in BatchLabels /\ pc # "idle"
  BY DEF append_observations_row, append_observations_instant, BatchLabels
<1>2. IsDatabase(work) /\ serial \in Nat /\ code \in Nat /\ made \subseteq FeatureIds
  BY DEF TypeInv, TypeOK
<1> DEFINE id == Head(todo).id
           instant == Head(todo).traj[1]
           rows == GeometriesOf(work, id)
<1>3. CASE append_observations_row
  <2>1. IsDatabase(work') /\ made' \subseteq FeatureIds
    <3>1. CASE id \in DOMAIN work.features
      BY <1>2, <1>3, <3>1 DEF append_observations_row
    <3>2. CASE id \notin DOMAIN work.features
      <4>1. IsDatabase(InsertFeatureRow(work, id, req.cid))
        BY <1>1, <1>2, HeadObservation, InsertFeatureRowType
      <4>2. work' = InsertFeatureRow(work, id, req.cid) /\ made' = made \cup {id}
        BY <1>3, <3>2 DEF append_observations_row
      <4>3. QED
        BY <1>1, <1>2, <4>1, <4>2, HeadObservation
    <3>3. QED
      BY <3>1, <3>2
  <2>2. pc' = "append instant" /\ UNCHANGED <<disk, tx, serial, req, before, code, todo>>
    BY <1>3 DEF append_observations_row, request
  <2>3. BatchStep
    BY <1>1, <1>2, <2>1, <2>2 DEF BatchStep, BatchLabels, TypeInv, TypeOK, Control
  <2>4. QED
    BY <1>1, <2>3, BatchStepType
<1>4. CASE append_observations_instant
  <2>1. CASE /\ todo' = Tail(todo) /\ UNCHANGED <<code, made>>
             /\ serial' \in Nat
             /\ \E db : IsDatabase(db) /\ Execute(db, NextItem(Tail(todo), "observe"))
    <3>1. /\ IsDatabase(work') /\ pc' = NextItem(Tail(todo), "observe")
          /\ UNCHANGED <<disk, tx, req, before>>
      BY <2>1 DEF Execute, request
    <3>2. pc' \in {"finish", "observe"} /\ (pc' = "observe" => todo' # <<>>)
      BY <2>1, <3>1, NextItemType
    <3>3. BatchStep
      BY <1>1, <1>2, <2>1, <3>1, <3>2, HeadObservation DEF BatchStep, BatchLabels
    <3>4. QED
      BY <1>1, <3>3, BatchStepType
  <2>2. CASE /\ Execute(UpdateTrajectories(work,
                           [g \in rows |-> AppendInstant(work.geometries[g].traj, instant)]),
                         NextItem(Tail(todo), "observe"))
             /\ todo' = Tail(todo) /\ UNCHANGED <<serial, code, made>>
    <3> DEFINE new == [g \in rows |-> AppendInstant(work.geometries[g].traj, instant)]
    <3>1. \A g \in rows : work.geometries[g].traj \in Trajectories
      BY <1>2 DEF GeometriesOf, IsDatabase, IsTable, GeometryRow
    <3>2. instant \in SUBSET Instants
      BY <1>1, HeadObservation
    <3>3. \A g \in DOMAIN new : new[g] \in Trajectories
      BY <3>1, <3>2, AppendInstantType
    <3>4. IsDatabase(UpdateTrajectories(work, new))
      <4> HIDE DEF new
      <4>1. QED
        BY <1>2, <3>3, UpdateTrajectoriesType
    <3>5. QED
      BY <1>2, <2>1, <2>2, <3>4
  <2>3. CASE /\ Draw
             /\ Execute(InsertGeometryRow(work, serial', id, req.cid, Head(todo).traj, FALSE),
                        NextItem(Tail(todo), "observe"))
             /\ todo' = Tail(todo) /\ UNCHANGED <<code, made>>
    <3>1. serial' \in Nat
      BY <1>2, <2>3 DEF Draw
    <3>2. IsDatabase(InsertGeometryRow(work, serial', id, req.cid, Head(todo).traj, FALSE))
      BY <1>1, <1>2, <3>1, HeadObservation, InsertGeometryRowType
    <3>3. QED
      BY <2>1, <2>3, <3>1, <3>2
  <2>4. CASE StatementFails(ExceptStatus(req.op, "not increasing"))
    BY <1>1, <2>4, ExceptStatusType, AnswersWith, AnswersKeepType
  <2>5. QED
    BY <1>4, <2>2, <2>3, <2>4 DEF append_observations_instant
<1>5. QED
  BY <1>3, <1>4

-----------------------------------------------------------------------------
(* Every step.                                                             *)

\* Every step keeps the types.
LEMMA TypeStep == TypeInv /\ [Next]_vars => TypeInv'
<1> SUFFICES ASSUME TypeInv, [Next]_vars PROVE TypeInv'
  OBVIOUS
<1>1. CASE ReadBody \/ Read
  BY <1>1, ReadBodyType, ReadType
<1>2. CASE post_collections \/ post_collections_insert \/ put_collection \/ delete_collection
  BY <1>2, CollectionsType
<1>3. CASE \/ post_collection_items \/ put_single_moving_feature
           \/ delete_single_moving_feature
  BY <1>3, AcceptFeaturesType, DeleteFeatureType
<1>4. CASE insert_feature_tables \/ insert_feature_row \/ insert_feature_geometry
  BY <1>4, InsertFeatureTablesType, InsertFeatureRowStepType, InsertFeatureGeometryType
<1>5. CASE post_bulk \/ append_observations_row \/ append_observations_instant
  BY <1>5, AcceptBatchType, AppendObservationsType
<1>6. CASE post_tgsequence \/ delete_single_temporal_primitive_geo
  BY <1>6, TemporalGeometriesType
<1>7. CASE \/ NoSuchFeature \/ NoPropertyTables \/ post_tproperties
           \/ post_tproperties_values \/ post_temporal_property \/ delete_temporal_property
  BY <1>7, TemporalPropertiesType
<1>8. CASE \/ StatementError \/ Commit \/ Except \/ Respond
           \/ Receive \/ ClientGone \/ DatabaseRestart \/ Kill \/ Interrupt
  BY <1>8, SessionType
<1>9. CASE UNCHANGED vars
  <2>1. UNCHANGED <<disk, work, tx, serial, req, before, pc, code, todo, made>>
    BY <1>9 DEF vars, store, request, loop
  <2>2. QED
    BY <2>1 DEF TypeInv, TypeOK, Control
<1>10. QED
  BY <1>1, <1>2, <1>3, <1>4, <1>5, <1>6, <1>7, <1>8, <1>9
  DEF Next, ServerStep, Environment

\* TypeInv is an invariant: the variables keep their types, and the handlers
\* find in todo and in their body what they take from them unchecked.
THEOREM TypeInvariant == Spec => []TypeInv
  BY TypeInit, TypeStep, PTL DEF Spec

\* The variables keep their types, whatever clients send and whatever fails.
THEOREM TypeCorrect == Spec => []TypeOK
<1>1. TypeInv => TypeOK
  BY DEF TypeInv
<1>2. QED
  BY <1>1, TypeInvariant, PTL

-----------------------------------------------------------------------------
(* No uncommitted write outlives its request.  Why it holds: a handler     *)
(* that has written is on its way to a commit, or to an except clause that *)
(* rolls back, and the session is then usable, for losing it undoes the    *)
(* writes as well.                                                         *)

Uncommitted == {"tables", "features", "feature", "insert geometry", "property",
                "observe", "append instant", "finish", "except"}

PendingInv ==
  work # disk => /\ tx = "ok" /\ pc \in Uncommitted
                 /\ pc = "except" => req.op \in RollsBack

\* The handlers that can raise after a write roll back.
LEMMA LoopsRollBack == FeatureOps \cup {"post_bulk"} \subseteq RollsBack
  BY DEF FeatureOps, RollsBack, Writes

\* A step that leaves the store as it is, from a label where nothing is pending
\* or to the except clause of a handler that rolls back.
LEMMA QuietStep ==
  ASSUME PendingInv, UNCHANGED <<disk, work, tx>>,
         \/ pc \notin Uncommitted
         \/ pc' = "except" /\ req' = req /\ req.op \in RollsBack
  PROVE  PendingInv'
  BY DEF PendingInv, Uncommitted

\* A step that writes, on a usable session.
LEMMA WritingStep ==
  ASSUME PendingInv, tx' = "ok", pc' \in Uncommitted \ {"except"}
  PROVE  PendingInv'
  BY DEF PendingInv, Uncommitted

\* A step that leaves nothing uncommitted.
LEMMA UndoingStep ==
  ASSUME work' = disk'
  PROVE  PendingInv'
  BY DEF PendingInv

\* Every step keeps PendingInv.
LEMMA PendingStep == TypeInv /\ PendingInv /\ [Next]_vars => PendingInv'
<1> SUFFICES ASSUME TypeInv, PendingInv, [Next]_vars PROVE PendingInv'
  OBVIOUS
<1> USE DEF At, Handles
<1>1. ASSUME NEW status, pc \notin Uncommitted,
             Answer(status) \/ AnswerInExcept(status) \/ Raise(status)
      PROVE  PendingInv'
  BY <1>1, QuietStep DEF Answer, AnswerInExcept, Raise, store
<1>2. ASSUME NEW status, StatementFails(status)
      PROVE  PendingInv'
  BY <1>2, UndoingStep DEF StatementFails
<1>3. ASSUME NEW db, NEW l, Usable, Execute(db, l), l \in Uncommitted \ {"except"}
      PROVE  PendingInv'
  BY <1>3, WritingStep DEF Usable, Execute
<1>4. ASSUME NEW db, NEW status, Usable, ExecuteLast(db, status)
      PROVE  PendingInv'
  BY <1>3, <1>4 DEF ExecuteLast, Uncommitted
<1>5. "start" \notin Uncommitted /\ "check" \notin Uncommitted
      /\ "insert collection" \notin Uncommitted /\ "insert values" \notin Uncommitted
  BY DEF Uncommitted
<1>6. CASE ReadBody
  <2>1. CASE Goto("check")
    BY <1>5, <1>6, <2>1, QuietStep DEF ReadBody, Goto, store
  <2>2. CASE AnswerInExcept(400) \/ Answer(400) \/ Answer(501)
    BY ZenonT(60), <1>1, <1>5, <1>6, <2>2 DEF ReadBody
  <2>3. CASE \/ Raise(ExceptStatus(req.op, "other"))
             \/ Raise(ExceptStatus(req.op, "DataError"))
    BY <1>1, <1>5, <1>6, <2>3 DEF ReadBody
  <2>4. QED
    BY ZenonT(60), <1>6, <2>1, <2>2, <2>3 DEF ReadBody
<1>7. CASE Read
  BY ZenonT(60), <1>1, <1>2, <1>5, <1>7 DEF Read
<1>8. CASE post_collections \/ put_collection \/ delete_collection \/ post_collections_insert
  <2> pc \notin Uncommitted
    BY <1>5, <1>8
    DEF post_collections, put_collection, delete_collection, post_collections_insert
  <2>1. CASE Answer(404) \/ Answer(400) \/ Answer(409)
    BY <1>1, <2>1
  <2>2. CASE /\ Usable
             /\ \/ Execute(CreateTables(work, {"core"}), "tables")
                \/ ExecuteLast(PutCollectionRow(work, req.cid, req.title), 201)
                \/ ExecuteLast(PutCollectionRow(work, req.cid, req.title), 204)
                \/ ExecuteLast(DeleteCollectionRow(work, req.cid), 204)
    BY <1>3, <1>4, <2>2 DEF Uncommitted
  <2>3. QED
    BY ZenonT(60), <1>8, <2>1, <2>2
    DEF post_collections, put_collection, delete_collection, post_collections_insert
<1>9. CASE post_collection_items
  <2>1. CASE UNCHANGED <<store, request>>
    BY <1>5, <1>9, <2>1, QuietStep DEF post_collection_items, store
  <2>2. CASE \/ Raise(ExceptStatus(req.op, "does not exist"))
             \/ Raise(ExceptStatus(req.op, "DataError"))
    BY <1>1, <1>5, <1>9, <2>2 DEF post_collection_items
  <2>3. QED
    BY <1>9, <2>1, <2>2 DEF post_collection_items
<1>10. CASE put_single_moving_feature \/ delete_single_moving_feature
  <2>1. CASE Answer(404)
    BY <1>1, <1>5, <1>10, <2>1 DEF put_single_moving_feature, delete_single_moving_feature
  <2>2. CASE /\ Usable
             /\ \/ Execute(DeleteFeatures(work, {req.fid}), "feature")
                \/ ExecuteLast(work, 404)
                \/ ExecuteLast(DeleteFeatures(work, {req.fid}), 204)
    BY <1>3, <1>4, <2>2 DEF Uncommitted
  <2>3. QED
    BY <1>10, <2>1, <2>2 DEF put_single_moving_feature, delete_single_moving_feature
<1>11. CASE insert_feature_tables
  <2>1. CASE Raise(ExceptStatus(req.op, "DataError"))
    BY <1>11, <2>1, QuietStep, LoopsRollBack
    DEF insert_feature_tables, Raise, store, request, TypeInv, Control, FeatureLabels, FeatureOps
  <2>2. CASE Usable /\ Execute(CreateTables(work, {"core", "features"}), "features")
    BY <1>3, <2>2 DEF Uncommitted
  <2>3. QED
    BY <1>11, <2>1, <2>2 DEF insert_feature_tables
<1>12. CASE insert_feature_row
  <2>1. tx' = "ok" /\ req.op \in RollsBack /\ req' = req
    BY <1>12, LoopsRollBack
    DEF insert_feature_row, Usable, request, TypeInv, Control, FeatureLabels, FeatureOps
  <2>2. pc' \in Uncommitted
    BY <1>12, NextItemType DEF insert_feature_row, AfterRow, Uncommitted
  <2>3. QED
    BY <2>1, <2>2 DEF PendingInv
<1>13. CASE insert_feature_geometry
  <2>1. CASE \E kind \in {"does not exist", "other"} : StatementFails(ExceptStatus(req.op, kind))
    BY <1>2, <2>1
  <2>2. CASE \E db : Usable /\ Execute(db, NextItem(Tail(todo), "feature"))
    BY <1>3, <2>2, NextItemType DEF Uncommitted
  <2>3. QED
    BY <1>13, <2>1, <2>2 DEF insert_feature_geometry
<1>14. CASE post_bulk
  <2> pc \notin Uncommitted
    BY <1>5, <1>14 DEF post_bulk
  <2>1. CASE UNCHANGED <<store, request>>
    BY <2>1, QuietStep DEF store
  <2>2. CASE Answer(404) \/ Answer(415)
    BY <1>1, <2>2
  <2>3. CASE \/ Raise(ExceptStatus(req.op, "ValueError"))
             \/ Raise(ExceptStatus(req.op, "other"))
    BY <1>1, <2>3
  <2>4. QED
    BY <1>14, <2>1, <2>2, <2>3 DEF post_bulk
<1>15. CASE append_observations_row
  BY <1>15, WritingStep DEF append_observations_row, Usable, Uncommitted
<1>16. CASE append_observations_instant
  <2>1. CASE StatementFails(ExceptStatus(req.op, "not increasing"))
    BY <1>2, <2>1
  <2>2. CASE \E db : Usable /\ Execute(db, NextItem(Tail(todo), "observe"))
    BY <1>3, <2>2, NextItemType DEF Uncommitted
  <2>3. QED
    BY <1>16, <2>1, <2>2 DEF append_observations_instant
<1>17. CASE post_tgsequence \/ delete_single_temporal_primitive_geo
  <2>1. CASE Answer(404) \/ Answer(400) \/ Answer(409)
    BY ZenonT(60), <1>1, <1>5, <1>17, <2>1 DEF post_tgsequence, delete_single_temporal_primitive_geo
  <2>2. CASE StatementFails(500)
    BY <1>2, <2>2
  <2>3. CASE Usable /\ \E db : Execute(db, "finish") \/ ExecuteLast(db, 204)
    BY <1>3, <1>4, <2>3 DEF Uncommitted
  <2>4. CASE post_tgsequence
    BY ZenonT(60), <2>1, <2>2, <2>3, <2>4 DEF post_tgsequence
  <2>5. CASE delete_single_temporal_primitive_geo
    BY <2>1, <2>2, <2>3, <2>5 DEF delete_single_temporal_primitive_geo
  <2>6. QED
    BY <1>17, <2>4, <2>5
<1>18. CASE \/ NoSuchFeature \/ NoPropertyTables \/ post_tproperties
            \/ post_tproperties_values \/ post_temporal_property \/ delete_temporal_property
  <2>1. pc \notin Uncommitted /\ Usable
    BY <1>5, <1>18
    DEF NoSuchFeature, NoPropertyTables, post_tproperties, post_tproperties_values,
        post_temporal_property, delete_temporal_property
  <2>2. CASE Answer(404) \/ Answer(400) \/ Answer(409) \/ Raise(500)
    BY <1>1, <2>1, <2>2
  <2>3. CASE StatementFails(500)
    BY <1>2, <2>3
  <2>4. CASE \E db : Execute(db, "finish") \/ Execute(db, "property") \/ ExecuteLast(db, 204)
    BY <1>3, <1>4, <2>1, <2>4 DEF Uncommitted
  <2>5. CASE UNCHANGED store
    BY <2>1, <2>5, QuietStep DEF store
  <2>6. CASE NoSuchFeature \/ NoPropertyTables
    BY <2>2, <2>3, <2>6 DEF NoSuchFeature, NoPropertyTables
  <2>7. CASE post_tproperties
    BY <2>2, <2>4, <2>5, <2>7 DEF post_tproperties
  <2>8. CASE post_tproperties_values
    BY ZenonT(60), <2>2, <2>3, <2>4, <2>8 DEF post_tproperties_values
  <2>9. CASE post_temporal_property
    BY <2>2, <2>4, <2>9 DEF post_temporal_property
  <2>10. CASE delete_temporal_property
    BY <2>2, <2>4, <2>10 DEF delete_temporal_property
  <2>11. QED
    BY <1>18, <2>6, <2>7, <2>8, <2>9, <2>10
<1>19. CASE StatementError
  BY <1>2, <1>19 DEF StatementError
<1>20. CASE Commit
  BY <1>20, UndoingStep DEF Commit
<1>21. CASE Except
  BY <1>21
  DEF Except, Rollback, store, request, PendingInv, RollsBack, Leave, BareReads, GuardedReads,
      SilentReads, Writes
<1>22. CASE Respond \/ Receive \/ ClientGone
  <2>1. pc \notin Uncommitted
    BY <1>22 DEF Respond, Receive, ClientGone, Uncommitted
  <2>2. work = disk
    BY <2>1 DEF PendingInv
  <2>3. QED
    BY <1>22, <2>2, UndoingStep DEF Respond, Receive, ClientGone, Rollback, store
<1>23. CASE DatabaseRestart \/ Kill \/ Interrupt
  BY <1>23, UndoingStep DEF DatabaseRestart, Kill, Interrupt
<1>24. CASE UNCHANGED vars
  BY <1>24 DEF vars, store, request, loop, PendingInv
<1>25. QED
  BY <1>6, <1>7, <1>8, <1>9, <1>10, <1>11, <1>12, <1>13, <1>14, <1>15, <1>16, <1>17,
     <1>18, <1>19, <1>20, <1>21, <1>22, <1>23, <1>24
  DEF Next, ServerStep, Environment

\* While the server answers, waits or starts a request the session holds no
\* uncommitted write: none can be undone by a later request's rollback, or be
\* published by its commit, whatever was sent and whatever failed before.
THEOREM NothingLeftPending == Spec => []NothingPending
<1>1. Init => PendingInv
  BY DEF Init, PendingInv
<1>2. PendingInv => NothingPending
  BY DEF PendingInv, Uncommitted, NothingPending
<1>3. QED
  BY <1>1, <1>2, TypeInvariant, PendingStep, PTL DEF Spec

-----------------------------------------------------------------------------
(* A refusal leaves no trace.  Why it holds: the handlers concerned commit *)
(* once they have executed their last statement, and only the loss of the  *)
(* connection comes between that commit and the answer of success.  The    *)
(* commit of post_collections after the CREATE statements adds no row, and *)
(* delete_single_moving_feature commits before a 404, having deleted none. *)

CommitInTheMiddle == {"post_collection_items", "put_single_moving_feature",
                      "post_tproperties"}

Unchanged ==
  /\ Rows(disk) = Rows(before.db)
  /\ pc \in BatchLabels => code < 400
  /\ pc = "finish" => code < 400 \/ work = disk
  /\ pc = "tables" => Rows(work) = Rows(disk)

TraceInv ==
  /\ pc = "property" => req.op = "post_tproperties"
  /\ pc = "finish" => req.op \in Writes
  /\ pc # "idle" /\ req.op \notin CommitInTheMiddle =>
       \/ Unchanged
       \/ pc = "respond" /\ code < 400
       \/ pc \in {"finish", "except"} /\ tx = "closed" /\ req.op \in Writes

\* The loops over Features belong to handlers that are not concerned.
LEMMA FeatureOpsCommit == FeatureOps \subseteq CommitInTheMiddle
  BY DEF FeatureOps, CommitInTheMiddle

\* A step to an answer or to the except clause.
LEMMA TraceAnswers ==
  ASSUME TraceInv, pc \notin {"idle", "respond", "except"},
         NEW status,
         Answer(status) \/ AnswerInExcept(status) \/ Raise(status) \/ StatementFails(status),
         pc = "finish" => StatementFails(status)
  PROVE  TraceInv'
<1>1. /\ pc' \in {"respond", "respond in except", "except"}
      /\ UNCHANGED <<disk, req, before>>
      /\ tx = "closed" => tx' = "closed"
      /\ pc = "finish" => pc' = "except"
  BY DEF Answer, AnswerInExcept, Raise, StatementFails, store, request
<1>2. CASE req.op \in CommitInTheMiddle
  BY <1>1, <1>2 DEF TraceInv
<1>3. CASE req.op \notin CommitInTheMiddle
  <2>1. \/ Rows(disk) = Rows(before.db)
        \/ pc' = "except" /\ tx' = "closed" /\ req.op \in Writes
    BY <1>1, <1>3 DEF TraceInv, Unchanged
  <2>2. \/ Rows(disk') = Rows(before'.db)
        \/ pc' = "except" /\ tx' = "closed" /\ req'.op \in Writes
    BY <1>1, <2>1
  <2>3. QED
    BY ZenonT(60), <1>1, <2>2 DEF TraceInv, Unchanged, BatchLabels, Rows
<1>4. QED
  BY <1>2, <1>3

\* A step that executes statements on the way to success.
LEMMA TraceExecute ==
  ASSUME TraceInv, pc \in Executing, req.op \in Writes, UNCHANGED <<disk, req, before>>,
         pc' \notin {"idle", "tables", "property"},
         pc' \in BatchLabels \cup {"finish"} => code' < 400 \/ req.op \in CommitInTheMiddle
  PROVE  TraceInv'
<1>1. pc \notin {"idle", "respond", "finish", "except"}
  BY DEF Executing
<1>2. CASE req.op \in CommitInTheMiddle
  BY <1>2 DEF TraceInv
<1>3. CASE req.op \notin CommitInTheMiddle
  <2>1. Rows(disk) = Rows(before.db)
    BY <1>1, <1>3 DEF TraceInv, Unchanged
  <2>2. Rows(disk') = Rows(before'.db)
    BY <2>1
  <2>3. QED
    BY <1>3, <2>2 DEF TraceInv, Unchanged, Rows, BatchLabels
<1>4. QED
  BY <1>2, <1>3

\* A step that leaves the handler.
LEMMA TraceLeaves ==
  ASSUME pc' = "idle"
  PROVE  TraceInv'
  BY DEF TraceInv

\* The steps before the first write keep the committed rows, and know it.
LEMMA TraceStart ==
  ASSUME PendingInv, pc \in {"idle", "start", "check"}
  PROVE  work = disk
  BY DEF PendingInv, Uncommitted

\* Creating tables adds no row.
LEMMA CreateTablesRows ==
  ASSUME NEW db, IsDatabase(db), NEW group
  PROVE  Rows(CreateTables(db, group)) = Rows(db)
  BY DEF Rows, CreateTables, IsDatabase

\* The labels before the other commits belong to them too.
LEMMA CommitsInTheMiddle ==
  ASSUME TypeInv, TraceInv, pc \in {"features", "property"}
  PROVE  req.op \in CommitInTheMiddle
<1>1. CASE pc = "features"
  BY <1>1, FeatureOpsCommit DEF TypeInv, Control, FeatureLabels, FeatureOps
<1>2. CASE pc = "property"
  BY <1>2 DEF TraceInv, CommitInTheMiddle
<1>3. QED
  BY <1>1, <1>2

\* Every step keeps TraceInv.
LEMMA TraceStep == TypeInv /\ PendingInv /\ TraceInv /\ [Next]_vars => TraceInv'
<1> SUFFICES ASSUME TypeInv, PendingInv, TraceInv, [Next]_vars PROVE TraceInv'
  OBVIOUS
<1> USE DEF At, Handles
<1>1. ASSUME NEW status, pc \notin {"idle", "respond", "except", "finish"},
             Answer(status) \/ AnswerInExcept(status) \/ Raise(status) \/ StatementFails(status)
      PROVE  TraceInv'
  BY <1>1, TraceAnswers
<1>2. ASSUME NEW db, NEW l, pc \in Executing, req.op \in Writes, Execute(db, l),
             l \notin {"idle", "tables", "property"},
             l \in BatchLabels \cup {"finish"} => code' < 400 \/ req.op \in CommitInTheMiddle
      PROVE  TraceInv'
  BY <1>2, TraceExecute DEF Execute, request
<1>3. ASSUME NEW db, NEW status, status < 400, pc \in Executing, req.op \in Writes,
             ExecuteLast(db, status)
      PROVE  TraceInv'
  BY <1>2, <1>3 DEF ExecuteLast
<1>4. pc \in {"check", "insert collection", "insert values", "feature", "insert feature",
             "insert geometry", "observe", "append instant"} => pc \in Executing
  BY DEF Executing
<1>5. pc \in Executing => pc \notin {"idle", "respond", "except", "finish"}
  BY DEF Executing
<1>6. CASE ReadBody
  <2> pc = "start"
    BY <1>6 DEF ReadBody
  <2>1. CASE Goto("check")
    <3>1. pc' = "check" /\ UNCHANGED <<disk, req, before>>
      BY <2>1 DEF Goto, store, request
    <3>2. req.op \notin CommitInTheMiddle => Rows(disk) = Rows(before.db)
      BY DEF TraceInv, Unchanged
    <3>3. QED
      BY <3>1, <3>2 DEF TraceInv, Unchanged, Rows, BatchLabels
  <2>2. CASE AnswerInExcept(400) \/ Answer(400) \/ Answer(501)
    BY <1>1, <2>2
  <2>3. CASE \/ Raise(ExceptStatus(req.op, "other"))
             \/ Raise(ExceptStatus(req.op, "DataError"))
    BY <1>1, <2>3
  <2>4. QED
    BY ZenonT(60), <1>6, <2>1, <2>2, <2>3 DEF ReadBody
<1>7. CASE Read
  <2>1. pc = "check"
    BY <1>7 DEF Read
  <2>2. CASE Answer(404) \/ Answer(400) \/ Answer(200) \/ Raise(500) \/ StatementFails(500)
    BY <1>1, <2>1, <2>2
  <2>3. QED
    BY <1>7, <2>2 DEF Read
<1>8. CASE post_collections
  <2>1. /\ work' = CreateTables(work, {"core"}) /\ pc' = "tables"
        /\ UNCHANGED <<disk, tx, req, before>> /\ pc = "check" /\ req.op = "post_collections"
    BY <1>8 DEF post_collections, Execute, request
  <2>2. Rows(work') = Rows(disk) /\ Rows(disk) = Rows(before.db)
    <3>1. work = disk /\ IsDatabase(work)
      BY <2>1, TraceStart DEF TypeInv, TypeOK
    <3>2. Rows(work') = Rows(disk)
      BY <2>1, <3>1, CreateTablesRows
    <3>3. QED
      BY <2>1, <3>2 DEF TraceInv, Unchanged, CommitInTheMiddle
  <2>3. QED
    BY <2>1, <2>2 DEF TraceInv, Unchanged, BatchLabels, Rows
<1>9. CASE put_collection \/ delete_collection \/ post_collections_insert
  <2> pc \in Executing /\ req.op \in Writes
    BY <1>4, <1>9 DEF Writes, put_collection, delete_collection, post_collections_insert
  <2>1. CASE Answer(404) \/ Answer(400) \/ Answer(409)
    BY <1>1, <1>5, <2>1
  <2>2. CASE \/ ExecuteLast(PutCollectionRow(work, req.cid, req.title), 201)
             \/ ExecuteLast(PutCollectionRow(work, req.cid, req.title), 204)
             \/ ExecuteLast(DeleteCollectionRow(work, req.cid), 204)
    BY <1>3, <2>2
  <2>3. QED
    BY ZenonT(60), <1>9, <2>1, <2>2 DEF put_collection, delete_collection, post_collections_insert
<1>10. CASE \/ post_collection_items \/ put_single_moving_feature
            \/ insert_feature_tables \/ insert_feature_row \/ insert_feature_geometry
  <2>1. req.op \in CommitInTheMiddle /\ req.op \in Writes
    BY <1>10, FeatureOpsCommit
    DEF Writes, post_collection_items, put_single_moving_feature, insert_feature_tables,
        insert_feature_row, insert_feature_geometry, TypeInv, Control, FeatureLabels,
        FeatureOps
  <2>2. UNCHANGED req
    BY <1>10
    DEF post_collection_items, put_single_moving_feature, insert_feature_tables,
        insert_feature_row, insert_feature_geometry, Raise, StatementFails, Answer,
        Execute, request
  <2>3. pc' # "property"
    <3>1. CASE post_collection_items
      <4>1. pc' = "except" \/ pc' = NextItem(req.items, "feature")
        BY <3>1 DEF post_collection_items, Raise
      <4>2. QED
        BY <4>1, NextItemType
    <3>2. CASE put_single_moving_feature
      BY <3>2 DEF put_single_moving_feature, Answer, Execute
    <3>3. CASE insert_feature_tables
      BY <3>3 DEF insert_feature_tables, Raise, Execute
    <3>4. CASE insert_feature_row
      <4>1. PICK id, fresh : AfterRow(id, fresh)
        BY <3>4 DEF insert_feature_row
      <4>2. QED
        BY <4>1, NextItemType DEF AfterRow
    <3>5. CASE insert_feature_geometry
      BY <3>5, NextItemType DEF insert_feature_geometry, StatementFails, Execute
    <3>6. QED
      BY <1>10, <3>1, <3>2, <3>3, <3>4, <3>5
  <2>4. QED
    BY <2>1, <2>2, <2>3 DEF TraceInv
<1>11. CASE delete_single_moving_feature
  <2> pc = "check" /\ pc \in Executing /\ req.op \in Writes
    BY <1>4, <1>11 DEF Writes, delete_single_moving_feature
  <2>1. CASE Answer(404)
    BY <1>1, <1>5, <2>1
  <2>2. CASE ExecuteLast(DeleteFeatures(work, {req.fid}), 204)
    BY <1>3, <2>2
  <2>3. CASE ExecuteLast(work, 404)
    <3>1. work' = disk' /\ pc' = "finish" /\ UNCHANGED <<disk, req, before>>
      BY <2>3, TraceStart DEF ExecuteLast, Execute, request
    <3>2. req.op \notin CommitInTheMiddle => Rows(disk) = Rows(before.db)
      BY DEF TraceInv, Unchanged
    <3>3. QED
      BY <3>1, <3>2 DEF TraceInv, Unchanged, BatchLabels, Rows
  <2>4. QED
    BY <1>11, <2>1, <2>2, <2>3 DEF delete_single_moving_feature
<1>12. CASE post_bulk
  <2> pc = "check" /\ pc \in Executing /\ req.op \in Writes
    BY <1>4, <1>12 DEF Writes, post_bulk
  <2>1. CASE code' = 201 /\ pc' = NextItem(req.items, "observe") /\ UNCHANGED <<store, request>>
    <3>1. pc' \in {"finish", "observe"}
      BY <2>1, NextItemType
    <3>2. QED
      BY <2>1, <3>1, TraceExecute DEF store, request
  <2>2. CASE Answer(404) \/ Answer(415)
    BY <1>1, <2>2
  <2>3. CASE \/ Raise(ExceptStatus(req.op, "ValueError"))
             \/ Raise(ExceptStatus(req.op, "other"))
    BY <1>1, <2>3
  <2>4. QED
    BY <1>12, <2>1, <2>2, <2>3 DEF post_bulk
<1>13. CASE append_observations_row \/ append_observations_instant
  <2>1. pc \in Executing /\ pc \in BatchLabels /\ req.op = "post_bulk" /\ req.op \in Writes
    BY <1>4, <1>13
    DEF Writes, append_observations_row, append_observations_instant, BatchLabels, TypeInv, Control
  <2>2. code < 400
    BY <2>1 DEF TraceInv, Unchanged, BatchLabels, CommitInTheMiddle
  <2>3. CASE append_observations_row
    <3>1. pc' = "append instant" /\ UNCHANGED <<disk, req, before, code>>
      BY <2>3 DEF append_observations_row, request
    <3>2. QED
      BY <2>1, <2>2, <3>1, TraceExecute
  <2>4. CASE append_observations_instant
    <3>1. CASE StatementFails(ExceptStatus(req.op, "not increasing"))
      BY <1>1, <1>5, <2>1, <3>1
    <3>2. CASE code' = code /\ \E db : Execute(db, NextItem(Tail(todo), "observe"))
      BY <1>2, <2>1, <2>2, <3>2, NextItemType
    <3>3. QED
      BY <2>4, <3>1, <3>2 DEF append_observations_instant
  <2>5. QED
    BY <1>13, <2>3, <2>4
<1>14. CASE post_tgsequence \/ delete_single_temporal_primitive_geo
  <2> pc \in Executing /\ req.op \in Writes
    BY <1>4, <1>14 DEF Writes, post_tgsequence, delete_single_temporal_primitive_geo
  <2>1. CASE Answer(404) \/ Answer(400) \/ Answer(409) \/ StatementFails(500)
    BY <1>1, <1>5, <2>1
  <2>2. CASE \E db : Execute(db, "finish") /\ code' = 201
    BY <1>2, <2>2
  <2>3. CASE \E db : ExecuteLast(db, 204)
    BY <1>3, <2>3
  <2>4. CASE post_tgsequence
    BY ZenonT(60), <2>1, <2>2, <2>4 DEF post_tgsequence
  <2>5. CASE delete_single_temporal_primitive_geo
    BY <2>1, <2>3, <2>5 DEF delete_single_temporal_primitive_geo
  <2>6. QED
    BY <1>14, <2>4, <2>5
<1>15. CASE post_tproperties \/ post_tproperties_values
  <2>1. req.op = "post_tproperties"
    BY <1>15 DEF post_tproperties, post_tproperties_values
  <2>2. pc' = "idle" \/ UNCHANGED req
    <3>1. CASE post_tproperties
      BY <3>1 DEF post_tproperties, Leave, Answer, Raise, Execute, request
    <3>2. CASE post_tproperties_values
      BY <3>2 DEF post_tproperties_values, Raise, StatementFails, Execute, request
    <3>3. QED
      BY <1>15, <3>1, <3>2
  <2>3. QED
    BY <2>1, <2>2 DEF TraceInv, CommitInTheMiddle, Writes
<1>16. CASE \/ NoSuchFeature \/ NoPropertyTables
            \/ post_temporal_property \/ delete_temporal_property
  <2> pc \in Executing /\ req.op \in Writes
    BY <1>4, <1>16
    DEF Writes, NoSuchFeature, NoPropertyTables, post_temporal_property, delete_temporal_property
  <2>1. CASE Answer(404) \/ Answer(400) \/ Raise(500) \/ StatementFails(500)
    BY <1>1, <1>5, <2>1
  <2>2. CASE \E db : Execute(db, "finish") /\ code' = 201
    BY <1>2, <2>2
  <2>3. CASE ExecuteLast(DeleteProperties(work, Named), 204)
    BY <1>3, <2>3
  <2>4. CASE NoSuchFeature \/ NoPropertyTables
    BY <2>1, <2>4 DEF NoSuchFeature, NoPropertyTables
  <2>5. CASE post_temporal_property
    BY <2>1, <2>2, <2>5 DEF post_temporal_property
  <2>6. CASE delete_temporal_property
    BY <2>1, <2>3, <2>6 DEF delete_temporal_property
  <2>7. QED
    BY <1>16, <2>4, <2>5, <2>6
<1>17. CASE StatementError
  <2>1. pc \in Executing \cup DOMAIN AfterCommit
    BY <1>17 DEF StatementError
  <2>2. pc \notin {"idle", "respond", "except"}
    BY <2>1, LabelsType DEF Executing
  <2>3. PICK kind \in {"does not exist", "other"} : StatementFails(ExceptStatus(req.op, kind))
    BY <1>17 DEF StatementError
  <2>4. QED
    BY <2>2, <2>3, TraceAnswers
<1>18. CASE Commit
  <2>1. /\ pc \in {"tables", "features", "property", "finish"} /\ tx = "ok"
        /\ disk' = work /\ pc' = AfterCommit[pc]
        /\ UNCHANGED <<work, tx, req, before, code>>
    BY <1>18, LabelsType DEF Commit, request
  <2>2. CASE pc = "tables"
    <3>1. pc' = "insert collection"
      BY <2>1, <2>2 DEF AfterCommit
    <3>2. req.op \notin CommitInTheMiddle => Rows(work) = Rows(before.db)
      BY <2>2 DEF TraceInv, Unchanged
    <3>3. req'.op \notin CommitInTheMiddle => Rows(disk') = Rows(before'.db)
      BY <2>1, <3>2
    <3>4. QED
      BY <3>1, <3>3 DEF TraceInv, Unchanged, BatchLabels, Rows
  <2>3. CASE pc \in {"features", "property"}
    <3>1. pc' \notin {"property", "finish"} /\ req' = req
      BY <2>1, LabelsType
    <3>2. req.op \in CommitInTheMiddle
      BY <2>3, CommitsInTheMiddle
    <3>3. QED
      BY <3>1, <3>2 DEF TraceInv
  <2>4. CASE pc = "finish"
    <3>1. pc' = "respond"
      BY <2>1, <2>4 DEF AfterCommit
    <3>2. req.op \notin CommitInTheMiddle => code < 400 \/ Rows(work) = Rows(before.db)
      BY <2>1, <2>4 DEF TraceInv, Unchanged
    <3>3. req'.op \notin CommitInTheMiddle => code' < 400 \/ Rows(disk') = Rows(before'.db)
      BY <2>1, <3>2
    <3>4. QED
      BY <3>1, <3>3 DEF TraceInv, Unchanged, BatchLabels, Rows
  <2>5. QED
    BY <2>1, <2>2, <2>3, <2>4
<1>19. CASE Except
  <2>1. CASE Leave
    BY <2>1, TraceLeaves DEF Leave
  <2>2. CASE ~Leave
    <3>1. /\ pc = "except" /\ pc' = "respond in except"
          /\ UNCHANGED <<disk, req, before>>
      BY <1>19, <2>2 DEF Except, Rollback, store, request
    <3>2. CASE tx = "closed"
      <4>1. req.op \in SilentReads
        BY <1>19, <2>2, <3>2 DEF Except
      <4>2. req.op \notin Writes
        BY <4>1 DEF SilentReads, Writes
      <4>3. req.op \notin CommitInTheMiddle => Rows(disk) = Rows(before.db)
        BY <3>1, <4>2 DEF TraceInv, Unchanged
      <4>4. req'.op \notin CommitInTheMiddle => Rows(disk') = Rows(before'.db)
        BY <3>1, <4>3
      <4>5. QED
        BY <3>1, <4>4 DEF TraceInv, Unchanged, BatchLabels, Rows
    <3>3. CASE tx # "closed"
      <4>1. req.op \notin CommitInTheMiddle => Rows(disk) = Rows(before.db)
        BY <3>1, <3>3 DEF TraceInv, Unchanged
      <4>2. req'.op \notin CommitInTheMiddle => Rows(disk') = Rows(before'.db)
        BY <3>1, <4>1
      <4>3. QED
        BY <3>1, <4>2 DEF TraceInv, Unchanged, BatchLabels, Rows
    <3>4. QED
      BY <3>2, <3>3
  <2>3. QED
    BY <2>1, <2>2
<1>20. CASE Respond \/ ClientGone \/ Kill \/ Interrupt
  BY <1>20, TraceLeaves DEF Respond, ClientGone, Kill, Interrupt, Leave
<1>21. CASE Receive
  <2>1. pc' = "start" /\ before'.db = disk /\ disk' = disk
    BY <1>21 DEF Receive, store
  <2>2. QED
    BY <2>1 DEF TraceInv, Unchanged, Rows, BatchLabels
<1>22. CASE DatabaseRestart
  <2>1. tx' = "closed" /\ work' = disk' /\ UNCHANGED <<pc, req, before, code>>
    BY <1>22 DEF DatabaseRestart, request
  <2>2. disk' = disk \/ (pc \in DOMAIN AfterCommit /\ disk' = work)
    BY <1>22 DEF DatabaseRestart
  <2>3. CASE disk' = disk
    <3>1. Rows(disk') = Rows(disk) /\ Rows(work') = Rows(disk')
      BY <2>1, <2>3
    <3>2. QED
      BY <2>1, <2>3, <3>1 DEF TraceInv, Unchanged
  <2>4. CASE pc = "tables" /\ disk' = work
    <3>1. req.op \notin CommitInTheMiddle => Rows(work) = Rows(before.db)
      BY <2>4 DEF TraceInv, Unchanged
    <3>2. req'.op \notin CommitInTheMiddle => Rows(disk') = Rows(before'.db)
      BY <2>1, <2>4, <3>1
    <3>3. QED
      BY <2>1, <2>4, <3>2 DEF TraceInv, Unchanged, BatchLabels
  <2>5. CASE pc \in {"features", "property"}
    BY <2>1, <2>5, CommitsInTheMiddle DEF TraceInv
  <2>6. CASE pc = "finish"
    BY <2>1, <2>6 DEF TraceInv
  <2>7. QED
    BY <2>2, <2>3, <2>4, <2>5, <2>6, LabelsType
<1>23. CASE UNCHANGED vars
  BY <1>23 DEF vars, store, request, loop, TraceInv, Unchanged, Rows
<1>24. QED
  BY <1>6, <1>7, <1>8, <1>9, <1>10, <1>11, <1>12, <1>13, <1>14, <1>15, <1>16, <1>17,
     <1>18, <1>19, <1>20, <1>21, <1>22, <1>23
  DEF Next, ServerStep, Environment

\* A request that is refused left the committed rows as it found them, the three
\* handlers that commit in their middle excepted, for every set of requests and
\* identifiers and whatever else fails.
THEOREM RefusalsLeaveNoTrace == Spec => []RefusedLeavesNoTrace
<1>1. Init => TraceInv
  BY DEF Init, TraceInv
<1>2. TypeInv /\ TraceInv => RefusedLeavesNoTrace
  <2> SUFFICES ASSUME TypeInv, TraceInv, Refused, req.op \notin CommitInTheMiddle
               PROVE  Rows(disk) = Rows(before.db)
    BY DEF RefusedLeavesNoTrace, CommitInTheMiddle
  <2>1. code \in Nat
    BY DEF TypeInv, TypeOK
  <2>2. pc \in {"respond", "respond in except"} /\ ~(code < 400)
    <3>1. code >= 400
      BY DEF Refused
    <3>2. ~(code < 400)
      BY <2>1, <3>1
    <3>3. pc \in {"respond", "respond in except"}
      BY DEF Refused, Answering
    <3>4. QED
      BY <3>2, <3>3
  <2>3. pc \notin {"idle", "finish", "except"}
    BY <2>2
  <2>4. Unchanged
    BY <2>2, <2>3 DEF TraceInv
  <2>5. QED
    BY <2>4 DEF Unchanged
<1>3. Init => PendingInv
  BY DEF Init, PendingInv
<1>4. QED
  BY <1>1, <1>2, <1>3, TypeInvariant, PendingStep, TraceStep, PTL DEF Spec

-----------------------------------------------------------------------------
(* The request of a step.                                                  *)

\* A step keeps the request, ends it, or receives one.
LEMMA RequestStep ==
  ASSUME [Next]_vars
  PROVE  \/ UNCHANGED <<req, before>>
         \/ req' = NoRequest /\ pc' = "idle"
         \/ pc = "idle"
<1> USE DEF request, At, Handles
<1>1. ASSUME NEW status,
             Answer(status) \/ AnswerInExcept(status) \/ Raise(status) \/ StatementFails(status)
      PROVE  UNCHANGED <<req, before>>
  BY <1>1 DEF Answer, AnswerInExcept, Raise, StatementFails
<1>2. ASSUME NEW db, NEW l, Execute(db, l) PROVE UNCHANGED <<req, before>>
  BY <1>2 DEF Execute
<1>3. ASSUME NEW db, NEW status, ExecuteLast(db, status) PROVE UNCHANGED <<req, before>>
  BY <1>2, <1>3 DEF ExecuteLast
<1>4. ASSUME Leave PROVE req' = NoRequest /\ pc' = "idle"
  BY <1>4 DEF Leave
<1>5. CASE ReadBody \/ Read \/ StatementError
  <2>1. CASE ReadBody
    BY ZenonT(60), <1>1, <2>1 DEF ReadBody, Goto
  <2>2. CASE Read
    BY <1>1, <2>2 DEF Read
  <2>3. CASE StatementError
    BY <1>1, <2>3 DEF StatementError
  <2>4. QED
    BY <1>5, <2>1, <2>2, <2>3
<1>6. CASE post_collections \/ post_collections_insert \/ put_collection \/ delete_collection
  BY ZenonT(60), <1>1, <1>2, <1>3, <1>6
  DEF post_collections, post_collections_insert, put_collection, delete_collection
<1>7. CASE post_collection_items \/ put_single_moving_feature \/ delete_single_moving_feature
  <2>1. CASE post_collection_items
    BY <1>1, <2>1 DEF post_collection_items
  <2>2. CASE put_single_moving_feature
    BY <1>1, <1>2, <2>2 DEF put_single_moving_feature
  <2>3. CASE delete_single_moving_feature
    BY <1>1, <1>3, <2>3 DEF delete_single_moving_feature
  <2>4. QED
    BY <1>7, <2>1, <2>2, <2>3
<1>8. CASE insert_feature_tables \/ insert_feature_row \/ insert_feature_geometry
  BY <1>1, <1>2, <1>8
  DEF insert_feature_tables, insert_feature_row, insert_feature_geometry
<1>9. CASE post_bulk \/ append_observations_row \/ append_observations_instant
  BY <1>1, <1>2, <1>9 DEF post_bulk, append_observations_row, append_observations_instant
<1>10. CASE post_tgsequence \/ delete_single_temporal_primitive_geo
  BY ZenonT(60), <1>1, <1>2, <1>3, <1>10 DEF post_tgsequence, delete_single_temporal_primitive_geo
<1>11. CASE NoSuchFeature \/ NoPropertyTables \/ post_tproperties \/ post_tproperties_values
  <2>1. CASE NoSuchFeature \/ NoPropertyTables
    BY <1>1, <2>1 DEF NoSuchFeature, NoPropertyTables
  <2>2. CASE post_tproperties
    BY <1>1, <1>2, <1>4, <2>2 DEF post_tproperties
  <2>3. CASE post_tproperties_values
    BY ZenonT(60), <1>1, <1>2, <2>3 DEF post_tproperties_values
  <2>4. QED
    BY <1>11, <2>1, <2>2, <2>3
<1>12. CASE post_temporal_property \/ delete_temporal_property
  BY <1>1, <1>2, <1>3, <1>12 DEF post_temporal_property, delete_temporal_property
<1>13. CASE Commit \/ Except \/ Respond
  BY <1>4, <1>13 DEF Commit, Except, Respond
<1>14. CASE Environment \/ UNCHANGED vars
  BY <1>4, <1>14 DEF Environment, Receive, ClientGone, DatabaseRestart, Kill, Interrupt, vars
<1>15. QED
  BY <1>5, <1>6, <1>7, <1>8, <1>9, <1>10, <1>11, <1>12, <1>13, <1>14 DEF Next, ServerStep

-----------------------------------------------------------------------------
(* Aborted transactions.  A statement that fails sends its handler to the  *)
(* except clause; what the clause does not roll back the next request      *)
(* meets.                                                                  *)

\* What can happen once a handler has run its try block.
Epilogue ==
  Except \/ Respond \/ ClientGone \/ Receive \/ DatabaseRestart \/ Kill \/ Interrupt
  \/ UNCHANGED vars

\* Nothing else can, but for reading the body first.
LEMMA OuterSteps ==
  ASSUME pc \in {"idle", "start", "except", "respond", "respond in except"}, [Next]_vars
  PROVE  ReadBody \/ Epilogue
<1> USE DEF At, Handles
<1>1. ~Read /\ ~StatementError /\ ~Commit
  BY LabelsType DEF Read, StatementError, Commit, Executing
<1>2. /\ ~post_collections /\ ~post_collections_insert /\ ~put_collection /\ ~delete_collection
      /\ ~post_collection_items /\ ~put_single_moving_feature /\ ~delete_single_moving_feature
  BY DEF post_collections, post_collections_insert, put_collection, delete_collection,
         post_collection_items, put_single_moving_feature, delete_single_moving_feature
<1>3. /\ ~insert_feature_tables /\ ~insert_feature_row /\ ~insert_feature_geometry
      /\ ~post_bulk /\ ~append_observations_row /\ ~append_observations_instant
  BY DEF insert_feature_tables, insert_feature_row, insert_feature_geometry,
         post_bulk, append_observations_row, append_observations_instant
<1>4. /\ ~post_tgsequence /\ ~delete_single_temporal_primitive_geo /\ ~NoSuchFeature
      /\ ~NoPropertyTables /\ ~post_tproperties /\ ~post_tproperties_values
      /\ ~post_temporal_property /\ ~delete_temporal_property
  BY ZenonT(60) DEF post_tgsequence, delete_single_temporal_primitive_geo, NoSuchFeature, NoPropertyTables,
         post_tproperties, post_tproperties_values, post_temporal_property,
         delete_temporal_property
<1>5. QED
  BY <1>1, <1>2, <1>3, <1>4 DEF Next, ServerStep, Environment, Epilogue

\* After an answer a request only ends.
LEMMA EpilogueSteps ==
  ASSUME pc \in {"idle", "except", "respond", "respond in except"}, [Next]_vars
  PROVE  Epilogue
  BY OuterSteps DEF ReadBody

\* get_acceleration answers before it reaches any statement.
Outside == pc # "idle" /\ req.op = "get_acceleration" => pc \in {"start", "respond"}


\* ... and it has none.
LEMMA OutsideStep == Outside /\ [Next]_vars => Outside'
<1> SUFFICES ASSUME Outside, [Next]_vars
             PROVE  Outside'
  OBVIOUS
<1>1. CASE pc = "idle"
  <2>1. Epilogue
    BY <1>1, EpilogueSteps
  <2>2. QED
    BY <1>1, <2>1
    DEF Epilogue, Except, Respond, ClientGone, Receive, DatabaseRestart, Kill, Interrupt, vars,
        Leave, Outside, request
<1>2. CASE pc # "idle" /\ req.op = "get_acceleration"
  <2>1. pc \in {"start", "respond"}
    BY <1>2 DEF Outside
  <2>2. ASSUME ReadBody
        PROVE  pc' = "respond"
    BY <1>2, <2>2
    DEF ReadBody, Answer, DecodeErrorAnswered, DecodeErrorRaised
  <2>3. ASSUME Epilogue
        PROVE  pc' \in {pc, "idle"}
    BY <2>1, <2>3
    DEF Epilogue, Except, Respond, ClientGone, Receive, DatabaseRestart, Kill, Interrupt, vars,
        Leave, request
  <2>4. QED
    BY <2>1, <2>2, <2>3, OuterSteps DEF Outside
<1>3. CASE pc # "idle" /\ req.op # "get_acceleration"
  <2>1. req' = req \/ pc' = "idle"
    BY <1>3, RequestStep
  <2>2. QED
    BY <1>3, <2>1 DEF Outside
<1>4. QED
  BY <1>1, <1>2, <1>3

\* A transaction is aborted on the way to the except clause only.
LEMMA Aborts ==
  ASSUME [Next]_vars, tx' = "inerror", tx # "inerror"
  PROVE  pc' = "except" /\ before' = before /\ req' = req
<1> USE DEF At, Handles, request, store
<1>1. ASSUME NEW status,
             Answer(status) \/ AnswerInExcept(status) \/ Raise(status) \/ StatementFails(status)
      PROVE  pc' = "except" /\ before' = before /\ req' = req
  BY <1>1 DEF Answer, AnswerInExcept, Raise, StatementFails
<1>2. ~UNCHANGED tx
  OBVIOUS
<1>3. ASSUME NEW db, NEW l, Execute(db, l) PROVE FALSE
  BY <1>2, <1>3 DEF Execute
<1>4. ASSUME NEW db, NEW status, ExecuteLast(db, status) PROVE FALSE
  BY <1>3, <1>4 DEF ExecuteLast
<1>5. CASE ReadBody \/ Read \/ StatementError
  <2>1. CASE ReadBody
    BY ZenonT(60), <1>1, <1>2, <2>1 DEF ReadBody, Goto
  <2>2. CASE Read
    BY <1>1, <2>2 DEF Read
  <2>3. CASE StatementError
    BY <1>1, <2>3 DEF StatementError
  <2>4. QED
    BY <1>5, <2>1, <2>2, <2>3
<1>6. CASE post_collections \/ post_collections_insert \/ put_collection \/ delete_collection
  BY ZenonT(60), <1>1, <1>3, <1>4, <1>6
  DEF post_collections, post_collections_insert, put_collection, delete_collection
<1>7. CASE post_collection_items \/ put_single_moving_feature \/ delete_single_moving_feature
  <2>1. CASE post_collection_items
    BY <1>1, <1>2, <2>1 DEF post_collection_items
  <2>2. CASE put_single_moving_feature
    BY <1>1, <1>3, <2>2 DEF put_single_moving_feature
  <2>3. CASE delete_single_moving_feature
    BY <1>1, <1>4, <2>3 DEF delete_single_moving_feature
  <2>4. QED
    BY <1>7, <2>1, <2>2, <2>3
<1>8. CASE insert_feature_tables \/ insert_feature_row \/ insert_feature_geometry
  <2>1. CASE insert_feature_tables
    BY <1>1, <1>3, <2>1 DEF insert_feature_tables
  <2>2. CASE insert_feature_row
    BY <1>2, <2>2 DEF insert_feature_row
  <2>3. CASE insert_feature_geometry
    <3>1. CASE \E db, l : Execute(db, l)
      BY <1>3, <3>1
    <3>2. QED
      BY <1>1, <2>3, <3>1 DEF insert_feature_geometry
  <2>4. QED
    BY <1>8, <2>1, <2>2, <2>3
<1>9. CASE post_bulk \/ append_observations_row \/ append_observations_instant
  <2>1. CASE post_bulk
    BY ZenonT(60), <1>1, <1>2, <2>1 DEF post_bulk
  <2>2. CASE append_observations_row
    BY <1>2, <2>2 DEF append_observations_row
  <2>3. CASE append_observations_instant
    BY <1>1, <1>3, <2>3 DEF append_observations_instant
  <2>4. QED
    BY <1>9, <2>1, <2>2, <2>3
<1>10. CASE post_tgsequence \/ delete_single_temporal_primitive_geo
  <2>1. CASE post_tgsequence
    <3>1. CASE \E db, l : Execute(db, l)
      BY <1>3, <3>1
    <3>2. QED
      BY ZenonT(60), <1>1, <2>1, <3>1 DEF post_tgsequence
  <2>2. CASE delete_single_temporal_primitive_geo
    BY <1>1, <1>4, <2>2 DEF delete_single_temporal_primitive_geo
  <2>3. QED
    BY <1>10, <2>1, <2>2
<1>11. CASE \/ NoSuchFeature \/ NoPropertyTables \/ post_tproperties
            \/ post_tproperties_values \/ post_temporal_property \/ delete_temporal_property
  <2>1. CASE NoSuchFeature \/ NoPropertyTables
    BY <1>1, <2>1 DEF NoSuchFeature, NoPropertyTables
  <2>2. CASE post_tproperties
    BY <1>1, <1>2, <1>3, <2>2 DEF post_tproperties
  <2>3. CASE post_tproperties_values
    BY ZenonT(60), <1>1, <1>3, <2>3 DEF post_tproperties_values
  <2>4. CASE post_temporal_property
    BY <1>1, <1>3, <2>4 DEF post_temporal_property
  <2>5. CASE delete_temporal_property
    BY <1>1, <1>4, <2>5 DEF delete_temporal_property
  <2>6. QED
    BY <1>11, <2>1, <2>2, <2>3, <2>4, <2>5
<1>12. CASE Commit \/ Epilogue
  BY <1>2, <1>12
  DEF Commit, Epilogue, Except, Respond, ClientGone, Receive, DatabaseRestart, Kill, Interrupt,
      Rollback, vars
<1>13. QED
  BY <1>5, <1>6, <1>7, <1>8, <1>9, <1>10, <1>11, <1>12
  DEF Next, ServerStep, Environment, Epilogue

PoisonInv ==
  pc # "idle" /\ before.tx = "ok" /\ tx = "inerror" =>
    pc = "except" \/ (pc = "respond in except" /\ req.op \in SilentReads)

\* Every step keeps PoisonInv.
LEMMA PoisonStep == TypeInv /\ PoisonInv /\ [Next]_vars => PoisonInv'
<1> SUFFICES ASSUME TypeInv, PoisonInv, [Next]_vars,
                    pc' # "idle", before'.tx = "ok", tx' = "inerror"
             PROVE  pc' = "except" \/ (pc' = "respond in except" /\ req'.op \in SilentReads)
  BY DEF PoisonInv
<1>1. CASE tx # "inerror"
  BY <1>1, Aborts
<1>2. CASE tx = "inerror" /\ pc = "idle"
  <2>1. Epilogue
    BY <1>2, EpilogueSteps
  <2>2. CASE Receive
    <3>1. before' = [db |-> disk, tx |-> tx]
      BY <2>2 DEF Receive
    <3>2. before'.tx = tx
      BY <3>1
    <3>3. QED
      BY <1>2, <3>2
  <2>3. CASE UNCHANGED vars
    BY <1>2, <2>3 DEF vars
  <2>4. ~Except /\ ~Respond /\ ~ClientGone
    BY <1>2 DEF Except, Respond, ClientGone
  <2>5. ~DatabaseRestart /\ ~Kill /\ ~Interrupt
    BY DEF DatabaseRestart, Kill, Interrupt
  <2>6. QED
    BY <2>1, <2>2, <2>3, <2>4, <2>5 DEF Epilogue
<1>3. CASE tx = "inerror" /\ pc # "idle" /\ before.tx = "ok"
  <2>1. pc = "except" \/ (pc = "respond in except" /\ req.op \in SilentReads)
    BY <1>3 DEF PoisonInv
  <2>2. Epilogue
    BY <2>1, EpilogueSteps
  <2>3. QED
    BY <1>3, <2>1, <2>2
    DEF Epilogue, Except, Respond, ClientGone, Receive, DatabaseRestart, Kill, Interrupt, vars,
        Leave, Rollback, request
<1>4. CASE tx = "inerror" /\ pc # "idle" /\ before.tx # "ok"
  <2>1. before' = before \/ pc' = "idle" \/ pc = "idle"
    BY RequestStep
  <2>2. QED
    BY <1>4, <2>1
<1>5. QED
  BY <1>1, <1>2, <1>3, <1>4

\* Only the handlers that do not roll back hand an aborted transaction on to the
\* next request, whatever statement failed and whatever else happens around it.
THEOREM OnlyUnguardedReadsAbort == Spec => OnlyUnguardedReadsPoison
<1>1. Init => PoisonInv /\ Outside
  BY DEF Init, PoisonInv, Outside
<1>2. TypeInv /\ PoisonInv /\ Outside /\ [Next]_vars =>
        (pc # "idle" /\ pc' = "idle" /\ tx' = "inerror" /\ before.tx = "ok"
           => req.op \in SilentReads \cup {"export_collection"})
  <2> SUFFICES ASSUME TypeInv, PoisonInv, Outside, [Next]_vars,
                      pc # "idle", pc' = "idle", tx' = "inerror", before.tx = "ok"
               PROVE  req.op \in SilentReads \cup {"export_collection"}
    OBVIOUS
  <2>1. tx = "inerror"
    BY Aborts
  <2>2. pc = "except" \/ (pc = "respond in except" /\ req.op \in SilentReads)
    BY <2>1 DEF PoisonInv
  <2>3. Epilogue /\ req.op # "get_acceleration"
    BY <2>2, EpilogueSteps DEF Outside, SilentReads
  <2>4. QED
    BY <2>1, <2>2, <2>3
    DEF Epilogue, Except, Respond, ClientGone, Receive, DatabaseRestart, Kill, Interrupt, vars,
        Rollback, BareReads
<1>3. QED
  BY <1>1, <1>2, TypeInvariant, PoisonStep, OutsideStep, PTL DEF Spec, OnlyUnguardedReadsPoison
=============================================================================
