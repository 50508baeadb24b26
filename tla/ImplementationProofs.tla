------------------------ MODULE ImplementationProofs ------------------------
(***************************************************************************)
(* The server implements Documents, for every set of identifiers, requests *)
(* and faults but Ctrl-C: what clients see of it are documents that change *)
(* by whole operations, in the order a request asks for them, and a        *)
(* success only after the last.                                            *)
(*                                                                         *)
(* The argument has three parts.  A statement on tables is an operation on *)
(* documents, or part of one (one lemma per statement).  At each label     *)
(* where a handler may commit, the transaction differs from what is        *)
(* committed by exactly the next operation of the plan, or by none.  So    *)
(* a commit, wherever it ends, performs that operation, and every other    *)
(* step leaves the documents alone and moves the status as the contract    *)
(* allows.                                                                 *)
(***************************************************************************)
EXTENDS EffectsProofs, Implementation, SequenceTheorems

-----------------------------------------------------------------------------
(* Documents of tables.                                                    *)

\* What the documents of a database are made of.
LEMMA DocumentFields ==
  ASSUME NEW db
  PROVE  /\ DocumentsOf(db).collections = db.collections
         /\ DOMAIN DocumentsOf(db).features = DOMAIN db.features
         /\ \A f \in DOMAIN db.features : DocumentsOf(db).features[f] = DocumentOf(db, f)
         /\ \A f : /\ DocumentOf(db, f).cid = db.features[f].cid
                   /\ DocumentOf(db, f).paths = PathsOf(db, f)
                   /\ DocumentOf(db, f).properties = ArraysByName(db, f)
                   /\ DocumentOf(db, f) = Contract!Feature(db.features[f].cid, PathsOf(db, f),
                                                           ArraysByName(db, f))
  BY DEF DocumentsOf, DocumentOf, Contract!Feature

\* They are the same as others with the same parts.
LEMMA DocumentsAre ==
  ASSUME NEW db, NEW collections, NEW features,
         features = [f \in DOMAIN features |-> features[f]],
         db.collections = collections, DOMAIN db.features = DOMAIN features,
         \A f \in DOMAIN features : DocumentOf(db, f) = features[f]
  PROVE  DocumentsOf(db) = Contract!Contents(collections, features)
  BY DEF DocumentsOf, Contract!Contents

\* One feature is put,
LEMMA FeaturePut ==
  ASSUME NEW db, NEW new, NEW f, NEW feature,
         new.collections = db.collections, DOMAIN new.features = DOMAIN db.features \cup {f},
         DocumentOf(new, f) = feature,
         \A e \in DOMAIN db.features \ {f} : DocumentOf(new, e) = DocumentOf(db, e)
  PROVE  DocumentsOf(new) = Contract!WithFeature(DocumentsOf(db), f, feature)
<1> DEFINE features == Contract!Set(DocumentsOf(db).features, f, feature)
<1>1. /\ DOMAIN features = DOMAIN db.features \cup {f}
      /\ features = [e \in DOMAIN features |-> features[e]]
      /\ features[f] = feature
      /\ \A e \in DOMAIN db.features \ {f} : features[e] = DocumentOf(db, e)
  BY DocumentFields DEF Contract!Set
<1> HIDE DEF features
<1>2. \A e \in DOMAIN features : DocumentOf(new, e) = features[e]
  BY <1>1
<1>3. DocumentsOf(new) = Contract!Contents(db.collections, features)
  BY <1>1, <1>2, DocumentsAre
<1>4. QED
  BY <1>3, DocumentFields DEF features, Contract!WithFeature

\* or some are gone.
LEMMA FeaturesGone ==
  ASSUME NEW db, NEW new, NEW F,
         new.collections = db.collections, DOMAIN new.features = DOMAIN db.features \ F,
         \A e \in DOMAIN db.features \ F : DocumentOf(new, e) = DocumentOf(db, e)
  PROVE  /\ DocumentsOf(new) = Contract!WithoutFeatures(DocumentsOf(db), F)
<1> DEFINE features == Contract!Without(DocumentsOf(db).features, F)
<1>1. /\ DOMAIN features = DOMAIN db.features \ F
      /\ features = [e \in DOMAIN features |-> features[e]]
      /\ \A e \in DOMAIN db.features \ F : features[e] = DocumentOf(db, e)
  BY DocumentFields DEF Contract!Without, Contract!Restrict
<1> HIDE DEF features
<1>2. \A e \in DOMAIN features : DocumentOf(new, e) = features[e]
  BY <1>1
<1>3. DocumentsOf(new) = Contract!Contents(db.collections, features)
  BY <1>1, <1>2, DocumentsAre
<1>4. QED
  BY <1>3, DocumentFields DEF features, Contract!WithoutFeatures

-----------------------------------------------------------------------------
(* Which rows a feature's document is read off.                            *)

\* The document of a feature is the same when its rows are,
LEMMA SameTables ==
  ASSUME NEW db, NEW new, new.features = db.features,
         new.geometries = db.geometries, new.properties = db.properties, new.values = db.values
  PROVE  \A f : DocumentOf(new, f) = DocumentOf(db, f)
  BY DEF DocumentOf, PathsOf, ArraysByName, NamesOf, ArraysOf, GeometriesOf, PropertiesOf,
         PropertiesNamed, ValuesOf

\* its trajectories when its geometries are,
LEMMA SamePaths ==
  ASSUME NEW db, NEW new, NEW f, GeometriesOf(new, f) = GeometriesOf(db, f),
         \A g \in GeometriesOf(db, f) : new.geometries[g].traj = db.geometries[g].traj
  PROVE  PathsOf(new, f) = PathsOf(db, f)
  BY DEF PathsOf

\* and its arrays when its properties and their values are.
LEMMA SameArrays ==
  ASSUME NEW db, NEW new, NEW f, PropertiesOf(new, f) = PropertiesOf(db, f),
         \A p \in PropertiesOf(db, f) :
           /\ new.properties[p].name = db.properties[p].name
           /\ ValuesOf(new, p) = ValuesOf(db, p)
           /\ \A v \in ValuesOf(db, p) : new.values[v].times = db.values[v].times
  PROVE  ArraysByName(new, f) = ArraysByName(db, f)
<1>1. NamesOf(new, f) = NamesOf(db, f)
  BY DEF NamesOf
<1>2. ASSUME NEW name
      PROVE  ArraysOf(new, f, name) = ArraysOf(db, f, name)
  <2>1. PropertiesNamed(new, f, name) = PropertiesNamed(db, f, name)
    BY DEF PropertiesNamed
  <2>2. \A p \in PropertiesNamed(db, f, name) : ValuesOf(new, p) = ValuesOf(db, p)
    BY DEF PropertiesNamed
  <2>3. UNION {ValuesOf(new, p) : p \in PropertiesNamed(new, f, name)}
          = UNION {ValuesOf(db, p) : p \in PropertiesNamed(db, f, name)}
    BY <2>1, <2>2
  <2>4. \A v \in UNION {ValuesOf(db, p) : p \in PropertiesNamed(db, f, name)} :
          new.values[v].times = db.values[v].times
    BY DEF PropertiesNamed
  <2>5. QED
    BY <2>3, <2>4 DEF ArraysOf
<1>3. QED
  BY <1>1, <1>2 DEF ArraysByName

\* A statement that leaves properties and values alone leaves the arrays alone.
LEMMA SameRowsArrays ==
  ASSUME NEW db, NEW new, new.properties = db.properties, new.values = db.values
  PROVE  \A f : ArraysByName(new, f) = ArraysByName(db, f)
  BY DEF ArraysByName, NamesOf, ArraysOf, PropertiesOf, PropertiesNamed, ValuesOf

\* When rows are deleted, a feature that keeps all of its own keeps its document.
LEMMA KeepsItsRows ==
  ASSUME NEW db, NEW new, NEW f \in DOMAIN db.features, ReferencesHold(db),
         f \in DOMAIN new.features, new.features[f] = db.features[f],
         SubTable(new.geometries, db.geometries), SubTable(new.properties, db.properties),
         SubTable(new.values, db.values),
         \A g \in GeometriesOf(db, f) : g \in DOMAIN new.geometries,
         \A p \in PropertiesOf(db, f) :
           p \in DOMAIN new.properties /\ \A v \in ValuesOf(db, p) : v \in DOMAIN new.values
  PROVE  DocumentOf(new, f) = DocumentOf(db, f)
<1>1. /\ GeometriesOf(new, f) = GeometriesOf(db, f)
      /\ \A g \in GeometriesOf(db, f) : new.geometries[g].traj = db.geometries[g].traj
  BY DEF GeometriesOf, SubTable
<1>2. PropertiesOf(new, f) = PropertiesOf(db, f)
  BY DEF PropertiesOf, SubTable
<1>3. ASSUME NEW p \in PropertiesOf(db, f)
      PROVE  /\ new.properties[p].name = db.properties[p].name
             /\ ValuesOf(new, p) = ValuesOf(db, p)
             /\ \A v \in ValuesOf(db, p) : new.values[v].times = db.values[v].times
  <2>1. p \in DOMAIN new.properties
    OBVIOUS
  <2>2. ValuesOf(new, p) = ValuesOf(db, p)
    BY DEF ValuesOf, SubTable
  <2>3. \A v \in ValuesOf(db, p) : new.values[v].times = db.values[v].times
    BY DEF ValuesOf, SubTable
  <2>4. QED
    BY <2>1, <2>2, <2>3 DEF SubTable
<1>4. QED
  BY <1>1, <1>2, <1>3, SamePaths, SameArrays DEF DocumentOf

-----------------------------------------------------------------------------
(* What the statements do to the documents.                                *)

\* A collection is put,
LEMMA PutDocuments ==
  ASSUME NEW db, IsDatabase(db), NEW c, NEW title, NEW new, new = PutCollectionRow(db, c, title)
  PROVE  DocumentsOf(new) = Contract!WithCollection(DocumentsOf(db), c, title)
<1>1. /\ new.collections = Extend(db.collections, c, title)
      /\ new.features = db.features /\ FewTables(db, new)
  BY DEF PutCollectionRow, IsDatabase, FewTables
<1>2. \A f : DocumentOf(new, f) = DocumentOf(db, f)
  BY <1>1, SameTables DEF FewTables
<1>3. new.collections = Contract!Set(DocumentsOf(db).collections, c, title)
  BY <1>1, DocumentFields DEF Extend, Contract!Set
<1>4. DocumentsOf(new).features = DocumentsOf(db).features
  BY <1>1, <1>2 DEF DocumentsOf
<1>5. DocumentsOf(new) = Contract!Contents(new.collections, DocumentsOf(new).features)
  BY DEF DocumentsOf, Contract!Contents
<1>6. QED
  BY <1>3, <1>4, <1>5 DEF Contract!WithCollection

\* or deleted with its features;
LEMMA DeleteDocuments ==
  ASSUME NEW db, IsDatabase(db), ReferencesHold(db), ColumnsAgree(db), NEW c,
         NEW new, CollectionDeleted(db, new, c), IsDatabase(new)
  PROVE  LET old == DocumentsOf(db)
             F == {f \in DOMAIN old.features : old.features[f].cid = c}
         IN  DocumentsOf(new) = Contract!Contents(Contract!Without(old.collections, {c}),
                                                  Contract!Without(old.features, F))
<1> DEFINE old == DocumentsOf(db)
           F == {f \in DOMAIN old.features : old.features[f].cid = c}
           features == Contract!Without(old.features, F)
<1>1. /\ \A f \in DOMAIN db.features : f \in F <=> db.features[f].cid = c
      /\ DOMAIN old.features = DOMAIN db.features
  BY DocumentFields
<1>2. /\ DOMAIN features = {f \in DOMAIN db.features : db.features[f].cid # c}
      /\ features = [f \in DOMAIN features |-> features[f]]
      /\ \A f \in DOMAIN features : features[f] = DocumentOf(db, f)
  BY <1>1, DocumentFields DEF Contract!Without, Contract!Restrict
<1>3. new.collections = Contract!Without(old.collections, {c})
  <2> DEFINE left == Contract!Without(db.collections, {c})
  <2>1. /\ left = [d \in DOMAIN left |-> left[d]] /\ DOMAIN left = DOMAIN db.collections \ {c}
        /\ \A d \in DOMAIN db.collections \ {c} : left[d] = db.collections[d]
    BY DEF Contract!Without, Contract!Restrict
  <2>2. old.collections = db.collections
    BY DocumentFields
  <2> HIDE DEF left, old
  <2>3. /\ DOMAIN new.collections = DOMAIN left
        /\ \A d \in DOMAIN left : new.collections[d] = left[d]
    BY <2>1 DEF CollectionDeleted, SubTable
  <2>4. new.collections = [d \in DOMAIN new.collections |-> new.collections[d]]
    BY DEF IsDatabase, IsTable
  <2>5. new.collections = left
    BY <2>1, <2>3, <2>4
  <2>6. QED
    BY <2>2, <2>5 DEF left
<1>4. ASSUME NEW f \in DOMAIN features
      PROVE  DocumentOf(new, f) = features[f]
  <2>1. /\ f \in DOMAIN db.features /\ db.features[f].cid # c
        /\ f \in DOMAIN new.features /\ new.features[f] = db.features[f]
    BY <1>2 DEF CollectionDeleted, SubTable
  <2>2. \A g \in GeometriesOf(db, f) : g \in DOMAIN new.geometries
    BY <2>1 DEF CollectionDeleted, GeometriesOf, ColumnsAgree
  <2>3. ASSUME NEW p \in PropertiesOf(db, f)
        PROVE  p \in DOMAIN new.properties /\ \A v \in ValuesOf(db, p) : v \in DOMAIN new.values
    BY <2>1 DEF CollectionDeleted, PropertiesOf, ValuesOf
  <2>4. /\ SubTable(new.geometries, db.geometries) /\ SubTable(new.properties, db.properties)
        /\ SubTable(new.values, db.values)
    BY DEF CollectionDeleted
  <2>5. DocumentOf(new, f) = DocumentOf(db, f)
    BY <2>1, <2>2, <2>3, <2>4, KeepsItsRows
  <2>6. QED
    BY <1>2, <2>5
<1>5. DOMAIN new.features = DOMAIN features
  BY <1>2 DEF CollectionDeleted
<1> DEFINE collections == Contract!Without(old.collections, {c})
<1> HIDE DEF features, old, F, collections
<1>6. new.collections = collections
  BY <1>3 DEF collections
<1>7. DocumentsOf(new) = Contract!Contents(collections, features)
  <2>1. features = [f \in DOMAIN features |-> features[f]]
    BY <1>2
  <2>2. \A f \in DOMAIN features : DocumentOf(new, f) = features[f]
    BY <1>4
  <2>3. DocumentsOf(new).features = features
    BY <1>5, <2>1, <2>2 DEF DocumentsOf
  <2>4. QED
    BY <1>6, <2>3 DEF DocumentsOf, Contract!Contents
<1>8. QED
  BY <1>7 DEF features, old, F, collections

\* a feature is inserted, nothing of it being there,
LEMMA InsertDocument ==
  ASSUME NEW db, ReferencesHold(db), NEW f, f \notin DOMAIN db.features, NEW c,
         NEW new, FeatureInserted(db, new, f, c)
  PROVE  DocumentsOf(new) =
           Contract!WithFeature(DocumentsOf(db), f,
                                Contract!Feature(c, Contract!Nothing, Contract!Nothing))
<1>1. FewTables(db, new)
  BY DEF FeatureInserted
<1>2. ASSUME NEW e \in DOMAIN db.features \ {f}
      PROVE  DocumentOf(new, e) = DocumentOf(db, e)
  <2>1. new.features[e] = db.features[e] /\ e \in DOMAIN new.features
    BY DEF FeatureInserted
  <2>2. QED
    BY <1>1, <2>1, KeepsItsRows DEF FewTables, SubTable, GeometriesOf, PropertiesOf, ValuesOf
<1>3. GeometriesOf(new, f) = {} /\ PropertiesOf(new, f) = {}
  BY <1>1 DEF FewTables, GeometriesOf, PropertiesOf, ReferencesHold
<1>4. PathsOf(new, f) = Contract!Nothing
  BY <1>3 DEF PathsOf, Contract!Nothing
<1>5. ArraysByName(new, f) = Contract!Nothing
  BY <1>3 DEF ArraysByName, NamesOf, Contract!Nothing
<1>6. DocumentOf(new, f) = Contract!Feature(c, Contract!Nothing, Contract!Nothing)
  <2>1. new.features[f].cid = c
    BY DEF FeatureInserted
  <2>2. DocumentOf(new, f)
          = Contract!Feature(new.features[f].cid, PathsOf(new, f), ArraysByName(new, f))
    BY DocumentFields
  <2>3. QED
    BY <1>4, <1>5, <2>1, <2>2
<1>7. QED
  BY <1>2, <1>6, FeaturePut DEF FeatureInserted

\* or deleted, with all that hangs on it;
LEMMA DeleteDocument ==
  ASSUME NEW db, ReferencesHold(db), NEW f, NEW new, FeaturesDeleted(db, new, {f})
  PROVE  DocumentsOf(new) = Contract!WithoutFeatures(DocumentsOf(db), {f})
<1>1. ASSUME NEW e \in DOMAIN db.features \ {f}
      PROVE  DocumentOf(new, e) = DocumentOf(db, e)
  <2>1. e \in DOMAIN new.features /\ new.features[e] = db.features[e]
    BY DEF FeaturesDeleted, SubTable
  <2>2. \A g \in GeometriesOf(db, e) : g \in DOMAIN new.geometries
    BY DEF FeaturesDeleted, GeometriesOf
  <2>3. ASSUME NEW p \in PropertiesOf(db, e)
        PROVE  p \in DOMAIN new.properties /\ \A v \in ValuesOf(db, p) : v \in DOMAIN new.values
    BY DEF FeaturesDeleted, PropertiesOf, ValuesOf
  <2>4. /\ SubTable(new.geometries, db.geometries) /\ SubTable(new.properties, db.properties)
        /\ SubTable(new.values, db.values)
    BY DEF FeaturesDeleted
  <2>5. QED
    BY <2>1, <2>2, <2>3, <2>4, KeepsItsRows
<1>2. QED
  BY <1>1, FeaturesGone DEF FeaturesDeleted

\* A statement on one feature's geometries,
LEMMA PathsPut ==
  ASSUME NEW db, NEW new, NEW f \in DOMAIN db.features,
         new.collections = db.collections, new.properties = db.properties,
         new.values = db.values, DOMAIN new.features = DOMAIN db.features,
         \A e \in DOMAIN db.features : new.features[e].cid = db.features[e].cid,
         \A e \in DOMAIN db.features \ {f} :
           /\ GeometriesOf(new, e) = GeometriesOf(db, e)
           /\ \A g \in GeometriesOf(db, e) : new.geometries[g].traj = db.geometries[g].traj
  PROVE  DocumentsOf(new) =
           Contract!WithFeature(DocumentsOf(db), f,
                                Contract!WithPaths(DocumentOf(db, f), PathsOf(new, f)))
<1>1. \A e \in DOMAIN db.features \ {f} : PathsOf(new, e) = PathsOf(db, e)
  BY SamePaths
<1>2. \A e : ArraysByName(new, e) = ArraysByName(db, e)
  BY SameRowsArrays
<1>3. \A e \in DOMAIN db.features \ {f} : DocumentOf(new, e) = DocumentOf(db, e)
  BY <1>1, <1>2 DEF DocumentOf
<1>4. DocumentOf(new, f) = Contract!WithPaths(DocumentOf(db, f), PathsOf(new, f))
  <2>1. /\ DocumentOf(new, f) = Contract!Feature(new.features[f].cid, PathsOf(new, f),
                                                  ArraysByName(new, f))
        /\ DocumentOf(db, f).cid = db.features[f].cid
        /\ DocumentOf(db, f).properties = ArraysByName(db, f)
    BY DocumentFields
  <2>2. ArraysByName(new, f) = ArraysByName(db, f) /\ new.features[f].cid = db.features[f].cid
    BY <1>2
  <2>3. QED
    BY <2>1, <2>2 DEF Contract!WithPaths
<1> DEFINE feature == Contract!WithPaths(DocumentOf(db, f), PathsOf(new, f))
<1> HIDE DEF feature
<1>5. DocumentOf(new, f) = feature
  BY <1>4 DEF feature
<1>6. DocumentsOf(new) = Contract!WithFeature(DocumentsOf(db), f, feature)
  BY <1>3, <1>5, FeaturePut
<1>7. QED
  BY <1>6 DEF feature

\* or on its properties and their values, puts that feature.
LEMMA PropertiesPut ==
  ASSUME NEW db, NEW new, NEW f \in DOMAIN db.features,
         new.collections = db.collections, new.features = db.features,
         new.geometries = db.geometries,
         \A e \in DOMAIN db.features \ {f} : ArraysByName(new, e) = ArraysByName(db, e)
  PROVE  DocumentsOf(new) =
           Contract!WithFeature(DocumentsOf(db), f,
                                Contract!WithProperties(DocumentOf(db, f), ArraysByName(new, f)))
<1>1. \A e : PathsOf(new, e) = PathsOf(db, e)
  BY DEF PathsOf, GeometriesOf
<1>2. \A e \in DOMAIN db.features \ {f} : DocumentOf(new, e) = DocumentOf(db, e)
  BY <1>1 DEF DocumentOf
<1>3. DocumentOf(new, f) = Contract!WithProperties(DocumentOf(db, f), ArraysByName(new, f))
  <2>1. /\ DocumentOf(new, f) = Contract!Feature(new.features[f].cid, PathsOf(new, f),
                                                  ArraysByName(new, f))
        /\ DocumentOf(db, f).cid = db.features[f].cid
        /\ DocumentOf(db, f).paths = PathsOf(db, f)
    BY DocumentFields
  <2>2. PathsOf(new, f) = PathsOf(db, f) /\ new.features[f].cid = db.features[f].cid
    BY <1>1
  <2>3. QED
    BY <2>1, <2>2 DEF Contract!WithProperties
<1> DEFINE feature == Contract!WithProperties(DocumentOf(db, f), ArraysByName(new, f))
<1> HIDE DEF feature
<1>4. DocumentOf(new, f) = feature
  BY <1>3 DEF feature
<1>5. DocumentsOf(new) = Contract!WithFeature(DocumentsOf(db), f, feature)
  BY <1>2, <1>4, FeaturePut
<1>6. QED
  BY <1>5 DEF feature

\* The trigger keeps the columns a document is read off.
LEMMA SameCollection ==
  ASSUME NEW db, IsDatabase(db), NEW e \in DOMAIN db.features, NEW extent, NEW row,
         row \in {db.features[e], [db.features[e] EXCEPT !.extent = extent]}
  PROVE  row.cid = db.features[e].cid
<1>1. db.features[e] \in FeatureRow
  BY DEF IsDatabase, IsTable
<1>2. QED
  BY <1>1 DEF FeatureRow

\* A trajectory is inserted,
LEMMA GeometryDocument ==
  ASSUME NEW db, IsDatabase(db), NEW g, g \notin DOMAIN db.geometries,
         NEW f \in DOMAIN db.features, NEW c, NEW traj, NEW geometry,
         NEW new, GeometryInserted(db, new, g, f, c, traj, geometry)
  PROVE  DocumentsOf(new) =
           Contract!WithFeature(DocumentsOf(db), f,
             Contract!WithPaths(DocumentOf(db, f), Contract!Set(PathsOf(db, f), g, traj)))
<1>1. \A e \in DOMAIN db.features : new.features[e].cid = db.features[e].cid
  <2>1. TAKE e \in DOMAIN db.features
  <2>2. new.features[e] \in {db.features[e], [db.features[e] EXCEPT !.extent = ExtentOf(new, e)]}
    BY DEF GeometryInserted
  <2>3. QED
    BY <2>2, SameCollection
<1>2. new.geometries[g].fid = f /\ new.geometries[g].traj = traj
  BY DEF GeometryInserted
<1>3. \A h \in DOMAIN new.geometries : h = g \/ (h \in DOMAIN db.geometries /\ new.geometries[h] = db.geometries[h])
  BY DEF GeometryInserted
<1>4. \A h \in DOMAIN db.geometries : h \in DOMAIN new.geometries /\ new.geometries[h] = db.geometries[h]
  BY DEF GeometryInserted
<1>5. g \in DOMAIN new.geometries
  BY DEF GeometryInserted
<1>6. \A e \in DOMAIN db.features \ {f} :
        /\ GeometriesOf(new, e) = GeometriesOf(db, e)
        /\ \A h \in GeometriesOf(db, e) : new.geometries[h].traj = db.geometries[h].traj
  BY <1>2, <1>3, <1>4 DEF GeometriesOf
<1>7. GeometriesOf(new, f) = GeometriesOf(db, f) \cup {g}
  BY <1>2, <1>3, <1>4, <1>5 DEF GeometriesOf
<1>8. \A h \in GeometriesOf(db, f) : h # g /\ new.geometries[h].traj = db.geometries[h].traj
  BY <1>4 DEF GeometriesOf
<1>9. PathsOf(new, f) = Contract!Set(PathsOf(db, f), g, traj)
  BY <1>2, <1>7, <1>8 DEF PathsOf, Contract!Set
<1>10. DocumentsOf(new) =
         Contract!WithFeature(DocumentsOf(db), f,
                              Contract!WithPaths(DocumentOf(db, f), PathsOf(new, f)))
  BY <1>1, <1>6, PathsPut DEF GeometryInserted
<1>11. QED
  BY <1>9, <1>10

\* or all those of a feature are replaced.
LEMMA TrajectoriesDocument ==
  ASSUME NEW db, IsDatabase(db), NEW f \in DOMAIN db.features, NEW trajs,
         DOMAIN trajs = GeometriesOf(db, f), NEW new, TrajectoriesUpdated(db, new, trajs)
  PROVE  DocumentsOf(new) =
           Contract!WithFeature(DocumentsOf(db), f,
             Contract!WithPaths(DocumentOf(db, f), [g \in GeometriesOf(db, f) |-> trajs[g]]))
<1>1. \A e \in DOMAIN db.features : new.features[e].cid = db.features[e].cid
  <2>1. TAKE e \in DOMAIN db.features
  <2>2. new.features[e] \in {db.features[e], [db.features[e] EXCEPT !.extent = ExtentOf(new, e)]}
    BY DEF TrajectoriesUpdated
  <2>3. QED
    BY <2>2, SameCollection
<1>2. \A g \in DOMAIN db.geometries :
        /\ new.geometries[g].fid = db.geometries[g].fid
        /\ new.geometries[g].traj = IF g \in DOMAIN trajs THEN trajs[g] ELSE db.geometries[g].traj
  BY DEF TrajectoriesUpdated
<1>3. DOMAIN new.geometries = DOMAIN db.geometries
  BY DEF TrajectoriesUpdated
<1>4. \A e : GeometriesOf(new, e) = GeometriesOf(db, e)
  BY <1>2, <1>3 DEF GeometriesOf
<1>5. \A e \in DOMAIN db.features \ {f} : \A g \in GeometriesOf(db, e) :
        new.geometries[g].traj = db.geometries[g].traj
  BY <1>2 DEF GeometriesOf
<1>6. PathsOf(new, f) = [g \in GeometriesOf(db, f) |-> trajs[g]]
  <2>1. \A g \in GeometriesOf(db, f) : new.geometries[g].traj = trajs[g]
    BY <1>2 DEF GeometriesOf
  <2>2. QED
    BY <1>4, <2>1 DEF PathsOf
<1>7. DocumentsOf(new) =
        Contract!WithFeature(DocumentsOf(db), f,
                             Contract!WithPaths(DocumentOf(db, f), PathsOf(new, f)))
  BY <1>1, <1>4, <1>5, PathsPut DEF TrajectoriesUpdated
<1>8. QED
  BY <1>6, <1>7

\* The arrays of one name are the same when the properties of that name are.
LEMMA SameArraysOf ==
  ASSUME NEW db, NEW new, NEW f, NEW name,
         PropertiesNamed(new, f, name) = PropertiesNamed(db, f, name),
         \A p \in PropertiesNamed(db, f, name) :
           /\ ValuesOf(new, p) = ValuesOf(db, p)
           /\ \A v \in ValuesOf(db, p) : new.values[v].times = db.values[v].times
  PROVE  ArraysOf(new, f, name) = ArraysOf(db, f, name)
<1>1. UNION {ValuesOf(new, p) : p \in PropertiesNamed(new, f, name)}
        = UNION {ValuesOf(db, p) : p \in PropertiesNamed(db, f, name)}
  OBVIOUS
<1>2. QED
  BY <1>1 DEF ArraysOf

\* A property is inserted, without values,
LEMMA PropertyDocument ==
  ASSUME NEW db, ReferencesHold(db), NEW p, p \notin DOMAIN db.properties,
         NEW f \in DOMAIN db.features, NEW name, PropertiesNamed(db, f, name) = {},
         NEW new, PropertyInserted(db, new, p, f, name)
  PROVE  DocumentsOf(new) =
           Contract!WithFeature(DocumentsOf(db), f,
             Contract!WithProperties(DocumentOf(db, f),
               Contract!Set(ArraysByName(db, f), name, Contract!Nothing)))
<1>1. /\ \A q : q \in DOMAIN new.properties <=> q = p \/ q \in DOMAIN db.properties
      /\ \A q \in DOMAIN db.properties : new.properties[q] = db.properties[q]
      /\ new.properties[p].fid = f /\ new.properties[p].name = name
      /\ new.values = db.values
  BY DEF PropertyInserted
<1>2. \A q : ValuesOf(new, q) = ValuesOf(db, q)
  BY <1>1 DEF ValuesOf
<1>3. ASSUME NEW e \in DOMAIN db.features \ {f}
      PROVE  ArraysByName(new, e) = ArraysByName(db, e)
  <2>1. PropertiesOf(new, e) = PropertiesOf(db, e)
    BY <1>1 DEF PropertiesOf
  <2>2. \A q \in PropertiesOf(db, e) : new.properties[q].name = db.properties[q].name
    BY <1>1 DEF PropertiesOf
  <2>3. QED
    BY <1>1, <1>2, <2>1, <2>2, SameArrays
<1>4. PropertiesOf(new, f) = PropertiesOf(db, f) \cup {p}
  BY <1>1 DEF PropertiesOf
<1>5. \A q \in PropertiesOf(db, f) : q # p /\ new.properties[q].name = db.properties[q].name
  BY <1>1 DEF PropertiesOf
<1>6. NamesOf(new, f) = NamesOf(db, f) \cup {name}
  BY <1>1, <1>4, <1>5 DEF NamesOf
<1>7. ASSUME NEW other, other # name
      PROVE  ArraysOf(new, f, other) = ArraysOf(db, f, other)
  <2>1. PropertiesNamed(new, f, other) = PropertiesNamed(db, f, other)
    BY <1>1, <1>4, <1>5, <1>7 DEF PropertiesNamed
  <2>2. QED
    BY <1>1, <1>2, <2>1, SameArraysOf
<1>8. ArraysOf(new, f, name) = Contract!Nothing
  <2>1. PropertiesNamed(new, f, name) = {p}
    BY <1>1, <1>4, <1>5 DEF PropertiesNamed
  <2>2. ValuesOf(new, p) = {}
    BY <1>2 DEF ValuesOf, ReferencesHold
  <2>3. UNION {ValuesOf(new, q) : q \in PropertiesNamed(new, f, name)} = {}
    BY <2>1, <2>2
  <2>4. QED
    BY <2>3 DEF ArraysOf, Contract!Nothing
<1>9. ArraysByName(new, f) = Contract!Set(ArraysByName(db, f), name, Contract!Nothing)
  BY <1>6, <1>7, <1>8 DEF ArraysByName, Contract!Set
<1>10. DocumentsOf(new) =
         Contract!WithFeature(DocumentsOf(db), f,
                              Contract!WithProperties(DocumentOf(db, f), ArraysByName(new, f)))
  BY <1>3, PropertiesPut DEF PropertyInserted
<1>11. QED
  BY <1>9, <1>10

\* values are added to the property that has a name,
LEMMA ValuesDocument ==
  ASSUME NEW db, IsDatabase(db), NamesUnique(db), NEW v, v \notin DOMAIN db.values,
         NEW f \in DOMAIN db.features, NEW name, NEW p \in PropertiesNamed(db, f, name),
         NEW body, NEW times, times = body.times, NEW new, ValuesInserted(db, new, v, p, body)
  PROVE  /\ name \in DOMAIN ArraysByName(db, f)
         /\ DOMAIN ArraysByName(db, f)[name] = ValuesOf(db, p)
         /\ \A w \in ValuesOf(db, p) : ArraysByName(db, f)[name][w] = db.values[w].times
         /\ DocumentsOf(new) =
              Contract!WithFeature(DocumentsOf(db), f,
                Contract!WithProperties(DocumentOf(db, f),
                  Contract!Set(ArraysByName(db, f), name,
                               Contract!Set(ArraysByName(db, f)[name], v, times))))
<1>1. /\ \A w : w \in DOMAIN new.values <=> w = v \/ w \in DOMAIN db.values
      /\ \A w \in DOMAIN db.values : w # v /\ new.values[w] = db.values[w]
      /\ new.values[v].pid = p /\ new.values[v].times = times
      /\ new.properties = db.properties
  BY DEF ValuesInserted
<1>2. \A q : q # p => ValuesOf(new, q) = ValuesOf(db, q)
  BY <1>1 DEF ValuesOf
<1>3. ValuesOf(new, p) = ValuesOf(db, p) \cup {v}
  BY <1>1 DEF ValuesOf
<1>4. /\ \A e : PropertiesOf(new, e) = PropertiesOf(db, e)
      /\ \A e, n : PropertiesNamed(new, e, n) = PropertiesNamed(db, e, n)
  BY <1>1 DEF PropertiesOf, PropertiesNamed
<1>5. \A q : \A w \in ValuesOf(db, q) : w # v /\ new.values[w].times = db.values[w].times
  BY <1>1 DEF ValuesOf
<1>6. ASSUME NEW e \in DOMAIN db.features \ {f}
      PROVE  ArraysByName(new, e) = ArraysByName(db, e)
  <2>1. p \notin PropertiesOf(db, e)
    BY DEF PropertiesNamed, PropertiesOf
  <2>2. QED
    BY <1>1, <1>2, <1>4, <1>5, <2>1, SameArrays
<1>7. PropertiesNamed(db, f, name) = {p}
  <2>1. ASSUME NEW q \in PropertiesNamed(db, f, name)
        PROVE  q = p
    <3>1. /\ p \in DOMAIN db.properties /\ q \in DOMAIN db.properties
          /\ db.properties[p].fid = f /\ db.properties[p].name = name
          /\ db.properties[q].fid = f /\ db.properties[q].name = name
      BY DEF PropertiesNamed, PropertiesOf
    <3>2. db.properties[p] \in PropertyRow /\ db.properties[q] \in PropertyRow
      BY <3>1 DEF IsDatabase, IsTable
    <3>3. db.properties[p] = db.properties[q]
      BY <3>1, <3>2 DEF PropertyRow
    <3>4. QED
      BY <3>1, <3>3 DEF NamesUnique
  <2>2. QED
    BY <2>1
<1>8. \A n : n # name => p \notin PropertiesNamed(db, f, n)
  BY DEF PropertiesNamed
<1>9. NamesOf(new, f) = NamesOf(db, f) /\ name \in NamesOf(db, f)
  BY <1>1, <1>4 DEF NamesOf, PropertiesNamed
<1>10. ASSUME NEW other, other # name
       PROVE  ArraysOf(new, f, other) = ArraysOf(db, f, other)
  BY <1>2, <1>4, <1>5, <1>8, <1>10, SameArraysOf
<1>11. /\ ArraysOf(db, f, name) = [w \in ValuesOf(db, p) |-> db.values[w].times]
       /\ ArraysOf(new, f, name) = [w \in ValuesOf(db, p) \cup {v} |-> new.values[w].times]
  <2>1. /\ UNION {ValuesOf(db, q) : q \in PropertiesNamed(db, f, name)} = ValuesOf(db, p)
        /\ UNION {ValuesOf(new, q) : q \in PropertiesNamed(new, f, name)} = ValuesOf(db, p) \cup {v}
    BY <1>3, <1>4, <1>7
  <2>2. QED
    BY <2>1 DEF ArraysOf
<1>12. ArraysOf(new, f, name) = Contract!Set(ArraysOf(db, f, name), v, times)
  BY <1>1, <1>5, <1>11 DEF Contract!Set
<1>13. ArraysByName(db, f)[name] = ArraysOf(db, f, name) /\ name \in DOMAIN ArraysByName(db, f)
  BY <1>9 DEF ArraysByName
<1>14. ArraysByName(new, f)
         = Contract!Set(ArraysByName(db, f), name, Contract!Set(ArraysByName(db, f)[name], v, times))
  <2>1. \A n \in NamesOf(db, f) : ArraysOf(new, f, n) = IF n = name THEN Contract!Set(ArraysByName(db, f)[name], v, times) ELSE ArraysOf(db, f, n)
    BY <1>10, <1>12, <1>13
  <2>2. NamesOf(db, f) \cup {name} = NamesOf(db, f)
    BY <1>9
  <2> DEFINE arrays == Contract!Set(ArraysByName(db, f)[name], v, times)
  <2> HIDE DEF arrays
  <2>3. \A n \in NamesOf(db, f) : ArraysOf(new, f, n) = IF n = name THEN arrays ELSE ArraysOf(db, f, n)
    BY <2>1 DEF arrays
  <2>4. ArraysByName(new, f) = Contract!Set(ArraysByName(db, f), name, arrays)
    BY <1>9, <2>2, <2>3 DEF ArraysByName, Contract!Set
  <2>5. QED
    BY <2>4 DEF arrays
<1>15. DocumentsOf(new) =
         Contract!WithFeature(DocumentsOf(db), f,
                              Contract!WithProperties(DocumentOf(db, f), ArraysByName(new, f)))
  BY <1>6, PropertiesPut DEF ValuesInserted
<1>16. QED
  BY <1>11, <1>13, <1>14, <1>15

\* or it is deleted with all its values.
LEMMA PropertiesDocument ==
  ASSUME NEW db, NEW f \in DOMAIN db.features, NEW name,
         NEW new, PropertiesDeleted(db, new, PropertiesNamed(db, f, name))
  PROVE  DocumentsOf(new) =
           Contract!WithFeature(DocumentsOf(db), f,
             Contract!WithProperties(DocumentOf(db, f),
               Contract!Without(ArraysByName(db, f), {name})))
<1> DEFINE P == PropertiesNamed(db, f, name)
<1>1. /\ \A q : q \in DOMAIN new.properties <=> q \in DOMAIN db.properties /\ q \notin P
      /\ \A q \in DOMAIN new.properties : new.properties[q] = db.properties[q]
      /\ \A w : w \in DOMAIN new.values <=> w \in DOMAIN db.values /\ db.values[w].pid \notin P
      /\ \A w \in DOMAIN new.values : new.values[w] = db.values[w]
  BY DEF PropertiesDeleted, SubTable
<1>2. \A q \in P : q \in DOMAIN db.properties /\ db.properties[q].fid = f /\ db.properties[q].name = name
  BY DEF PropertiesNamed, PropertiesOf
<1>3. \A q \in DOMAIN db.properties : db.properties[q].fid = f /\ db.properties[q].name = name => q \in P
  BY DEF PropertiesNamed, PropertiesOf
<1> HIDE DEF P
<1>4. ASSUME NEW q, q \notin P
      PROVE  /\ ValuesOf(new, q) = ValuesOf(db, q)
             /\ \A w \in ValuesOf(db, q) : new.values[w].times = db.values[w].times
  BY <1>1, <1>4 DEF ValuesOf
<1>5. ASSUME NEW e \in DOMAIN db.features \ {f}
      PROVE  ArraysByName(new, e) = ArraysByName(db, e)
  <2>1. PropertiesOf(new, e) = PropertiesOf(db, e)
    BY <1>1, <1>2 DEF PropertiesOf
  <2>2. \A q \in PropertiesOf(db, e) : q \notin P /\ new.properties[q].name = db.properties[q].name
    BY <1>1, <1>2 DEF PropertiesOf
  <2>3. QED
    BY <1>4, <2>1, <2>2, SameArrays
<1>6. \A q : q \in PropertiesOf(new, f) <=> q \in PropertiesOf(db, f) /\ db.properties[q].name # name
  BY <1>1, <1>2, <1>3 DEF PropertiesOf
<1>7. \A q \in PropertiesOf(new, f) : q \notin P /\ new.properties[q].name = db.properties[q].name
  BY <1>1 DEF PropertiesOf
<1>8. NamesOf(new, f) = NamesOf(db, f) \ {name}
  BY <1>6, <1>7 DEF NamesOf
<1>9. ASSUME NEW other \in NamesOf(db, f) \ {name}
      PROVE  ArraysOf(new, f, other) = ArraysOf(db, f, other)
  <2>1. PropertiesNamed(new, f, other) = PropertiesNamed(db, f, other)
    BY <1>6, <1>7 DEF PropertiesNamed
  <2>2. \A q \in PropertiesNamed(db, f, other) : q \notin P
    BY <1>2 DEF PropertiesNamed
  <2>3. QED
    BY <1>4, <2>1, <2>2, SameArraysOf
<1>10. ArraysByName(new, f) = Contract!Without(ArraysByName(db, f), {name})
  BY <1>8, <1>9 DEF ArraysByName, Contract!Without, Contract!Restrict
<1>11. DocumentsOf(new) =
         Contract!WithFeature(DocumentsOf(db), f,
                              Contract!WithProperties(DocumentOf(db, f), ArraysByName(new, f)))
  BY <1>5, PropertiesPut DEF PropertiesDeleted
<1>12. QED
  BY <1>10, <1>11

\* The groups of tables that exist are no part of the documents.
LEMMA TablesDocuments ==
  ASSUME NEW db, NEW group, NEW new, TablesCreated(db, new, group)
  PROVE  DocumentsOf(new) = DocumentsOf(db)
<1>1. \A f : DocumentOf(new, f) = DocumentOf(db, f)
  BY SameTables DEF TablesCreated, FewTables
<1>2. QED
  BY <1>1 DEF DocumentsOf, TablesCreated

-----------------------------------------------------------------------------
(* What the handlers owe their clients.                                    *)

\* What each request asks for.
LEMMA PlanIs ==
  ASSUME NEW r
  PROVE  /\ r.op = "post_collections" =>
              PlanOf(r) = <<[do |-> "create collection", cid |-> r.cid, title |-> r.title]>>
         /\ r.op = "put_collection" =>
              PlanOf(r) = <<[do |-> "replace collection", cid |-> r.cid, title |-> r.title]>>
         /\ r.op = "delete_collection" =>
              PlanOf(r) = <<[do |-> "remove collection", cid |-> r.cid]>>
         /\ r.op = "post_collection_items" =>
              PlanOf(r) = [n \in DOMAIN r.items |-> AddsFeature(r, r.items[n].id, r.items[n])]
         /\ r.op = "put_single_moving_feature" /\ r.items # <<>> =>
              PlanOf(r) = <<Removes(r), AddsFeature(r, r.fid, r.items[1])>>
         /\ r.op = "delete_single_moving_feature" => PlanOf(r) = <<Removes(r)>>
         /\ r.op = "post_bulk" =>
              PlanOf(r) = <<[do |-> "load batch", cid |-> r.cid, observations |-> Observes(r)]>>
         /\ r.op = "post_tgsequence" /\ r.items # <<>> =>
              PlanOf(r) = <<[do |-> "add trajectory", cid |-> r.cid, fid |-> r.fid,
                             path |-> r.items[1].traj]>>
         /\ r.op = "delete_single_temporal_primitive_geo" =>
              PlanOf(r) = <<[do |-> "remove member", cid |-> r.cid, fid |-> r.fid, n |-> r.n]>>
         /\ r.op = "post_tproperties" /\ r.form \in {"with values", "with bad values"} =>
              PlanOf(r) = <<OnProperty(r, "add property"), AddsValues(r)>>
         /\ r.op = "post_tproperties" /\ r.form \notin {"with values", "with bad values"} =>
              PlanOf(r) = <<OnProperty(r, "add property")>>
         /\ r.op = "post_temporal_property" => PlanOf(r) = <<AddsValues(r)>>
         /\ r.op = "delete_temporal_property" => PlanOf(r) = <<OnProperty(r, "remove property")>>
         /\ r.op \notin Writes => PlanOf(r) = <<>>
<1>1. r.op \notin Writes => PlanOf(r) = <<>>
  BY DEF Writes, PlanOf
<1>2. QED
  BY <1>1 DEF PlanOf

\* The SERIAL values a request may still draw are in bounds.
RoomInv ==
  /\ serial <= MaxSerial
  /\ pc \in {"start", "check"} => serial + Draws(req) <= MaxSerial
  /\ pc \in FeatureLabels \cup BatchLabels => serial + Len(todo) <= MaxSerial
  /\ pc \in {"property", "insert values"} => serial + 1 <= MaxSerial

\* A request that leaves has drawn no more, and only the interrupt commits.
LEMMA Leaving ==
  ASSUME TypeInv, [Next]_vars, pc' = "idle"
  PROVE  serial' = serial /\ (disk' = disk \/ "interrupt" \in Faults)
<1> USE DEF At, Handles
<1>1. /\ ~ReadBody /\ ~Read /\ ~StatementError
  BY DEF ReadBody, Read, StatementError, Answer, AnswerInExcept, Raise, StatementFails, Goto
<1>2. /\ ~post_collections /\ ~post_collections_insert /\ ~put_collection /\ ~delete_collection
      /\ ~put_single_moving_feature /\ ~delete_single_moving_feature
      /\ ~post_tgsequence /\ ~delete_single_temporal_primitive_geo
  BY DEF post_collections, post_collections_insert, put_collection, delete_collection,
         put_single_moving_feature, delete_single_moving_feature,
         post_tgsequence, delete_single_temporal_primitive_geo,
         Answer, AnswerInExcept, Raise, StatementFails, Execute, ExecuteLast
<1>3. /\ ~NoSuchFeature /\ ~NoPropertyTables /\ ~post_tproperties_values
      /\ ~post_temporal_property /\ ~delete_temporal_property
  BY DEF NoSuchFeature, NoPropertyTables, post_tproperties_values, post_temporal_property,
         delete_temporal_property, Answer, Raise, StatementFails, Execute, ExecuteLast
<1>4. /\ ~post_collection_items /\ ~insert_feature_tables /\ ~insert_feature_geometry
      /\ ~post_bulk /\ ~append_observations_row /\ ~append_observations_instant
  <2>1. \A rest : NextItem(rest, "feature") # "idle" /\ NextItem(rest, "observe") # "idle"
    BY DEF NextItem
  <2>2. QED
    BY <2>1 DEF post_collection_items, insert_feature_tables, insert_feature_geometry,
         post_bulk, append_observations_row, append_observations_instant,
         Answer, Raise, StatementFails, Execute
<1>5. ~insert_feature_row
  <2>1. \A rest : NextItem(rest, "feature") # "idle"
    BY DEF NextItem
  <2>2. QED
    BY <2>1 DEF insert_feature_row, AfterRow
<1>6. ~Commit
  BY LabelsType DEF Commit
<1>7. CASE post_tproperties
  BY <1>7 DEF post_tproperties, store, Answer, Raise, Execute
<1>8. CASE Except \/ Respond \/ ClientGone \/ Kill \/ Receive \/ DatabaseRestart
  <2>1. CASE Except
    BY <2>1 DEF Except, Rollback, store
  <2>2. CASE Respond \/ ClientGone
    BY <2>2 DEF Respond, ClientGone, Rollback, store
  <2>3. CASE Kill \/ Receive
    BY <2>3 DEF Kill, Receive, store
  <2>4. CASE DatabaseRestart
    <3>1. pc = "idle"
      BY <2>4 DEF DatabaseRestart
    <3>2. QED
      BY <2>4, <3>1, LabelsType DEF DatabaseRestart
  <2>5. QED
    BY <1>8, <2>1, <2>2, <2>3, <2>4
<1>9. CASE Interrupt
  BY <1>9 DEF Interrupt
<1>10. CASE UNCHANGED vars
  BY <1>10 DEF vars, store
<1>11. QED
  BY ZenonT(60), <1>1, <1>2, <1>3, <1>4, <1>5, <1>6, <1>7, <1>8, <1>9, <1>10
  DEF Next, ServerStep, Environment

\* What a request draws from the SERIAL columns, one value per item at least.
LEMMA DrawsAre ==
  ASSUME NEW r \in Request
  PROVE  /\ Len(r.items) \in Nat /\ Draws(r) \in Nat /\ Draws(r) >= Len(r.items)
         /\ r.op = "post_tproperties" => Draws(r) >= 2
         /\ r.op = "post_temporal_property" => Draws(r) >= 1
<1>1. r.items \in Seq(Items)
  BY DEF Request
<1>2. Len(r.items) \in Nat
  BY <1>1
<1>3. \E k \in {0, 1, 2} : /\ Draws(r) = Len(r.items) + k
                           /\ r.op = "post_tproperties" => k = 2
                           /\ r.op = "post_temporal_property" => k = 1
  BY DEF Draws
<1>4. QED
  BY <1>2, <1>3

\* Sums under a bound.
LEMMA Sums ==
  ASSUME NEW s \in Nat, NEW m \in Nat, NEW k \in Nat, NEW l \in Nat, NEW j \in Nat
  PROVE  /\ s + k <= m => s <= m
         /\ s + l <= m /\ k + j <= l => (s + j) + k <= m
         /\ s + 0 = s /\ s + 1 \in Nat /\ s <= s
  OBVIOUS

\* A step to the end of a handler, or along its loop, has room.
LEMMA RoomLeft ==
  ASSUME serial \in Nat, MaxSerial \in Nat, serial' \in Nat, pc' \notin Outcomes,
         \/ pc' \in {"finish", "tables"} /\ serial' <= MaxSerial
         \/ pc' \in {"finish", "property"} /\ serial' + 1 <= MaxSerial
         \/ /\ pc' \notin {"property", "insert values"}
            /\ Len(todo') \in Nat /\ serial' + Len(todo') <= MaxSerial
  PROVE  RoomInv'
<1>1. pc' \notin {"start", "check"}
  BY DEF Outcomes
<1>2. CASE pc' \in {"finish", "tables"} /\ serial' <= MaxSerial
  BY <1>1, <1>2 DEF RoomInv, FeatureLabels, BatchLabels
<1>3. CASE pc' \in {"finish", "property"} /\ serial' + 1 <= MaxSerial
  <2>1. serial' <= MaxSerial
    BY <1>3, Sums
  <2>2. QED
    BY <1>1, <1>3, <2>1 DEF RoomInv, FeatureLabels, BatchLabels
<1>4. CASE /\ pc' \notin {"property", "insert values"}
           /\ Len(todo') \in Nat /\ serial' + Len(todo') <= MaxSerial
  <2>1. serial' <= MaxSerial
    BY <1>4, Sums
  <2>2. QED
    BY <1>1, <1>4, <2>1 DEF RoomInv
<1>5. QED
  BY <1>2, <1>3, <1>4

\* Naming the first item keeps the length of a body.
LEMMA SameLength ==
  ASSUME NEW seq \in Seq(Items), seq # <<>>, NEW id
  PROVE  Len([seq EXCEPT ![1].id = id]) = Len(seq)
<1> DEFINE item == [seq[1] EXCEPT !.id = id]
<1>1. [seq EXCEPT ![1].id = id] = [seq EXCEPT ![1] = item]
  OBVIOUS
<1> HIDE DEF item
<1>2. Len([seq EXCEPT ![1] = item]) = Len(seq)
  OBVIOUS
<1>3. QED
  BY <1>1, <1>2

\* Each draw was counted.
LEMMA RoomWorks ==
  ASSUME TypeInv, RoomInv, Works
  PROVE  RoomInv'
<1> USE DEF At, Handles
<1>1. req \in Request /\ req \in Requests /\ pc \in Executing /\ pc' \notin Outcomes
  <2>1. pc # "idle"
    BY DEF Works, Executing
  <2>2. QED
    BY <2>1, RequestType DEF Works, TypeInv, TypeOK
<1>2. /\ serial \in Nat /\ MaxSerial \in Nat /\ Len(todo) \in Nat
      /\ Len(req.items) \in Nat /\ Draws(req) \in Nat /\ Draws(req) >= Len(req.items)
  <2>1. todo \in Seq(Items)
    BY DEF TypeInv, TypeOK
  <2>2. Len(todo) \in Nat
    BY <2>1
  <2>3. QED
    BY <1>1, <2>2, DrawsAre, BoundAssumption DEF TypeInv, TypeOK
<1>3. /\ "idle" \in Outcomes /\ "start" \in Outcomes /\ "check" \in Outcomes
      /\ "except" \in Outcomes /\ "respond" \in Outcomes /\ "respond in except" \in Outcomes
  BY DEF Outcomes
<1>4. serial <= MaxSerial /\ (pc = "check" => serial + Draws(req) <= MaxSerial)
  BY DEF RoomInv
<1>5. pc = "check" => serial + Len(req.items) <= MaxSerial
  BY <1>2, <1>4
<1>6. CASE \/ post_collections \/ post_collections_insert \/ put_collection \/ delete_collection
           \/ delete_single_moving_feature \/ delete_single_temporal_primitive_geo
           \/ delete_temporal_property
  <2>1. serial' = serial /\ pc' \in {"finish", "tables"}
    BY ZenonT(60), <1>1, <1>3, <1>6 DEF post_collections, post_collections_insert, put_collection,
       delete_collection, delete_single_moving_feature, delete_single_temporal_primitive_geo,
       delete_temporal_property, Answer, StatementFails, Execute, ExecuteLast
  <2>2. QED
    BY <1>1, <1>2, <1>4, <2>1, RoomLeft
<1>7. CASE post_collection_items \/ post_bulk
  <2>1. /\ pc = "check" /\ serial' = serial /\ todo' = req.items
        /\ pc' = NextItem(req.items, "feature") \/ pc' = NextItem(req.items, "observe")
    <3>1. CASE post_collection_items
      BY <1>1, <1>3, <3>1 DEF post_collection_items, Answer, Raise, store
    <3>2. CASE post_bulk
      <4>1. \A status : ~Answer(status) /\ ~Raise(status)
        BY <1>1, <1>3 DEF Answer, Raise
      <4>2. /\ pc = "check" /\ UNCHANGED store
            /\ todo' = req.items /\ pc' = NextItem(req.items, "observe")
        BY ZenonT(60), <3>2, <4>1 DEF post_bulk
      <4>3. QED
        BY <4>2 DEF store
    <3>3. QED
      BY <1>7, <3>1, <3>2
  <2>2. pc' \notin {"property", "insert values"}
    BY <2>1 DEF NextItem
  <2>3. serial' + Len(todo') <= MaxSerial /\ Len(todo') \in Nat /\ serial' \in Nat
    BY <1>2, <1>5, <2>1
  <2>4. QED
    BY <1>1, <1>2, <2>2, <2>3, RoomLeft
<1>8. CASE put_single_moving_feature
  <2>1. /\ pc = "check" /\ serial' = serial /\ pc' = "feature"
        /\ todo' = <<[req.items[1] EXCEPT !.id = req.fid]>>
    <3>1. ~Answer(404)
      BY Zenon, <1>1, <1>3 DEF Answer
    <3>2. /\ pc = "check" /\ serial' = serial
          /\ Execute(DeleteFeatures(work, {req.fid}), "feature")
          /\ todo' = <<[req.items[1] EXCEPT !.id = req.fid]>>
      BY Zenon, <1>8, <3>1 DEF put_single_moving_feature
    <3>3. QED
      BY Zenon, <3>2 DEF Execute
  <2>2. Len(todo') = 1
    <3> DEFINE item == [req.items[1] EXCEPT !.id = req.fid]
    <3> HIDE DEF item
    <3>1. todo' = <<item>>
      BY <2>1 DEF item
    <3>2. QED
      BY <3>1
  <2>3. Len(req.items) = 1
    BY <1>1, <1>8, <2>1, RequestsAssumption DEF put_single_moving_feature, TypeInv, Control
  <2>4. serial' + Len(todo') <= MaxSerial /\ Len(todo') \in Nat /\ serial' \in Nat
    BY <1>2, <1>5, <2>1, <2>2, <2>3
  <2>5. QED
    BY <1>1, <1>2, <2>1, <2>4, RoomLeft
<1>9. ASSUME pc \in FeatureLabels \cup BatchLabels, NEW k \in {0, 1}, serial' = serial + k,
             Len(todo') \in Nat, Len(todo') + k <= Len(todo),
             pc' \notin {"property", "insert values"}
      PROVE  RoomInv'
  <2>1. serial + Len(todo) <= MaxSerial
    BY <1>9 DEF RoomInv
  <2>2. k \in Nat /\ serial + k \in Nat
    BY <1>2
  <2>3. (serial + k) + Len(todo') <= MaxSerial
    BY <1>2, <1>9, <2>1, <2>2, Sums
  <2>4. serial' + Len(todo') <= MaxSerial /\ serial' \in Nat
    BY <1>9, <2>2, <2>3
  <2>5. QED
    BY <1>1, <1>2, <1>9, <2>4, RoomLeft
<1>10. \A l : \A rest : NextItem(rest, l) \in {"finish", l}
  BY DEF NextItem
<1>11. CASE insert_feature_tables \/ append_observations_row
  <2>1. serial' = serial /\ todo' = todo /\ pc' \in {"features", "append instant"}
    BY <1>1, <1>3, <1>11 DEF insert_feature_tables, append_observations_row, Raise, Execute, loop
  <2>2. pc \in {"feature", "observe"}
    BY <1>11 DEF insert_feature_tables, append_observations_row
  <2>3. pc \in FeatureLabels \cup BatchLabels
    BY <2>2 DEF FeatureLabels, BatchLabels
  <2>4. serial' = serial + 0 /\ Len(todo') \in Nat /\ Len(todo') + 0 <= Len(todo)
    BY <1>2, <2>1, Sums
  <2>5. pc' \notin {"property", "insert values"}
    BY <2>1
  <2>6. QED
    BY <1>9, <2>3, <2>4, <2>5
<1>12. todo # <<>> => /\ Tail(todo) \in Seq(Items) /\ Len(Tail(todo)) \in Nat
                      /\ Len(Tail(todo)) + 1 <= Len(todo)
  <2>1. todo \in Seq(Items)
    BY DEF TypeInv, TypeOK
  <2>2. QED
    BY <2>1
<1>13. CASE insert_feature_row
  <2>1. pc = "insert feature" /\ serial' = serial /\ pc \in FeatureLabels \cup BatchLabels
    BY <1>13 DEF insert_feature_row, FeatureLabels
  <2>2. todo # <<>> /\ todo \in Seq(Items)
    BY <2>1 DEF TypeInv, TypeOK, Control, FeatureLabels
  <2>3. PICK id, fresh : AfterRow(id, fresh)
    BY <1>13 DEF insert_feature_row
  <2>4. serial' = serial + 0
    BY <1>2, <2>1, Sums
  <2>5. CASE pc' = "insert geometry" /\ todo' = [todo EXCEPT ![1].id = id]
    <3>1. Len(todo') = Len(todo)
      BY <2>2, <2>5, SameLength
    <3>2. Len(todo') \in Nat /\ Len(todo') + 0 <= Len(todo)
      BY <1>2, <3>1, Sums
    <3>3. QED
      BY <1>9, <2>1, <2>4, <2>5, <3>2
  <2>6. CASE pc' = NextItem(Tail(todo), "feature") /\ todo' = Tail(todo)
    <3>1. Len(todo') \in Nat /\ Len(todo') + 0 <= Len(todo)
      BY <1>2, <1>12, <2>2, <2>6
    <3>2. pc' \notin {"property", "insert values"}
      BY <2>6 DEF NextItem
    <3>3. QED
      BY <1>9, <2>1, <2>4, <3>1, <3>2
  <2>7. QED
    BY <1>1, <1>3, <2>3, <2>5, <2>6 DEF AfterRow
<1>14. CASE insert_feature_geometry \/ append_observations_instant
  <2>1. pc \in {"insert geometry", "append instant"}
    BY <1>14 DEF insert_feature_geometry, append_observations_instant
  <2>2. pc \in FeatureLabels \cup BatchLabels /\ todo # <<>>
    BY <2>1 DEF TypeInv, Control, FeatureLabels, BatchLabels
  <2>3. /\ todo' = Tail(todo)
        /\ pc' = NextItem(Tail(todo), "feature") \/ pc' = NextItem(Tail(todo), "observe")
        /\ serial' = serial \/ serial' = serial + 1
    BY <1>1, <1>3, <1>14 DEF insert_feature_geometry, append_observations_instant,
       StatementFails, Execute, Draw
  <2>4. pc' \notin {"property", "insert values"}
    BY <2>3 DEF NextItem
  <2>5. PICK k \in {0, 1} : serial' = serial + k
    BY <1>2, <2>3
  <2>6. Len(todo') \in Nat /\ Len(todo') + k <= Len(todo)
    BY <1>2, <1>12, <2>2, <2>3
  <2>7. QED
    BY <1>9, <2>2, <2>4, <2>5, <2>6
<1>15. CASE post_tgsequence
  <2>1. pc = "check" /\ serial' = serial + 1 /\ pc' = "finish"
    <3>1. (serial' = serial + 1 /\ pc' = "finish") \/ pc' \in {"respond", "except"}
      BY <1>15 DEF post_tgsequence, Answer, StatementFails, Execute, Draw
    <3>2. QED
      BY <1>1, <1>3, <1>15, <3>1 DEF post_tgsequence
  <2>2. Len(req.items) = 1
    BY <1>1, <1>15, <2>1, RequestsAssumption DEF post_tgsequence, TypeInv, Control
  <2>3. serial' <= MaxSerial /\ serial' \in Nat
    BY <1>2, <1>5, <2>1, <2>2
  <2>4. QED
    BY <1>1, <1>2, <2>1, <2>3, RoomLeft
<1>16. CASE post_tproperties
  <2>1. /\ pc = "check" /\ req.op = "post_tproperties" /\ serial' = serial + 1
        /\ pc' \in {"finish", "property"}
    BY <1>1, <1>3, <1>16 DEF post_tproperties, Answer, Raise, Leave, Execute, Draw
  <2>2. Draws(req) >= 2
    BY <1>1, <2>1, DrawsAre
  <2>3. serial' + 1 <= MaxSerial /\ serial' \in Nat
    BY <1>2, <1>4, <2>1, <2>2
  <2>4. QED
    BY <1>1, <1>2, <2>1, <2>3, RoomLeft
<1>17. CASE post_tproperties_values
  <2>1. pc = "insert values" /\ serial' = serial + 1 /\ pc' = "finish"
    BY <1>1, <1>3, <1>17 DEF post_tproperties_values, Raise, StatementFails, Execute, Draw
  <2>2. serial + 1 <= MaxSerial
    BY <2>1 DEF RoomInv
  <2>3. serial' <= MaxSerial /\ serial' \in Nat
    BY <1>2, <2>1, <2>2, Sums
  <2>4. QED
    BY <1>1, <1>2, <2>1, <2>3, RoomLeft
<1>18. CASE post_temporal_property
  <2>1. /\ pc = "check" /\ req.op = "post_temporal_property" /\ serial' = serial + 1
        /\ pc' = "finish"
    <3>1. /\ pc = "check" /\ req.op = "post_temporal_property"
          /\ \/ serial' = serial + 1 /\ pc' = "finish"
             \/ pc' \in {"respond", "except"}
      BY <1>18 DEF post_temporal_property, Answer, Raise, Execute, Draw
    <3>2. QED
      BY <1>1, <1>3, <3>1
  <2>2. Draws(req) >= 1
    BY <1>1, <2>1, DrawsAre
  <2>3. serial' <= MaxSerial /\ serial' \in Nat
    BY <1>2, <1>4, <2>1, <2>2
  <2>4. QED
    BY <1>1, <1>2, <2>1, <2>3, RoomLeft
<1>19. QED
  BY <1>6, <1>7, <1>8, <1>11, <1>13, <1>14, <1>15, <1>16, <1>17, <1>18 DEF Works, Statements

\* Where the commits lead.
LEMMA CommitsTo ==
  /\ DOMAIN AfterCommit = {"tables", "features", "property", "finish"}
  /\ AfterCommit["tables"] = "insert collection" /\ AfterCommit["features"] = "insert feature"
  /\ AfterCommit["property"] = "insert values" /\ AfterCommit["finish"] = "respond"
  BY DEF AfterCommit

\* The bound is kept.
LEMMA RoomStep == TypeInv /\ RoomInv /\ [Next]_vars => RoomInv'
<1> SUFFICES ASSUME TypeInv, RoomInv, [Next]_vars PROVE RoomInv'
  OBVIOUS
<1>1. Course /\ serial <= MaxSerial
  BY EveryStep DEF RoomInv
<1>2. "idle" \notin FeatureLabels \cup BatchLabels \cup {"start", "check", "property", "insert values"}
  BY DEF FeatureLabels, BatchLabels
<1>3. CASE Leave
  BY <1>1, <1>2, <1>3, Leaving DEF Leave, RoomInv
<1>4. CASE Arrives
  <2>1. CASE pc = "idle"
    <3>1. pc' = "start" /\ Receive
      <4>1. pc' = "start"
        BY <1>4, <2>1 DEF Arrives
      <4>2. Epilogue
        BY <2>1, EpilogueSteps
      <4>3. QED
        BY <2>1, <4>1, <4>2 DEF Epilogue, Except, Respond, ClientGone, DatabaseRestart, Kill,
           Interrupt, Leave, vars
    <3>2. serial + Draws(req') <= MaxSerial /\ serial' = serial
      BY <3>1 DEF Receive, RoomFor, store
    <3>3. QED
      BY <1>1, <3>1, <3>2 DEF RoomInv, FeatureLabels, BatchLabels
  <2>2. CASE pc = "start" /\ pc' = "check" /\ Kept
    <3>1. serial' = serial /\ Draws(req') = Draws(req)
      BY <1>4, <2>2 DEF Arrives, Kept
    <3>2. QED
      BY <1>1, <2>2, <3>1 DEF RoomInv, FeatureLabels, BatchLabels
  <2>3. QED
    BY <1>4, <2>1, <2>2 DEF Arrives
<1>5. CASE Refuses \/ Shows
  <2>1. serial' = serial /\ pc' \in {"except", "respond", "respond in except"}
    BY <1>5 DEF Refuses, Shows
  <2>2. QED
    BY <1>1, <2>1 DEF RoomInv, FeatureLabels, BatchLabels
<1>6. CASE Waits
  BY <1>6 DEF Waits, Kept, RoomInv
<1>7. CASE Works
  BY <1>7, RoomWorks
<1>8. CASE Commit
  <2>1. serial' = serial /\ req' = req /\ todo' = todo /\ pc \in DOMAIN AfterCommit /\ pc' = AfterCommit[pc]
    BY <1>8 DEF Commit, request, loop
  <2>2. \/ pc' \in {"insert collection", "respond"}
        \/ pc = "features" /\ pc' = "insert feature"
        \/ pc = "property" /\ pc' = "insert values"
    BY <2>1, CommitsTo
  <2>3. QED
    BY <1>1, <2>1, <2>2 DEF RoomInv, FeatureLabels, BatchLabels
<1>9. QED
  BY <1>1, <1>3, <1>4, <1>5, <1>6, <1>7, <1>8 DEF Course

-----------------------------------------------------------------------------
(* Statements that are operations.                                         *)

\* Documents and tables agree on which collections and features there are.
LEMMA DocumentsHave ==
  ASSUME NEW db, NEW c, NEW f
  PROVE  /\ Contract!HasCollection(DocumentsOf(db), c) <=> HasCollection(db, c)
         /\ Contract!HasFeature(DocumentsOf(db), c, f) <=> HasFeature(db, c, f)
         /\ HasFeature(db, c, f) => DocumentsOf(db).features[f] = DocumentOf(db, f)
  BY DocumentFields DEF Contract!HasCollection, Contract!HasFeature, HasCollection, HasFeature

\* A collection is created or replaced,
LEMMA PutOperation ==
  ASSUME NEW db, IsDatabase(db), NEW c, NEW title
  PROVE  LET old == DocumentsOf(db)
             new == DocumentsOf(PutCollectionRow(db, c, title))
         IN  IF HasCollection(db, c)
             THEN Contract!Operation(old, new,
                    [do |-> "replace collection", cid |-> c, title |-> title])
             ELSE Contract!Operation(old, new,
                    [do |-> "create collection", cid |-> c, title |-> title])
<1> DEFINE old == DocumentsOf(db)
           new == DocumentsOf(PutCollectionRow(db, c, title))
<1>1. new = Contract!WithCollection(old, c, title)
  BY PutDocuments
<1>2. Contract!HasCollection(old, c) <=> HasCollection(db, c)
  BY DocumentsHave
<1> HIDE DEF old, new
<1>3. QED
  BY <1>1, <1>2
  DEF old, new, Contract!Operation, Contract!CreateCollection, Contract!ReplaceCollection

\* or removed;
LEMMA RemoveCollectionOperation ==
  ASSUME NEW db, IsDatabase(db), ReferencesHold(db), ColumnsAgree(db), NEW c, HasCollection(db, c)
  PROVE  Contract!Operation(DocumentsOf(db), DocumentsOf(DeleteCollectionRow(db, c)),
                            [do |-> "remove collection", cid |-> c])
<1> DEFINE deleted == DeleteCollectionRow(db, c)
           old == DocumentsOf(db)  new == DocumentsOf(deleted)
           F == {f \in DOMAIN old.features : old.features[f].cid = c}
           o == [do |-> "remove collection", cid |-> c]
<1>1. IsDatabase(deleted) /\ CollectionDeleted(db, deleted, c)
  BY DeleteCollectionRowType, DeleteCollectionRowFields
<1> HIDE DEF deleted
<1>2. new = Contract!Contents(Contract!Without(old.collections, {c}), Contract!Without(old.features, F))
  BY <1>1, DeleteDocuments
<1>3. Contract!HasCollection(old, c)
  BY DocumentsHave
<1>4. o.do = "remove collection" /\ o.cid = c
  OBVIOUS
<1> HIDE DEF old, new, o
<1>5. Contract!RemoveCollection(old, new, o)
  BY <1>2, <1>3, <1>4 DEF Contract!RemoveCollection
<1>6. QED
  BY <1>5 DEF Contract!Operation, old, new, o, deleted

\* a feature is removed;
LEMMA RemoveFeatureOperation ==
  ASSUME NEW db, IsDatabase(db), ReferencesHold(db), NEW c, NEW f, HasFeature(db, c, f)
  PROVE  Contract!Operation(DocumentsOf(db), DocumentsOf(DeleteFeatures(db, {f})),
                            [do |-> "remove feature", cid |-> c, fid |-> f])
<1> DEFINE deleted == DeleteFeatures(db, {f})
           old == DocumentsOf(db)  new == DocumentsOf(deleted)
           o == [do |-> "remove feature", cid |-> c, fid |-> f]
<1>1. FeaturesDeleted(db, deleted, {f})
  BY DeleteFeaturesFields
<1> HIDE DEF deleted
<1>2. new = Contract!WithoutFeatures(old, {f})
  BY <1>1, DeleteDocument
<1>3. Contract!HasFeature(old, c, f)
  BY DocumentsHave
<1>4. o.do = "remove feature" /\ o.cid = c /\ o.fid = f
  OBVIOUS
<1> HIDE DEF old, new, o
<1>5. Contract!RemoveFeature(old, new, o)
  BY <1>2, <1>3, <1>4 DEF Contract!RemoveFeature
<1>6. QED
  BY <1>5 DEF Contract!Operation, old, new, o, deleted

\* A key that is drawn is new, and greater than those there are.
LEMMA DrawnKey ==
  ASSUME NEW db, IsDatabase(db), NEW n \in Nat, KeysDrawn(db, n)
  PROVE  /\ \A g \in DOMAIN db.geometries : g < n + 1
         /\ \A v \in DOMAIN db.values : v < n + 1
         /\ n + 1 \notin DOMAIN db.geometries /\ n + 1 \notin DOMAIN db.values
         /\ n + 1 \notin DOMAIN db.properties
<1>1. /\ DOMAIN db.geometries \subseteq Nat /\ DOMAIN db.properties \subseteq Nat
      /\ DOMAIN db.values \subseteq Nat
  BY DEF IsDatabase, IsTable
<1>2. QED
  BY <1>1 DEF KeysDrawn

\* A trajectory is added, under a key that is drawn,
LEMMA AddTrajectoryOperation ==
  ASSUME NEW db, IsDatabase(db), NEW n \in Nat, KeysDrawn(db, n), n + 1 \in 0..MaxSerial,
         NEW c, NEW f, HasFeature(db, c, f), NEW traj, NEW geometry,
         NEW new, GeometryInserted(db, new, n + 1, f, c, traj, geometry)
  PROVE  Contract!Operation(DocumentsOf(db), DocumentsOf(new),
                            [do |-> "add trajectory", cid |-> c, fid |-> f, path |-> traj])
<1> DEFINE old == DocumentsOf(db)  age == n + 1  feature == DocumentOf(db, f)
           o == [do |-> "add trajectory", cid |-> c, fid |-> f, path |-> traj]
<1>1. (\A g \in DOMAIN db.geometries : g < age) /\ age \notin DOMAIN db.geometries
  BY DrawnKey
<1>2. f \in DOMAIN db.features /\ old.features[f] = feature /\ Contract!HasFeature(old, c, f)
  BY DocumentsHave DEF HasFeature
<1>3. feature.paths = PathsOf(db, f)
  BY DocumentFields
<1>4. Contract!Grows(PathsOf(db, f), age)
  BY <1>1 DEF Contract!Grows, PathsOf, GeometriesOf
<1> HIDE DEF age
<1>5. DocumentsOf(new) =
        Contract!WithFeature(old, f,
          Contract!WithPaths(feature, Contract!Set(PathsOf(db, f), age, traj)))
  BY <1>1, <1>2, GeometryDocument DEF age
<1>6. age \in 0..MaxSerial
  BY DEF age
<1>7. o.do = "add trajectory" /\ o.cid = c /\ o.fid = f /\ o.path = traj
  OBVIOUS
<1> HIDE DEF old, feature, o
<1>8. Contract!AddTrajectory(old, DocumentsOf(new), o)
  BY <1>2, <1>3, <1>4, <1>5, <1>6, <1>7 DEF Contract!AddTrajectory
<1>9. QED
  BY <1>8 DEF Contract!Operation, old, o

\* A trajectory of several members keeps one when one is removed.
LEMMA MemberLeft ==
  ASSUME NEW traj \in Trajectories, NEW n \in DOMAIN traj, Len(traj) > 1
  PROVE  RemoveMember(traj, n) # <<>>
<1>1. traj \in Seq(SUBSET Instants) /\ n \in 1..Len(traj) /\ Len(traj) \in Nat
  BY DEF Trajectories
<1>2. RemoveMember(traj, n) = SubSeq(traj, 1, n - 1) \o SubSeq(traj, n + 1, Len(traj))
  BY DEF RemoveMember, RemoveAt
<1>3. CASE n = 1
  <2>1. SubSeq(traj, n + 1, Len(traj)) \in Seq(SUBSET Instants)
        /\ Len(SubSeq(traj, n + 1, Len(traj))) = Len(traj) - 1
    BY <1>1, <1>3
  <2>2. SubSeq(traj, 1, n - 1) \in Seq(SUBSET Instants) /\ Len(SubSeq(traj, 1, n - 1)) = 0
    BY <1>1, <1>3
  <2>3. QED
    BY <1>1, <1>2, <2>1, <2>2
<1>4. CASE n # 1
  <2>1. SubSeq(traj, 1, n - 1) \in Seq(SUBSET Instants) /\ Len(SubSeq(traj, 1, n - 1)) = n - 1
    BY <1>1, <1>4
  <2>2. SubSeq(traj, n + 1, Len(traj)) \in Seq(SUBSET Instants)
        /\ Len(SubSeq(traj, n + 1, Len(traj))) \in Nat
    BY <1>1, <1>4
  <2>3. QED
    BY <1>1, <1>2, <1>4, <2>1, <2>2
<1>5. QED
  BY <1>3, <1>4

\* or a member of its trajectories removed;
LEMMA RemoveMemberOperation ==
  ASSUME NEW db, IsDatabase(db), ColumnsAgree(db),
         NEW c, NEW f, HasFeature(db, c, f), NEW n \in Int,
         \E g \in GeometriesIn(db, c, f) :
            n \in DOMAIN db.geometries[g].traj /\ Len(db.geometries[g].traj) > 1,
         NEW new, new = UpdateTrajectories(db,
           [g \in GeometriesIn(db, c, f) |-> RemoveMember(db.geometries[g].traj, n)])
  PROVE  Contract!Operation(DocumentsOf(db), DocumentsOf(new),
                            [do |-> "remove member", cid |-> c, fid |-> f, n |-> n])
<1> DEFINE old == DocumentsOf(db)  feature == DocumentOf(db, f)
           paths == PathsOf(db, f)
           removed == [a \in DOMAIN paths |-> Contract!WithoutMember(paths[a], n)]
           trajs == [g \in GeometriesIn(db, c, f) |-> RemoveMember(db.geometries[g].traj, n)]
           o == [do |-> "remove member", cid |-> c, fid |-> f, n |-> n]
<1>1. GeometriesIn(db, c, f) = GeometriesOf(db, f)
  BY DEF GeometriesIn, GeometriesOf, ColumnsAgree, HasFeature
<1>2. DOMAIN paths = GeometriesOf(db, f) /\ \A g \in DOMAIN paths : paths[g] = db.geometries[g].traj
  BY DEF PathsOf
<1>3. \A g \in GeometriesOf(db, f) : db.geometries[g].traj \in Trajectories
  BY DEF GeometriesOf, IsDatabase, IsTable, GeometryRow
<1>4. \A traj : Contract!WithoutMember(traj, n) = RemoveMember(traj, n)
  BY Zenon DEF Contract!WithoutMember, Contract!RemoveAt, RemoveAt, RemoveMember, Null
<1> HIDE DEF paths
<1>5. /\ DOMAIN removed = GeometriesOf(db, f) /\ DOMAIN trajs = GeometriesOf(db, f)
      /\ \A g \in GeometriesOf(db, f) : /\ removed[g] = RemoveMember(db.geometries[g].traj, n)
                                        /\ trajs[g] = RemoveMember(db.geometries[g].traj, n)
  BY <1>1, <1>2, <1>4
<1>6. [g \in GeometriesOf(db, f) |-> trajs[g]] = removed
  BY <1>1, <1>2, <1>4
<1>7. \E a \in DOMAIN paths : n \in DOMAIN paths[a] /\ removed[a] # <<>>
  BY <1>1, <1>2, <1>3, <1>5, MemberLeft
<1>8. \A g \in DOMAIN trajs : trajs[g] \in Trajectories
  BY <1>3, <1>5, RemoveMemberType
<1>9. new = UpdateTrajectories(db, trajs)
  OBVIOUS
<1> HIDE DEF trajs, removed
<1>10. TrajectoriesUpdated(db, new, trajs)
  BY <1>8, <1>9, UpdateTrajectoriesFields
<1>11. f \in DOMAIN db.features /\ old.features[f] = feature /\ Contract!HasFeature(old, c, f)
  BY DocumentsHave DEF HasFeature
<1>12. feature.paths = paths
  BY DocumentFields DEF paths
<1>13. DocumentsOf(new) = Contract!WithFeature(old, f, Contract!WithPaths(feature, removed))
  BY <1>5, <1>6, <1>10, <1>11, TrajectoriesDocument
<1>14. o.do = "remove member" /\ o.cid = c /\ o.fid = f /\ o.n = n
  OBVIOUS
<1> HIDE DEF old, feature, o
<1>15. Contract!RemoveMember(old, DocumentsOf(new), o)
  BY <1>7, <1>11, <1>12, <1>13, <1>14 DEF Contract!RemoveMember, removed
<1>16. QED
  BY <1>15 DEF Contract!Operation, old, o


\* a property is added,
LEMMA AddPropertyOperation ==
  ASSUME NEW db, IsDatabase(db), ReferencesHold(db), NEW c, NEW f, HasFeature(db, c, f),
         NEW name, PropertiesNamed(db, f, name) = {}, NEW p, p \notin DOMAIN db.properties,
         NEW new, PropertyInserted(db, new, p, f, name)
  PROVE  Contract!Operation(DocumentsOf(db), DocumentsOf(new),
                            [do |-> "add property", cid |-> c, fid |-> f, name |-> name])
<1> DEFINE old == DocumentsOf(db)  feature == DocumentOf(db, f)
           o == [do |-> "add property", cid |-> c, fid |-> f, name |-> name]
<1>1. f \in DOMAIN db.features /\ old.features[f] = feature /\ Contract!HasFeature(old, c, f)
  BY DocumentsHave DEF HasFeature
<1>2. feature.properties = ArraysByName(db, f)
  BY DocumentFields
<1>3. name \notin DOMAIN ArraysByName(db, f)
  BY DEF ArraysByName, NamesOf, PropertiesNamed
<1>4. DocumentsOf(new) =
        Contract!WithFeature(old, f,
          Contract!WithProperties(feature,
            Contract!Set(ArraysByName(db, f), name, Contract!Nothing)))
  BY <1>1, PropertyDocument
<1>5. o.do = "add property" /\ o.cid = c /\ o.fid = f /\ o.name = name
  OBVIOUS
<1> HIDE DEF old, feature, o
<1>6. Contract!AddProperty(old, DocumentsOf(new), o)
  BY <1>1, <1>2, <1>3, <1>4, <1>5 DEF Contract!AddProperty
<1>7. QED
  BY <1>6 DEF Contract!Operation, old, o

\* or its values, after those it has,
LEMMA AddValuesOperation ==
  ASSUME NEW db, IsDatabase(db), NamesUnique(db), NEW n \in Nat, KeysDrawn(db, n),
         n + 1 \in 0..MaxSerial,
         NEW c, NEW f, HasFeature(db, c, f), NEW name, NEW p \in PropertiesNamed(db, f, name),
         NEW body, NEW times, times = body.times, times # <<>> => Continues(db, p, Head(times)),
         NEW new, ValuesInserted(db, new, n + 1, p, body)
  PROVE  Contract!Operation(DocumentsOf(db), DocumentsOf(new),
           [do |-> "add values", cid |-> c, fid |-> f, name |-> name, times |-> times])
<1> DEFINE old == DocumentsOf(db)  age == n + 1  feature == DocumentOf(db, f)
           named == ArraysByName(db, f)  arrays == named[name]
           o == [do |-> "add values", cid |-> c, fid |-> f, name |-> name, times |-> times]
<1>1. (\A v \in DOMAIN db.values : v < age) /\ age \notin DOMAIN db.values
  BY DrawnKey
<1>2. f \in DOMAIN db.features /\ old.features[f] = feature /\ Contract!HasFeature(old, c, f)
  BY DocumentsHave DEF HasFeature
<1>3. feature.properties = named
  BY DocumentFields
<1>4. age \in 0..MaxSerial
  OBVIOUS
<1> HIDE DEF age
<1>5. /\ name \in DOMAIN named /\ DOMAIN arrays = ValuesOf(db, p)
      /\ \A v \in ValuesOf(db, p) : arrays[v] = db.values[v].times
      /\ DocumentsOf(new) =
           Contract!WithFeature(old, f,
             Contract!WithProperties(feature,
               Contract!Set(named, name, Contract!Set(arrays, age, times))))
  BY <1>1, <1>2, ValuesDocument DEF age
<1> HIDE DEF old, feature, named
<1>6. Contract!Grows(arrays, age)
  BY <1>1, <1>5 DEF Contract!Grows, ValuesOf
<1>7. \A v \in DOMAIN arrays : arrays[v] # <<>> /\ times # <<>> => Last(arrays[v]) < Head(times)
  BY <1>5 DEF Continues
<1>8. \A a : Contract!Last(a) = Last(a)
  BY DEF Contract!Last, Last
<1>9. o.do = "add values" /\ o.cid = c /\ o.fid = f /\ o.name = name /\ o.times = times
  OBVIOUS
<1> HIDE DEF o
<1>10. Contract!AddValues(old, DocumentsOf(new), o)
  BY <1>2, <1>3, <1>4, <1>5, <1>6, <1>7, <1>8, <1>9 DEF Contract!AddValues
<1>11. QED
  BY <1>10 DEF Contract!Operation, old, o

\* or removed.
LEMMA RemovePropertyOperation ==
  ASSUME NEW db, IsDatabase(db), NEW c, NEW f, HasFeature(db, c, f), NEW name,
         PropertiesNamed(db, f, name) # {},
         NEW new, new = DeleteProperties(db, PropertiesNamed(db, f, name))
  PROVE  Contract!Operation(DocumentsOf(db), DocumentsOf(new),
                            [do |-> "remove property", cid |-> c, fid |-> f, name |-> name])
<1> DEFINE old == DocumentsOf(db)  feature == DocumentOf(db, f)
           o == [do |-> "remove property", cid |-> c, fid |-> f, name |-> name]
<1>1. f \in DOMAIN db.features /\ old.features[f] = feature /\ Contract!HasFeature(old, c, f)
  BY DocumentsHave DEF HasFeature
<1>2. feature.properties = ArraysByName(db, f)
  BY DocumentFields
<1>3. name \in DOMAIN ArraysByName(db, f)
  BY DEF ArraysByName, NamesOf, PropertiesNamed
<1>4. PropertiesDeleted(db, new, PropertiesNamed(db, f, name))
  BY DeletePropertiesFields
<1>5. DocumentsOf(new) =
        Contract!WithFeature(old, f,
          Contract!WithProperties(feature, Contract!Without(ArraysByName(db, f), {name})))
  BY <1>1, <1>4, PropertiesDocument
<1>6. o.do = "remove property" /\ o.cid = c /\ o.fid = f /\ o.name = name
  OBVIOUS
<1> HIDE DEF old, feature, o
<1>7. Contract!RemoveProperty(old, DocumentsOf(new), o)
  BY <1>1, <1>2, <1>3, <1>5, <1>6 DEF Contract!RemoveProperty
<1>8. QED
  BY <1>7 DEF Contract!Operation, old, o

\* Without things there is nothing of any age.
LEMMA NothingAged == Contract!Aged(<<>>, 0) = Contract!Nothing /\ 0 \in 0..MaxSerial
<1>1. 0 \in 0..MaxSerial
  BY BoundAssumption
<1>2. DOMAIN <<>> = {}
  OBVIOUS
<1>3. {0 : n \in DOMAIN <<>>} = {}
  BY <1>2
<1>4. Contract!Aged(<<>>, 0) = [a \in {} |-> <<>>[1]]
  BY <1>3 DEF Contract!Aged
<1>5. [a \in {} |-> <<>>[1]] = [x \in {} |-> x]
  OBVIOUS
<1>6. QED
  BY <1>1, <1>4, <1>5 DEF Contract!Nothing

\* A Feature is added without a trajectory,
LEMMA AddRowOperation ==
  ASSUME NEW db, ReferencesHold(db), NEW c, HasCollection(db, c), NEW given,
         NEW f, f \notin DOMAIN db.features, f \in IF given = NoId THEN FeatureIds ELSE {given},
         NEW new, FeatureInserted(db, new, f, c),
         NEW o, o = [do |-> "add feature", cid |-> c, fid |-> given, paths |-> <<>>]
  PROVE  Contract!Operation(DocumentsOf(db), DocumentsOf(new), o)
<1> DEFINE old == DocumentsOf(db)
           row == Contract!Feature(c, Contract!Nothing, Contract!Nothing)
<1>1. DocumentsOf(new) = Contract!WithFeature(old, f, row)
  BY InsertDocument
<1>2. DOMAIN old.features = DOMAIN db.features
  BY DocumentFields
<1>3. Contract!HasCollection(old, c)
  BY DocumentsHave
<1>4. Contract!Aged(<<>>, 0) = Contract!Nothing /\ 0 \in 0..MaxSerial
  BY NothingAged
<1>5. o.do = "add feature" /\ o.cid = c /\ o.fid = given /\ o.paths = <<>>
  OBVIOUS
<1>6. f \in IF o.fid = NoId THEN FeatureIds \ DOMAIN old.features ELSE {o.fid}
  BY <1>2, <1>5
<1> HIDE DEF old
<1>7. Contract!AddFeature(old, DocumentsOf(new), o)
  BY <1>1, <1>2, <1>3, <1>4, <1>5, <1>6 DEF Contract!AddFeature
<1>8. QED
  BY <1>7 DEF Contract!Operation, old

\* or not at all because its id is taken.
LEMMA TakenOperation ==
  ASSUME NEW db, NEW c, HasCollection(db, c), NEW f \in DOMAIN db.features, f # NoId,
         NEW o, o.do = "add feature", o.cid = c, o.fid = f
  PROVE  Contract!Operation(DocumentsOf(db), DocumentsOf(db), o)
<1> DEFINE old == DocumentsOf(db)
<1>1. f \in DOMAIN old.features
  BY DocumentFields
<1>2. Contract!HasCollection(old, c)
  BY DocumentsHave
<1>3. 0 \in 0..MaxSerial
  BY NothingAged
<1> HIDE DEF old
<1>4. Contract!AddFeature(old, old, o)
  BY <1>1, <1>2, <1>3 DEF Contract!AddFeature
<1>5. QED
  BY <1>4 DEF Contract!Operation, old

\* What a document that is put is.
LEMMA PutTwice ==
  ASSUME NEW d, NEW f, NEW x, NEW y
  PROVE  /\ Contract!WithFeature(d, f, x).collections = d.collections
         /\ DOMAIN Contract!WithFeature(d, f, x).features = DOMAIN d.features \cup {f}
         /\ Contract!WithFeature(d, f, x).features[f] = x
         /\ \A e \in DOMAIN d.features \ {f} :
              Contract!WithFeature(d, f, x).features[e] = d.features[e]
         /\ Contract!WithFeature(Contract!WithFeature(d, f, x), f, y) = Contract!WithFeature(d, f, y)
<1> DEFINE half == Contract!WithFeature(d, f, x)
<1>1. half.collections = d.collections /\ half.features = Contract!Set(d.features, f, x)
  BY DEF Contract!WithFeature, Contract!Contents
<1>2. /\ DOMAIN half.features = DOMAIN d.features \cup {f} /\ half.features[f] = x
      /\ \A e \in DOMAIN d.features \ {f} : half.features[e] = d.features[e]
  BY <1>1 DEF Contract!Set
<1> HIDE DEF half
<1>3. Contract!Set(half.features, f, y) = Contract!Set(d.features, f, y)
  <2>1. (DOMAIN half.features) \cup {f} = (DOMAIN d.features) \cup {f}
    BY <1>2
  <2>2. \A k \in (DOMAIN d.features) \cup {f} :
          (IF k = f THEN y ELSE half.features[k]) = (IF k = f THEN y ELSE d.features[k])
    BY <1>2
  <2>3. QED
    BY <2>1, <2>2 DEF Contract!Set
<1>4. Contract!WithFeature(half, f, y) = Contract!WithFeature(d, f, y)
  BY <1>1, <1>3 DEF Contract!WithFeature, Contract!Contents
<1>5. QED
  BY <1>1, <1>2, <1>4 DEF half

\* The first path of a feature.
LEMMA FirstPath ==
  ASSUME NEW age, NEW path
  PROVE  Contract!Set(Contract!Nothing, age, path) = Contract!Aged(<<path>>, age)
<1>1. DOMAIN <<path>> = {1} /\ <<path>>[1] = path
  OBVIOUS
<1>2. {age : n \in DOMAIN <<path>>} = {age}
  BY <1>1
<1>3. Contract!Aged(<<path>>, age) = [a \in {age} |-> path]
  BY <1>1, <1>2 DEF Contract!Aged
<1>4. Contract!Set(Contract!Nothing, age, path) = [k \in {age} |-> path]
  BY DEF Contract!Set, Contract!Nothing
<1>5. QED
  BY <1>3, <1>4

\* A feature whose row was inserted in the same transaction gets its path.
LEMMA AddPathOperation ==
  ASSUME NEW db, NEW half, IsDatabase(half), NEW c, HasCollection(half, c), NEW given,
         NEW f, f \notin DOMAIN db.features, f \in IF given = NoId THEN FeatureIds ELSE {given},
         DocumentsOf(half) =
           Contract!WithFeature(DocumentsOf(db), f,
                                Contract!Feature(c, Contract!Nothing, Contract!Nothing)),
         NEW g \in 0..MaxSerial, g \notin DOMAIN half.geometries, NEW traj, NEW geometry,
         NEW new, GeometryInserted(half, new, g, f, c, traj, geometry)
  PROVE  Contract!Operation(DocumentsOf(db), DocumentsOf(new),
           [do |-> "add feature", cid |-> c, fid |-> given, paths |-> <<traj>>])
<1> DEFINE old == DocumentsOf(db)  with == DocumentsOf(half)
           row == Contract!Feature(c, Contract!Nothing, Contract!Nothing)
           full == Contract!Feature(c, Contract!Aged(<<traj>>, g), Contract!Nothing)
           o == [do |-> "add feature", cid |-> c, fid |-> given, paths |-> <<traj>>]
<1>1. with = Contract!WithFeature(old, f, row)
  OBVIOUS
<1>2. DOMAIN old.features = DOMAIN db.features /\ DOMAIN with.features = DOMAIN half.features
  BY DocumentFields
<1>3. \A e \in DOMAIN half.features : with.features[e] = DocumentOf(half, e)
  BY DocumentFields
<1>4. DocumentOf(half, f).paths = PathsOf(half, f)
  BY DocumentFields
<1>5. Contract!HasCollection(with, c)
  BY DocumentsHave
<1> HIDE DEF old, with
<1>6. /\ f \in DOMAIN half.features /\ with.features[f] = row /\ with.collections = old.collections
      /\ \A y : Contract!WithFeature(with, f, y) = Contract!WithFeature(old, f, y)
  BY <1>1, <1>2, PutTwice
<1>7. DocumentOf(half, f) = row /\ PathsOf(half, f) = Contract!Nothing
  BY <1>3, <1>4, <1>6 DEF Contract!Feature
<1>8. DocumentsOf(new) =
        Contract!WithFeature(with, f,
          Contract!WithPaths(DocumentOf(half, f), Contract!Set(PathsOf(half, f), g, traj)))
  BY <1>6, GeometryDocument DEF with
<1>9. Contract!WithPaths(row, Contract!Set(Contract!Nothing, g, traj)) = full
  BY FirstPath DEF Contract!WithPaths, Contract!Feature
<1>10. DocumentsOf(new) = Contract!WithFeature(old, f, full)
  BY <1>6, <1>7, <1>8, <1>9
<1>11. o.do = "add feature" /\ o.cid = c /\ o.fid = given /\ o.paths = <<traj>>
  OBVIOUS
<1>12. f \in IF o.fid = NoId THEN FeatureIds \ DOMAIN old.features ELSE {o.fid}
  BY <1>2, <1>11
<1>13. f \notin DOMAIN old.features /\ Contract!HasCollection(old, c)
  BY <1>2, <1>5, <1>6 DEF Contract!HasCollection
<1> HIDE DEF o, row
<1>14. Contract!AddFeature(old, DocumentsOf(new), o)
  BY <1>10, <1>11, <1>12, <1>13 DEF Contract!AddFeature
<1>15. QED
  BY <1>14 DEF Contract!Operation, old, o

-----------------------------------------------------------------------------
(* A batch, observation by observation.                                    *)

\* What a feature's paths are once it was observed at the given times.
Watched(paths, times, age) ==
  IF paths = Contract!Nothing THEN Contract!Aged(<<<<times>>>>, age)
  ELSE [a \in DOMAIN paths |-> Contract!Continued(paths[a], times)]
Later(paths, t) == \A a \in DOMAIN paths : \A u \in InstantsOf(paths[a]) : u <= t
PathsAre(paths) == paths \in [DOMAIN paths -> Trajectories]

\* A path continued twice,
LEMMA ContinuedTwice ==
  ASSUME NEW path \in Trajectories, NEW T \in SUBSET Instants, NEW t
  PROVE  /\ Contract!Continued(Contract!Continued(path, T), {t}) = Contract!Continued(path, T \cup {t})
         /\ InstantsOf(path) \subseteq InstantsOf(Contract!Continued(path, T))
         /\ path # <<>> => T \subseteq InstantsOf(Contract!Continued(path, T))
<1>1. CASE path = <<>>
  BY <1>1 DEF Contract!Continued
<1>2. CASE path # <<>>
  <2> DEFINE l == Len(path)  one == [path EXCEPT ![l] = @ \cup T]
  <2>1. path \in Seq(SUBSET Instants) /\ l \in DOMAIN path
    BY <1>2 DEF Trajectories
  <2>2. one \in Seq(SUBSET Instants) /\ Len(one) = l /\ DOMAIN one = DOMAIN path
    BY <2>1
  <2>3. one[l] = path[l] \cup T /\ \A m \in DOMAIN path \ {l} : one[m] = path[m]
    BY <2>1
  <2>4. one # <<>>
    BY <1>2, <2>1, <2>2
  <2>5. Contract!Continued(path, T) = one
    BY <1>2 DEF Contract!Continued
  <2> HIDE DEF one, l
  <2>6. [one EXCEPT ![l] = @ \cup {t}] = [path EXCEPT ![l] = @ \cup (T \cup {t})]
    <3>1. [one EXCEPT ![l] = @ \cup {t}] = [m \in DOMAIN path |-> IF m = l THEN one[l] \cup {t} ELSE one[m]]
      BY <2>2
    <3>2. [path EXCEPT ![l] = @ \cup (T \cup {t})] =
            [m \in DOMAIN path |-> IF m = l THEN path[l] \cup (T \cup {t}) ELSE path[m]]
      BY <2>1
    <3>3. \A m \in DOMAIN path :
            (IF m = l THEN one[l] \cup {t} ELSE one[m]) =
              (IF m = l THEN path[l] \cup (T \cup {t}) ELSE path[m])
      BY <2>3
    <3>4. QED
      BY <3>1, <3>2, <3>3
  <2>7. Contract!Continued(one, {t}) = [one EXCEPT ![l] = @ \cup {t}]
    BY <2>2, <2>4 DEF Contract!Continued
  <2>8. Contract!Continued(path, T \cup {t}) = [path EXCEPT ![l] = @ \cup (T \cup {t})]
    BY <1>2 DEF Contract!Continued, l
  <2>9. InstantsOf(path) \subseteq InstantsOf(one) /\ T \subseteq InstantsOf(one)
    BY <2>1, <2>2, <2>3 DEF InstantsOf
  <2>10. QED
    BY <2>5, <2>6, <2>7, <2>8, <2>9
<1>3. QED
  BY <1>1, <1>2

\* paths observed twice,
LEMMA WatchedTwice ==
  ASSUME NEW paths, PathsAre(paths), NEW T \in SUBSET Instants, NEW t, NEW age, NEW other
  PROVE  Watched(Watched(paths, T, age), {t}, other) = Watched(paths, T \cup {t}, age)
<1>1. CASE paths = Contract!Nothing
  <2> DEFINE one == Contract!Aged(<<<<T>>>>, age)
  <2>1. \A S : Contract!Aged(<<<<S>>>>, age) = [a \in {age} |-> <<S>>]
    <3> TAKE S
    <3> DEFINE path == <<S>>
    <3> HIDE DEF path
    <3>1. DOMAIN <<path>> = {1} /\ <<path>>[1] = path
      OBVIOUS
    <3>2. {age : n \in DOMAIN <<path>>} = {age}
      BY <3>1
    <3>3. Contract!Aged(<<path>>, age) = [a \in {age} |-> path]
      BY <3>1, <3>2 DEF Contract!Aged
    <3>4. QED
      BY <3>3 DEF path
  <2>2. one = [a \in {age} |-> <<T>>] /\ DOMAIN one = {age} /\ one[age] = <<T>>
    BY <2>1
  <2>3. one # Contract!Nothing
    BY <2>2 DEF Contract!Nothing
  <2>4. Watched(paths, T, age) = one /\ Watched(paths, T \cup {t}, age) = [a \in {age} |-> <<T \cup {t}>>]
    BY <1>1, <2>1 DEF Watched
  <2> HIDE DEF one
  <2>5. Contract!Continued(<<T>>, {t}) = <<T \cup {t}>>
    <3>1. Len(<<T>>) = 1 /\ <<T>> # <<>>
      OBVIOUS
    <3>2. [<<T>> EXCEPT ![1] = @ \cup {t}] = <<T \cup {t}>>
      OBVIOUS
    <3>3. QED
      BY <3>1, <3>2 DEF Contract!Continued
  <2>6. Watched(one, {t}, other) = [a \in {age} |-> <<T \cup {t}>>]
    BY <2>2, <2>3, <2>5 DEF Watched
  <2>7. QED
    BY <2>4, <2>6
<1>2. CASE paths # Contract!Nothing
  <2> DEFINE one == [a \in DOMAIN paths |-> Contract!Continued(paths[a], T)]
  <2>1. paths = [a \in DOMAIN paths |-> paths[a]] /\ \A a \in DOMAIN paths : paths[a] \in Trajectories
    BY DEF PathsAre
  <2>2. DOMAIN paths # {}
    BY <1>2, <2>1 DEF Contract!Nothing
  <2>3. DOMAIN one = DOMAIN paths /\ one # Contract!Nothing
    BY <2>2 DEF Contract!Nothing
  <2>4. \A a \in DOMAIN paths : one[a] = Contract!Continued(paths[a], T)
    OBVIOUS
  <2>5. Watched(paths, T, age) = one
    BY <1>2 DEF Watched
  <2> HIDE DEF one
  <2>6. Watched(one, {t}, other) = [a \in DOMAIN paths |-> Contract!Continued(one[a], {t})]
    BY <2>3 DEF Watched
  <2>7. Watched(paths, T \cup {t}, age) =
          [a \in DOMAIN paths |-> Contract!Continued(paths[a], T \cup {t})]
    BY <1>2 DEF Watched
  <2>8. \A a \in DOMAIN paths :
          Contract!Continued(one[a], {t}) = Contract!Continued(paths[a], T \cup {t})
    <3> TAKE a \in DOMAIN paths
    <3> DEFINE path == paths[a]
    <3>1. path \in Trajectories
      BY <2>1
    <3> HIDE DEF path
    <3>2. Contract!Continued(Contract!Continued(path, T), {t}) = Contract!Continued(path, T \cup {t})
      BY <3>1, ContinuedTwice
    <3>3. QED
      BY <2>4, <3>2 DEF path
  <2>9. QED
    BY <2>5, <2>6, <2>7, <2>8
<1>3. QED
  BY <1>1, <1>2

\* and what an observation later than those paths is later than.
LEMMA LaterThan ==
  ASSUME NEW paths, PathsAre(paths), NEW T \in SUBSET Instants, NEW age, NEW t,
         Later(Watched(paths, T, age), t)
  PROVE  /\ \A a \in DOMAIN paths : \A m \in DOMAIN paths[a] : \A u \in paths[a][m] : u <= t
         /\ paths = Contract!Nothing \/ (\E a \in DOMAIN paths : paths[a] # <<>>)
              => \A u \in T : u <= t
<1>1. CASE paths = Contract!Nothing
  <2>1. DOMAIN paths = {}
    BY <1>1 DEF Contract!Nothing
  <2> DEFINE path == <<T>>
  <2> HIDE DEF path
  <2>2. DOMAIN <<path>> = {1} /\ <<path>>[1] = path
    OBVIOUS
  <2>3. {age : n \in DOMAIN <<path>>} = {age}
    BY <2>2
  <2>4. Contract!Aged(<<path>>, age) = [a \in {age} |-> path]
    BY <2>2, <2>3 DEF Contract!Aged
  <2>5. \A u \in InstantsOf(path) : u <= t
    BY <1>1, <2>4 DEF Later, Watched, path
  <2>6. DOMAIN path = {1} /\ path[1] = T
    BY DEF path
  <2>7. T \subseteq InstantsOf(path)
    BY <2>6 DEF InstantsOf
  <2>8. QED
    BY <2>1, <2>5, <2>7
<1>2. CASE paths # Contract!Nothing
  <2>1. \A a \in DOMAIN paths : paths[a] \in Trajectories
    BY DEF PathsAre
  <2>2. \A a \in DOMAIN paths : \A u \in InstantsOf(Contract!Continued(paths[a], T)) : u <= t
    BY <1>2 DEF Later, Watched
  <2>3. \A a \in DOMAIN paths : InstantsOf(paths[a]) \subseteq InstantsOf(Contract!Continued(paths[a], T))
    BY <2>1, ContinuedTwice
  <2>4. \A a \in DOMAIN paths :
          paths[a] # <<>> => T \subseteq InstantsOf(Contract!Continued(paths[a], T))
    BY <2>1, ContinuedTwice
  <2>5. \A a \in DOMAIN paths : \A m \in DOMAIN paths[a] : paths[a][m] \subseteq InstantsOf(paths[a])
    BY DEF InstantsOf
  <2>6. QED
    BY <1>2, <2>2, <2>3, <2>4, <2>5
<1>3. QED
  BY <1>1, <1>2

\* The first k observations of a batch.
Batch(c, obs, k) == [do |-> "load batch", cid |-> c, observations |-> [n \in 1..k |-> obs[n]]]
PathsTyped(d) == \A f \in DOMAIN d.features : PathsAre(d.features[f].paths)

SeenIn(obs, k) == {obs[n].fid : n \in 1..k}
NumbersOf(obs, k, f) == {n \in 1..k : obs[n].fid = f}
TimesIn(obs, k, f) == {obs[n].time : n \in NumbersOf(obs, k, f)}

\* The first k observations of a batch, as an operation of the contract.
LEMMA BatchIs ==
  ASSUME NEW c, NEW obs, NEW k \in Nat
  PROVE  /\ Batch(c, obs, k).cid = c /\ DOMAIN Batch(c, obs, k).observations = 1..k
         /\ \A n \in 1..k : Batch(c, obs, k).observations[n] = obs[n]
         /\ Contract!Seen(Batch(c, obs, k)) = SeenIn(obs, k)
         /\ \A f : Contract!TimesOf(Batch(c, obs, k), f) = TimesIn(obs, k, f)
<1> DEFINE o == Batch(c, obs, k)
<1>1. o.cid = c /\ o.observations = [n \in 1..k |-> obs[n]]
  BY DEF Batch
<1> HIDE DEF o
<1>2. DOMAIN o.observations = 1..k /\ \A n \in 1..k : o.observations[n] = obs[n]
  BY <1>1
<1>3. Contract!Seen(o) = SeenIn(obs, k)
  BY <1>2 DEF Contract!Seen, SeenIn
<1>4. \A f : Contract!TimesOf(o, f) = TimesIn(obs, k, f)
  BY <1>2 DEF Contract!TimesOf, TimesIn, NumbersOf
<1>5. QED
  BY <1>1, <1>2, <1>3, <1>4 DEF o

\* With one more observation,
LEMMA BatchNext ==
  ASSUME NEW obs, NEW k \in Nat
  PROVE  /\ SeenIn(obs, k + 1) = SeenIn(obs, k) \cup {obs[k + 1].fid}
         /\ \A f : f # obs[k + 1].fid => TimesIn(obs, k + 1, f) = TimesIn(obs, k, f)
         /\ TimesIn(obs, k + 1, obs[k + 1].fid) = TimesIn(obs, k, obs[k + 1].fid) \cup {obs[k + 1].time}
         /\ obs[k + 1].fid \notin SeenIn(obs, k) => TimesIn(obs, k, obs[k + 1].fid) = {}
<1> DEFINE l == k + 1
<1>1. l \in Nat /\ 1..l = (1..k) \cup {l}
  OBVIOUS
<1> HIDE DEF l
<1>2. SeenIn(obs, l) = SeenIn(obs, k) \cup {obs[l].fid}
  BY <1>1 DEF SeenIn
<1>3. \A f : f # obs[l].fid => NumbersOf(obs, l, f) = NumbersOf(obs, k, f)
  BY <1>1 DEF NumbersOf
<1>4. NumbersOf(obs, l, obs[l].fid) = NumbersOf(obs, k, obs[l].fid) \cup {l}
  BY <1>1 DEF NumbersOf
<1>5. \A f : f # obs[l].fid => TimesIn(obs, l, f) = TimesIn(obs, k, f)
  BY <1>3 DEF TimesIn
<1>6. TimesIn(obs, l, obs[l].fid) = TimesIn(obs, k, obs[l].fid) \cup {obs[l].time}
  BY <1>4 DEF TimesIn
<1>7. obs[l].fid \notin SeenIn(obs, k) => TimesIn(obs, k, obs[l].fid) = {}
  BY DEF TimesIn, NumbersOf, SeenIn
<1>8. QED
  BY <1>2, <1>5, <1>6, <1>7 DEF l

\* nothing is there at first,
LEMMA NothingSeen ==
  ASSUME NEW c, NEW obs
  PROVE  /\ Batch(c, obs, 0).cid = c
         /\ DOMAIN Batch(c, obs, 0).observations = {} /\ Contract!Seen(Batch(c, obs, 0)) = {}
<1>1. 0 \in Nat /\ 1..0 = {}
  OBVIOUS
<1>2. SeenIn(obs, 0) = {}
  BY <1>1 DEF SeenIn
<1>3. QED
  BY <1>1, <1>2, BatchIs

\* nor is it changed,
LEMMA BatchNone ==
  ASSUME NEW d, d = Contract!Contents(d.collections, d.features),
         d.features = [f \in DOMAIN d.features |-> d.features[f]],
         NEW c, Contract!HasCollection(d, c), NEW obs
  PROVE  Contract!LoadBatch(d, d, Batch(c, obs, 0))
<1> DEFINE o == Batch(c, obs, 0)
<1>1. o.do = "load batch"
  BY DEF Batch
<1>2. o.cid = c /\ DOMAIN o.observations = {} /\ Contract!Seen(o) = {}
  BY NothingSeen
<1> HIDE DEF o
<1>3. Contract!Continues(d, o)
  BY <1>2 DEF Contract!Continues
<1> DEFINE age == [f \in {} |-> 0]
<1>4. age \in [Contract!Seen(o) -> 0..MaxSerial]
  BY <1>2
<1> DEFINE New(ages) == [f \in DOMAIN d.features \cup Contract!Seen(o) |->
                  IF f \notin Contract!Seen(o) THEN d.features[f]
                  ELSE Contract!WithPaths(Contract!FeatureOr(d, f, o.cid), Contract!Observed(d, o, f, ages[f]))]
<1>5. New(age) = d.features
  <2>1. New(age) = [f \in DOMAIN d.features |-> d.features[f]]
    BY <1>2
  <2>2. QED
    BY <2>1
<1>6. d = Contract!Contents(d.collections, New(age))
  BY <1>5
<1> HIDE DEF age
<1>7. QED
  BY <1>1, <1>2, <1>3, <1>4, <1>6 DEF Contract!LoadBatch, o


\* What is left of the contract's words once a batch is counted off.
Loaded(old, new, c, obs, k, age) ==
  /\ new.collections = old.collections
  /\ DOMAIN new.features = DOMAIN old.features \cup SeenIn(obs, k)
  /\ \A f \in DOMAIN new.features :
       new.features[f] =
         IF f \notin SeenIn(obs, k) THEN old.features[f]
         ELSE Contract!WithPaths(Contract!FeatureOr(old, f, c),
                Watched(Contract!PathsOf(old, f), TimesIn(obs, k, f), age[f]))
Follows(old, obs, n) ==
  LET paths == Contract!PathsOf(old, obs[n].fid) IN
    /\ \A a \in DOMAIN paths : \A m \in DOMAIN paths[a] : \A t \in paths[a][m] : t <= obs[n].time
    /\ paths = Contract!Nothing \/ (\E a \in DOMAIN paths : paths[a] # <<>>)
         => \A k \in 1..n-1 : obs[k].fid = obs[n].fid => obs[k].time <= obs[n].time

\* A prefix of a batch continues what there was if each of its observations does.
LEMMA FollowsIs ==
  ASSUME NEW old, NEW c, NEW obs, NEW k \in Nat
  PROVE  Contract!Continues(old, Batch(c, obs, k)) <=> \A n \in 1..k : Follows(old, obs, n)
<1> DEFINE o == Batch(c, obs, k)
<1>1. DOMAIN o.observations = 1..k /\ \A n \in 1..k : o.observations[n] = obs[n]
  BY BatchIs
<1>2. \A n \in 1..k : \A m \in 1..n-1 : o.observations[m] = obs[m]
  <2> HIDE DEF o
  <2>1. \A n \in 1..k : \A m \in 1..n-1 : m \in 1..k
    OBVIOUS
  <2>2. QED
    BY <1>1, <2>1
<1> HIDE DEF o
<1> DEFINE Is(n) ==
      LET seen == o.observations[n]  paths == Contract!PathsOf(old, seen.fid) IN
      /\ \A a \in DOMAIN paths : \A m \in DOMAIN paths[a] : \A t \in paths[a][m] : t <= seen.time
      /\ paths = Contract!Nothing \/ (\E a \in DOMAIN paths : paths[a] # <<>>)
           => \A l \in 1..n-1 : o.observations[l].fid = seen.fid => o.observations[l].time <= seen.time
<1>3. Contract!Continues(old, o) <=> \A n \in 1..k : Is(n)
  BY <1>1 DEF Contract!Continues
<1>4. ASSUME NEW n \in 1..k PROVE Is(n) <=> Follows(old, obs, n)
  <2> DEFINE N == 1..n-1
  <2>1. o.observations[n] = obs[n] /\ \A m \in N : o.observations[m] = obs[m]
    BY <1>1, <1>2
  <2> HIDE DEF N
  <2>2. QED
    BY <2>1 DEF Follows, N
<1>5. QED
  BY <1>3, <1>4 DEF o

\* What loading a prefix of a batch makes of the documents, feature by feature.
LEMMA LoadedIs ==
  ASSUME NEW old, NEW new, NEW c, NEW obs, NEW k \in Nat
  PROVE  Contract!LoadBatch(old, new, Batch(c, obs, k)) <=>
           /\ Contract!HasCollection(old, c) /\ \A n \in 1..k : Follows(old, obs, n)
           /\ new = Contract!Contents(new.collections, new.features)
           /\ new.features = [f \in DOMAIN new.features |-> new.features[f]]
           /\ \E age \in [SeenIn(obs, k) -> 0..MaxSerial] : Loaded(old, new, c, obs, k, age)
<1> DEFINE o == Batch(c, obs, k)
           F(age) == [f \in DOMAIN old.features \cup SeenIn(obs, k) |->
                       IF f \notin SeenIn(obs, k) THEN old.features[f]
                       ELSE Contract!WithPaths(Contract!FeatureOr(old, f, c),
                              Watched(Contract!PathsOf(old, f), TimesIn(obs, k, f), age[f]))]
           Pair(x, y) == Contract!Contents(x, y)
<1>1. o.do = "load batch"
  BY DEF Batch
<1>2. /\ o.cid = c /\ Contract!Seen(o) = SeenIn(obs, k)
      /\ \A f : Contract!TimesOf(o, f) = TimesIn(obs, k, f)
  BY BatchIs
<1>3. Contract!Continues(old, o) <=> \A n \in 1..k : Follows(old, obs, n)
  BY FollowsIs
<1> HIDE DEF o
<1>4. \A f, age : Contract!Observed(old, o, f, age) =
                    Watched(Contract!PathsOf(old, f), TimesIn(obs, k, f), age)
  BY <1>2 DEF Contract!Observed, Watched
<1>5. Contract!LoadBatch(old, new, o) <=>
        /\ Contract!HasCollection(old, c) /\ Contract!Continues(old, o)
        /\ \E age \in [SeenIn(obs, k) -> 0..MaxSerial] : new = Pair(old.collections, F(age))
  BY <1>1, <1>2, <1>4, Zenon DEF Contract!LoadBatch
<1>6. \A x, y : Pair(x, y).collections = x /\ Pair(x, y).features = y
  BY DEF Contract!Contents
<1>7. \A age : DOMAIN F(age) = DOMAIN old.features \cup SeenIn(obs, k)
  OBVIOUS
<1>8. ASSUME NEW age
      PROVE  new = Pair(old.collections, F(age)) <=>
               /\ new = Pair(new.collections, new.features)
               /\ new.features = [f \in DOMAIN new.features |-> new.features[f]]
               /\ Loaded(old, new, c, obs, k, age)
  <2> HIDE DEF Pair
  <2>1. new = Pair(old.collections, F(age)) <=>
          /\ new = Pair(new.collections, new.features)
          /\ new.collections = old.collections /\ new.features = F(age)
    <3> DEFINE x == old.collections  y == F(age)
    <3>1. Pair(x, y).collections = x /\ Pair(x, y).features = y
      BY <1>6
    <3> HIDE DEF x, y
    <3>2. ASSUME new = Pair(x, y)
          PROVE  new.collections = x /\ new.features = y
      BY <3>1, <3>2
    <3>3. ASSUME new = Pair(x, y)
          PROVE  new = Pair(new.collections, new.features)
      BY <3>2, <3>3
    <3>4. QED
      BY <3>2, <3>3 DEF x, y
  <2>2. new.features = F(age) <=>
          /\ new.features = [f \in DOMAIN new.features |-> new.features[f]]
          /\ DOMAIN new.features = DOMAIN old.features \cup SeenIn(obs, k)
          /\ \A f \in DOMAIN new.features : new.features[f] = F(age)[f]
    OBVIOUS
  <2>3. QED
    BY <2>1, <2>2 DEF Loaded
<1> HIDE DEF F, Pair
<1>9. Contract!LoadBatch(old, new, o) <=>
        /\ Contract!HasCollection(old, c) /\ \A n \in 1..k : Follows(old, obs, n)
        /\ new = Pair(new.collections, new.features)
        /\ new.features = [f \in DOMAIN new.features |-> new.features[f]]
        /\ \E age \in [SeenIn(obs, k) -> 0..MaxSerial] : Loaded(old, new, c, obs, k, age)
  <2> DEFINE Q == /\ new = Pair(new.collections, new.features)
                  /\ new.features = [f \in DOMAIN new.features |-> new.features[f]]
             S == [SeenIn(obs, k) -> 0..MaxSerial]
  <2>1. \A age \in S : new = Pair(old.collections, F(age)) <=> Q /\ Loaded(old, new, c, obs, k, age)
    BY <1>8
  <2> HIDE DEF Q, S
  <2>2. (\E age \in S : new = Pair(old.collections, F(age))) <=>
          Q /\ \E age \in S : Loaded(old, new, c, obs, k, age)
    BY <2>1
  <2>3. Contract!LoadBatch(old, new, o) <=>
          /\ Contract!HasCollection(old, c) /\ Contract!Continues(old, o)
          /\ \E age \in S : new = Pair(old.collections, F(age))
    BY <1>5 DEF S
  <2>4. QED
    BY <1>3, <2>2, <2>3 DEF Q, S
<1>10. QED
  BY <1>9 DEF o, Pair

\* What the documents are after one feature was put.
LEMMA PutOnce ==
  ASSUME NEW d, NEW f, NEW x
  PROVE  /\ Contract!WithFeature(d, f, x).collections = d.collections
         /\ DOMAIN Contract!WithFeature(d, f, x).features = DOMAIN d.features \cup {f}
         /\ Contract!WithFeature(d, f, x).features[f] = x
         /\ \A e \in DOMAIN d.features \ {f} :
              Contract!WithFeature(d, f, x).features[e] = d.features[e]
  BY DEF Contract!WithFeature, Contract!Contents, Contract!Set

\* One more observation, of a feature whose paths end before it.
LEMMA BatchGrows ==
  ASSUME NEW old, NEW c, NEW obs, NEW k \in Nat, NEW mid, NEW id, NEW t, NEW other, NEW new
  PROVE  /\ PathsTyped(old) /\ \A n \in 1..k : obs[n].time \in Instants
         /\ Contract!LoadBatch(old, mid, Batch(c, obs, k))
         /\ id = obs[k + 1].fid /\ t = obs[k + 1].time
         /\ Later(Contract!PathsOf(mid, id), t) /\ other \in 0..MaxSerial
         /\ new = Contract!WithFeature(mid, id,
                     Contract!WithPaths(Contract!FeatureOr(mid, id, c),
                       Watched(Contract!PathsOf(mid, id), {t}, other)))
         => Contract!LoadBatch(old, new, Batch(c, obs, k + 1))
<1> DEFINE l == k + 1
           S == SeenIn(obs, k)  R == SeenIn(obs, l)
           T == TimesIn(obs, k, id)
           before_ == Contract!PathsOf(old, id)
           there == Contract!PathsOf(mid, id)
           row == Contract!WithPaths(Contract!FeatureOr(mid, id, c), Watched(there, {t}, other))
<1>0. SUFFICES ASSUME PathsTyped(old), \A n \in 1..k : obs[n].time \in Instants,
                     Contract!LoadBatch(old, mid, Batch(c, obs, k)),
                     id = obs[k + 1].fid, t = obs[k + 1].time,
                     Later(Contract!PathsOf(mid, id), t), other \in 0..MaxSerial,
                     new = Contract!WithFeature(mid, id,
                             Contract!WithPaths(Contract!FeatureOr(mid, id, c),
                               Watched(Contract!PathsOf(mid, id), {t}, other)))
              PROVE  Contract!LoadBatch(old, new, Batch(c, obs, l))
  OBVIOUS
<1>1. /\ Contract!HasCollection(old, c) /\ \A n \in 1..k : Follows(old, obs, n)
      /\ mid = Contract!Contents(mid.collections, mid.features)
      /\ mid.features = [f \in DOMAIN mid.features |-> mid.features[f]]
      /\ \E age \in [S -> 0..MaxSerial] : Loaded(old, mid, c, obs, k, age)
  BY <1>0, LoadedIs
<1>2. PICK age \in [S -> 0..MaxSerial] : Loaded(old, mid, c, obs, k, age)
  BY <1>0, <1>1
<1>3. /\ R = S \cup {id}
      /\ \A f : f # id => TimesIn(obs, l, f) = TimesIn(obs, k, f)
      /\ TimesIn(obs, l, id) = T \cup {t}
      /\ id \notin S => T = {}
  BY <1>0, BatchNext
<1>4. T \in SUBSET Instants
  BY <1>0 DEF TimesIn, NumbersOf
<1>5. PathsAre(before_)
  <2>1. CASE id \in DOMAIN old.features
    BY <1>0, <2>1 DEF PathsTyped, Contract!PathsOf
  <2>2. CASE id \notin DOMAIN old.features
    BY <1>0, <2>2 DEF Contract!PathsOf, PathsAre, Contract!Nothing
  <2>3. QED
    BY <1>0, <2>1, <2>2
<1>6. l \in Nat /\ 1..l = (1..k) \cup {l} /\ l - 1 = k
  BY <1>0
<1>7. id = obs[l].fid /\ t = obs[l].time
  BY <1>0
<1> HIDE DEF l, S, T
<1> DEFINE feature == Contract!FeatureOr(old, id, c)
           since == IF id \in S THEN age[id] ELSE other
<1>8. /\ row = Contract!WithPaths(feature, Watched(before_, T \cup {t}, since))
      /\ \A a \in DOMAIN before_ : \A m \in DOMAIN before_[a] : \A u \in before_[a][m] : u <= t
      /\ before_ = Contract!Nothing \/ (\E a \in DOMAIN before_ : before_[a] # <<>>)
           => \A u \in T : u <= t
  <2>1. CASE id \in S
    <3> DEFINE w == Watched(before_, T, age[id])
    <3>1. id \in DOMAIN mid.features /\ mid.features[id] = Contract!WithPaths(feature, w)
      BY <1>0, <1>2, <2>1 DEF Loaded, S, T
    <3>2. there = w /\ Contract!FeatureOr(mid, id, c) = Contract!WithPaths(feature, w)
      BY SMTT(60), <1>0, <3>1 DEF Contract!PathsOf, Contract!FeatureOr, Contract!WithPaths, Contract!Feature
    <3>3. Watched(w, {t}, other) = Watched(before_, T \cup {t}, age[id])
      <4> HIDE DEF before_
      <4>1. Watched(Watched(before_, T, age[id]), {t}, other) = Watched(before_, T \cup {t}, age[id])
        BY SMTT(60), <1>4, <1>5, WatchedTwice
      <4>2. QED
        BY <1>0, <4>1
    <3>4. \A x, y : Contract!WithPaths(Contract!WithPaths(feature, x), y) = Contract!WithPaths(feature, y)
      BY <1>0 DEF Contract!WithPaths, Contract!Feature
    <3>5. Later(w, t)
      BY <1>0, <3>2
    <3> HIDE DEF w, feature, before_, there
    <3>6. row = Contract!WithPaths(feature, Watched(before_, T \cup {t}, since))
      BY <1>0, <2>1, <3>2, <3>3, <3>4
    <3>7. /\ \A a \in DOMAIN before_ : \A m \in DOMAIN before_[a] : \A u \in before_[a][m] : u <= t
          /\ before_ = Contract!Nothing \/ (\E a \in DOMAIN before_ : before_[a] # <<>>)
               => \A u \in T : u <= t
      BY <1>0, <1>4, <1>5, <3>5, LaterThan DEF w
    <3>8. QED
      BY <1>0, <3>6, <3>7
  <2>2. CASE id \notin S
    <3>1. id \in DOMAIN mid.features <=> id \in DOMAIN old.features
      BY <1>0, <1>2, <2>2 DEF Loaded, S
    <3>2. id \in DOMAIN old.features => mid.features[id] = old.features[id]
      BY <1>0, <1>2, <2>2, <3>1 DEF Loaded, S
    <3>3. there = before_ /\ Contract!FeatureOr(mid, id, c) = feature
      BY <1>0, <3>1, <3>2 DEF Contract!PathsOf, Contract!FeatureOr
    <3>4. T = {} /\ T \cup {t} = {t}
      BY <1>0, <1>3, <2>2
    <3> HIDE DEF feature, before_, there
    <3>5. row = Contract!WithPaths(feature, Watched(before_, T \cup {t}, since))
      BY <1>0, <2>2, <3>3, <3>4
    <3>6. \A a \in DOMAIN before_ : \A m \in DOMAIN before_[a] : \A u \in before_[a][m] : u <= t
      BY <1>0, <3>3 DEF Later, InstantsOf, there
    <3>7. QED
      BY <1>0, <3>4, <3>5, <3>6
  <2>3. QED
    BY <1>0, <2>1, <2>2
<1> HIDE DEF feature, since, row
<1>9. \A n \in 1..l : Follows(old, obs, n)
  <2>1. \A j \in 1..k : obs[j].fid = id => obs[j].time \in T
    BY <1>0 DEF T, TimesIn, NumbersOf
  <2>2. Follows(old, obs, l)
    BY <1>0, <1>6, <1>7, <1>8, <2>1 DEF Follows
  <2>3. QED
    BY <1>0, <1>1, <1>6, <2>2
<1> HIDE DEF there, before_
<1> DEFINE ages == [f \in R |-> IF f \in S THEN age[f] ELSE other]
<1>10. ages \in [R -> 0..MaxSerial]
  BY <1>0, <1>2
<1>11. /\ new.collections = mid.collections
       /\ DOMAIN new.features = DOMAIN mid.features \cup {id}
       /\ new.features[id] = row
       /\ \A f \in DOMAIN mid.features \ {id} : new.features[f] = mid.features[f]
  <2>1. new = Contract!WithFeature(mid, id, row)
    BY <1>0 DEF row, there
  <2>2. QED
    BY <2>1, PutOnce
<1>12. id \in R /\ ages[id] = since
  BY <1>0, <1>3 DEF since
<1>13. \A f \in S \ {id} : f \in R /\ ages[f] = age[f]
  BY <1>0, <1>3
<1> HIDE DEF R, ages
<1>14. Loaded(old, new, c, obs, l, ages)
  <2>1. DOMAIN new.features = DOMAIN old.features \cup R
    BY <1>0, <1>2, <1>3, <1>11 DEF Loaded, S
  <2> DEFINE This(f, set, times, when) ==
        IF f \notin set THEN old.features[f]
        ELSE Contract!WithPaths(Contract!FeatureOr(old, f, c), Watched(Contract!PathsOf(old, f), times, when))
  <2>2. new.features[id] = This(id, R, TimesIn(obs, l, id), ages[id])
    BY <1>0, <1>3, <1>8, <1>11, <1>12 DEF feature, before_
  <2>3. ASSUME NEW f \in DOMAIN new.features, f # id
        PROVE  new.features[f] = This(f, R, TimesIn(obs, l, f), ages[f])
    <3>1. f \in DOMAIN mid.features /\ new.features[f] = mid.features[f]
      BY <1>0, <1>11, <2>3
    <3>2. mid.features[f] = This(f, S, TimesIn(obs, k, f), age[f])
      BY <1>0, <1>2, <3>1 DEF Loaded, S
    <3>3. f \in R <=> f \in S
      BY <1>0, <1>3, <2>3
    <3>4. TimesIn(obs, l, f) = TimesIn(obs, k, f)
      BY <1>0, <1>3, <2>3
    <3>5. f \in S => ages[f] = age[f]
      BY <1>0, <1>13, <2>3
    <3>6. QED
      BY <1>0, <3>1, <3>2, <3>3, <3>4, <3>5
  <2>4. \A f \in DOMAIN new.features : new.features[f] = This(f, R, TimesIn(obs, l, f), ages[f])
    BY <1>0, <2>2, <2>3
  <2>5. new.collections = old.collections
    BY <1>0, <1>2, <1>11 DEF Loaded
  <2>6. QED
    BY <1>0, <2>1, <2>4, <2>5 DEF Loaded, R
<1>15. new = Contract!Contents(new.collections, new.features)
       /\ new.features = [f \in DOMAIN new.features |-> new.features[f]]
  BY <1>0 DEF Contract!WithFeature, Contract!Contents, Contract!Set
<1>16. Contract!LoadBatch(old, new, Batch(c, obs, l))
  BY SMTT(60), <1>0, <1>1, <1>6, <1>9, <1>10, <1>14, <1>15, LoadedIs DEF R
<1>17. QED
  BY <1>0, <1>16 DEF l

-----------------------------------------------------------------------------
(* What a handler owes: the open transaction holds the next operation of   *)
(* the request, or the part of it that its position tells.                 *)

Owes(o) == Contract!Operation(DocumentsOf(disk), DocumentsOf(work), o)
Same == DocumentsOf(work) = DocumentsOf(disk)
DueNow ==
  Committed + 1 \in DOMAIN PlanOf(req) /\ Owes(PlanOf(req)[Committed + 1])

\* The last statement is done: the commit concludes the request.
Concluded ==
  \/ code >= 400 /\ Same
  \/ code < 300 /\ PlanOf(req) = <<>> /\ Same
  \/ code < 300 /\ DueNow /\ Committed + 1 = Len(PlanOf(req))

\* Between two Features: the one before is owed, if there is one.
Awaited ==
  \/ req.op = "post_collection_items" /\ todo = req.items /\ Same
  \/ DueNow /\ (req.op = "post_collection_items" => Len(todo) < Len(req.items))

\* Of a Feature with a temporalGeometry only the row is there.
HalfThere ==
  /\ Head(todo).id \notin DOMAIN disk.features
  /\ DocumentsOf(work) =
       Contract!WithFeature(DocumentsOf(disk), Head(todo).id,
                            Contract!Feature(req.cid, Contract!Nothing, Contract!Nothing))

\* The documents d hold the observations that are not left to do.
Gathered(d) ==
  Contract!LoadBatch(DocumentsOf(disk), d,
                     Batch(req.cid, Observes(req), Len(req.items) - Len(todo)))
\* The feature of the next observation is there.
Prepared ==
  \E mid : /\ Gathered(mid)
           /\ DocumentsOf(work) =
                Contract!WithFeature(mid, Head(todo).id,
                                     Contract!FeatureOr(mid, Head(todo).id, req.cid))

OweInv ==
  req # NoRequest /\ tx = "ok" =>
    /\ pc = "finish" => Concluded
    /\ pc = "tables" => Same
    /\ pc = "property" => DueNow /\ Len(PlanOf(req)) = 2
    /\ pc \in {"property", "insert values"} => HasFeature(work, req.cid, req.fid)
    /\ pc \in {"feature", "features"} => Awaited
    /\ pc = "insert geometry" => HalfThere
    /\ pc = "observe" => Gathered(DocumentsOf(work))
    /\ pc = "append instant" => Prepared
    /\ pc \in FeatureLabels \cup BatchLabels => code < 300
    /\ pc \in FeatureLabels /\ req.op = "put_single_moving_feature" => req.items # <<>>

\* How far the position of each handler says it is.
LEMMA CommittedIs ==
  /\ req.op \notin FeatureOps \cup {"post_tproperties"} => Committed = 0
  /\ req.op = "put_single_moving_feature" =>
       /\ pc \in {"insert feature", "insert geometry", "finish"} => Committed = 1
       /\ pc \notin {"insert feature", "insert geometry", "finish"} => Committed = 0
  /\ req.op = "post_tproperties" =>
       /\ Len(PlanOf(req)) = 2 /\ pc \in {"insert values", "finish"} => Committed = 1
       /\ Len(PlanOf(req)) # 2 \/ pc \notin {"insert values", "finish"} => Committed = 0
  /\ req.op = "post_collection_items" =>
       LET taken == Len(req.items) - Len(todo)
       IN  /\ pc \in {"insert feature", "insert geometry"} => Committed = taken
           /\ pc \in {"feature", "features", "finish"} /\ taken > 0 => Committed = taken - 1
           /\ pc \in {"feature", "features", "finish"} /\ ~(taken > 0) => Committed = 0
           /\ pc \notin FeatureLabels \cup {"finish"} => Committed = 0
  BY ZenonT(60) DEF Committed, FeatureOps, FeatureLabels

\* The same of the next state.
LEMMA CommittedNext ==
  /\ req'.op \notin FeatureOps \cup {"post_tproperties"} => Committed' = 0
  /\ req'.op = "put_single_moving_feature" =>
       /\ pc' \in {"insert feature", "insert geometry", "finish"} => Committed' = 1
       /\ pc' \notin {"insert feature", "insert geometry", "finish"} => Committed' = 0
  /\ req'.op = "post_tproperties" =>
       /\ Len(PlanOf(req')) = 2 /\ pc' \in {"insert values", "finish"} => Committed' = 1
       /\ Len(PlanOf(req')) # 2 \/ pc' \notin {"insert values", "finish"} => Committed' = 0
  /\ req'.op = "post_collection_items" =>
       LET taken == Len(req'.items) - Len(todo')
       IN  /\ pc' \in {"insert feature", "insert geometry"} => Committed' = taken
           /\ pc' \in {"feature", "features", "finish"} /\ taken > 0 => Committed' = taken - 1
           /\ pc' \in {"feature", "features", "finish"} /\ ~(taken > 0) => Committed' = 0
           /\ pc' \notin FeatureLabels \cup {"finish"} => Committed' = 0
  BY ZenonT(60) DEF Committed, FeatureOps, FeatureLabels

\* What the last statement of a request leaves is concluded.
LEMMA ConcludedOwes ==
  ASSUME pc' = "finish", Concluded'
  PROVE  OweInv'
  BY Zenon DEF OweInv, FeatureLabels, BatchLabels

\* Not yet committed, what is there owes as much as before.
LEMMA OwedBy ==
  ASSUME Kept, disk' = disk, NEW n, Committed' + 1 = n, n \in DOMAIN PlanOf(req),
         Contract!Operation(DocumentsOf(disk), DocumentsOf(work'), PlanOf(req)[n])
  PROVE  DueNow'
  BY DEF DueNow, Owes, Kept

\* A request for one operation, after its last statement.
LEMMA OwesOne ==
  ASSUME Kept, disk' = disk, pc' = "finish", code' < 300, NEW o, PlanOf(req) = <<o>>,
         req.op \notin FeatureOps,
         Contract!Operation(DocumentsOf(disk), DocumentsOf(work'), o)
  PROVE  OweInv'
<1>1. Len(PlanOf(req)) = 1 /\ 1 \in DOMAIN PlanOf(req) /\ PlanOf(req)[1] = o
  OBVIOUS
<1>2. Committed' = 0
  <2>1. PlanOf(req') = PlanOf(req) /\ req'.op = req.op
    BY DEF Kept
  <2>2. Len(PlanOf(req')) # 2
    BY <1>1, <2>1
  <2>3. QED
    BY Zenon, <2>1, <2>2, CommittedNext
<1>3. DueNow' /\ Committed' + 1 = Len(PlanOf(req'))
  <2>1. Committed' + 1 = 1
    BY <1>2
  <2>2. QED
    BY <1>1, <2>1, OwedBy DEF Kept
<1>4. Concluded'
  BY <1>3 DEF Concluded
<1>5. QED
  BY <1>4, ConcludedOwes

\* What the invariants proved so far say together.
Tidy == Progress /\ RoomInv /\ ColumnsAgree(disk) /\ ColumnsAgree(work)

\* A statement at these places starts from the committed tables.
LEMMA CleanStart ==
  ASSUME Tidy, pc \in {"check", "insert collection", "insert feature", "insert values"}
  PROVE  /\ work = disk /\ IsDatabase(disk) /\ ReferencesHold(disk) /\ ColumnsAgree(disk)
         /\ NamesUnique(disk) /\ serial \in Nat /\ KeysDrawn(disk, serial)
         /\ req \in Requests /\ req \in Request /\ req # NoRequest
<1>1. TypeInv /\ TablesInv /\ PendingInv
  BY DEF Tidy, Progress, Known
<1>2. work = disk
  BY <1>1 DEF PendingInv, Uncommitted
<1>3. NamesUnique(disk)
  BY DEF Tidy, Progress, PropertyNamesUnique, NamesUnique
<1>4. IsDatabase(disk) /\ serial \in Nat
  BY <1>1 DEF TypeInv, TypeOK
<1>5. req \in Requests /\ req \in Request /\ req # NoRequest
  BY <1>1, RequestType DEF TypeInv
<1>6. QED
  BY <1>1, <1>2, <1>3, <1>4, <1>5 DEF Tidy, TablesInv

\* A SERIAL value is drawn: it is fresh and within the bound.
LEMMA CleanKey ==
  ASSUME Tidy, pc = "check", Draws(req) >= 1
  PROVE  serial + 1 \in 0..MaxSerial
<1>1. serial \in Nat /\ Draws(req) \in Nat
  BY CleanStart, DrawsAre
<1>2. serial + Draws(req) <= MaxSerial
  BY DEF Tidy, RoomInv
<1>3. QED
  BY <1>1, <1>2, BoundAssumption

\* The statements on collections.
LEMMA CollectionsOwe ==
  ASSUME Tidy, Works, req.op \in {"post_collections", "put_collection", "delete_collection"}
  PROVE  OweInv'
<1> USE DEF At
<1>1. TypeInv /\ Kept /\ disk' = disk /\ Statements /\ pc' # "respond" /\ req.op \notin FeatureOps
  BY DEF Tidy, Progress, Known, Works, Outcomes, FeatureOps
<1>2. CASE req.op = "post_collections"
  <2>1. CASE post_collections
    <3>1. work' = CreateTables(work, {"core"}) /\ pc' = "tables" /\ work = disk /\ IsDatabase(disk)
      BY <2>1, CleanStart DEF post_collections, Execute
    <3>2. DocumentsOf(work') = DocumentsOf(disk)
      BY <3>1, CreateTablesFields, TablesDocuments
    <3>3. Same'
      BY <1>1, <3>2 DEF Same
    <3>4. QED
      BY Zenon, <3>1, <3>3 DEF OweInv, FeatureLabels, BatchLabels
  <2>2. CASE post_collections_insert
    <3>1. /\ ~HasCollection(work, req.cid) /\ pc' = "finish" /\ code' = 201
          /\ work' = PutCollectionRow(work, req.cid, req.title)
      BY <1>1, <2>2 DEF post_collections_insert, Answer, ExecuteLast, Execute
    <3>2. work = disk /\ IsDatabase(disk)
      BY <2>2, CleanStart DEF post_collections_insert
    <3> DEFINE o == [do |-> "create collection", cid |-> req.cid, title |-> req.title]
    <3>3. Contract!Operation(DocumentsOf(disk), DocumentsOf(work'), o)
      BY <3>1, <3>2, PutOperation
    <3>4. PlanOf(req) = <<o>>
      BY <1>2, PlanIs
    <3> HIDE DEF o
    <3>5. QED
      BY <1>1, <3>1, <3>3, <3>4, OwesOne
  <2>3. QED
    BY <1>1, <1>2, <2>1, <2>2, OwnStatements
<1>3. CASE req.op = "put_collection"
  <2>1. put_collection
    BY <1>1, <1>3, OwnStatements
  <2>2. /\ HasCollection(work, req.cid) /\ pc' = "finish" /\ code' = 204
        /\ work' = PutCollectionRow(work, req.cid, req.title)
    BY <1>1, <2>1 DEF put_collection, Answer, ExecuteLast, Execute
  <2>3. work = disk /\ IsDatabase(disk)
    BY <2>1, CleanStart DEF put_collection
  <2> DEFINE o == [do |-> "replace collection", cid |-> req.cid, title |-> req.title]
  <2>4. Contract!Operation(DocumentsOf(disk), DocumentsOf(work'), o)
    BY <2>2, <2>3, PutOperation
  <2>5. PlanOf(req) = <<o>>
    BY <1>3, PlanIs
  <2> HIDE DEF o
  <2>6. QED
    BY <1>1, <2>2, <2>4, <2>5, OwesOne
<1>4. CASE req.op = "delete_collection"
  <2>1. delete_collection
    BY <1>1, <1>4, OwnStatements
  <2>2. /\ HasCollection(work, req.cid) /\ pc' = "finish" /\ code' = 204
        /\ work' = DeleteCollectionRow(work, req.cid)
    BY <1>1, <2>1 DEF delete_collection, Answer, ExecuteLast, Execute
  <2>3. work = disk /\ IsDatabase(disk) /\ ReferencesHold(disk) /\ ColumnsAgree(disk)
    BY <2>1, CleanStart DEF delete_collection
  <2> DEFINE o == [do |-> "remove collection", cid |-> req.cid]
  <2>4. Contract!Operation(DocumentsOf(disk), DocumentsOf(work'), o)
    BY <2>2, <2>3, RemoveCollectionOperation
  <2>5. PlanOf(req) = <<o>>
    BY <1>4, PlanIs
  <2> HIDE DEF o
  <2>6. QED
    BY <1>1, <2>2, <2>4, <2>5, OwesOne
<1>5. QED
  BY <1>2, <1>3, <1>4

\* A body of one item has it.
LEMMA SingleItem ==
  ASSUME NEW items \in Seq(Items), Len(items) = 1
  PROVE  items # <<>> /\ items[1] \in Items
<1>1. items # <<>>
  OBVIOUS
<1>2. QED
  BY Zenon, <1>1, HeadTailType

\* The statements on one feature and its geometries.
LEMMA FeatureOwes ==
  ASSUME Tidy, Works, req.op \in {"delete_single_moving_feature", "post_tgsequence",
                                  "delete_single_temporal_primitive_geo"}
  PROVE  OweInv'
<1> USE DEF At
<1>1. /\ TypeInv /\ Kept /\ disk' = disk /\ Statements
      /\ pc' \notin {"respond", "except"} /\ req.op \notin FeatureOps
  BY DEF Tidy, Progress, Known, Works, Outcomes, FeatureOps
<1>2. CASE req.op = "delete_single_moving_feature"
  <2>1. delete_single_moving_feature
    BY <1>1, <1>2, OwnStatements
  <2>2. work = disk /\ IsDatabase(disk) /\ ReferencesHold(disk)
    BY <2>1, CleanStart DEF delete_single_moving_feature
  <2>3. CASE pc' = "finish" /\ code' = 404 /\ work' = work
    <3>1. Same'
      BY <1>1, <2>2, <2>3 DEF Same
    <3>2. Concluded'
      BY <2>3, <3>1 DEF Concluded
    <3>3. QED
      BY <2>3, <3>2, ConcludedOwes
  <2>4. CASE /\ HasFeature(work, req.cid, req.fid) /\ pc' = "finish" /\ code' = 204
             /\ work' = DeleteFeatures(work, {req.fid})
    <3> DEFINE o == [do |-> "remove feature", cid |-> req.cid, fid |-> req.fid]
    <3>1. Contract!Operation(DocumentsOf(disk), DocumentsOf(work'), o)
      BY <2>2, <2>4, RemoveFeatureOperation
    <3>2. PlanOf(req) = <<o>>
      BY <1>2, PlanIs DEF Removes
    <3> HIDE DEF o
    <3>3. QED
      BY <1>1, <2>4, <3>1, <3>2, OwesOne
  <2>5. QED
    BY <1>1, <2>1, <2>3, <2>4 DEF delete_single_moving_feature, Answer, ExecuteLast, Execute
<1>3. CASE req.op = "post_tgsequence"
  <2>1. post_tgsequence
    BY <1>1, <1>3, OwnStatements
  <2>2. pc = "check"
    BY <2>1 DEF post_tgsequence
  <2>3. /\ work = disk /\ IsDatabase(disk) /\ KeysDrawn(disk, serial) /\ serial \in Nat
        /\ req \in Requests /\ req \in Request
    BY <2>2, CleanStart
  <2>4. Len(req.items) = 1 /\ req.items \in Seq(Items) /\ req.cid \in CollectionIds
        /\ req.fid \in FeatureIds
    BY <1>1, <1>3, <2>2, <2>3, RequestsAssumption DEF TypeInv, Control, Request
  <2>5. req.items # <<>> /\ req.items[1].traj \in Trajectories
    <3>1. req.items # <<>> /\ req.items[1] \in Items
      BY Zenon, <2>4, SingleItem
    <3>2. QED
      BY <3>1 DEF Items
  <2>6. Draws(req) >= 1
    BY <2>3, <2>4, DrawsAre
  <2>7. serial + 1 \in 0..MaxSerial /\ serial + 1 \in Nat \ DOMAIN disk.geometries
    BY <2>2, <2>3, <2>6, CleanKey, DrawnKey
  <2>8. /\ HasFeature(work, req.cid, req.fid) /\ pc' = "finish" /\ code' = 201
        /\ work' = InsertGeometryRow(work, serial + 1, req.fid, req.cid, req.items[1].traj, TRUE)
    BY <1>1, <2>1 DEF post_tgsequence, Answer, StatementFails, Execute, Draw
  <2>9. GeometryInserted(disk, work', serial + 1, req.fid, req.cid, req.items[1].traj, TRUE)
    BY <2>3, <2>4, <2>5, <2>7, <2>8, InsertGeometryRowFields
  <2> DEFINE o == [do |-> "add trajectory", cid |-> req.cid, fid |-> req.fid,
                   path |-> req.items[1].traj]
  <2>10. Contract!Operation(DocumentsOf(disk), DocumentsOf(work'), o)
    BY <2>3, <2>7, <2>8, <2>9, AddTrajectoryOperation
  <2>11. PlanOf(req) = <<o>>
    BY <1>3, <2>5, PlanIs
  <2> HIDE DEF o
  <2>12. pc' = "finish" /\ code' < 300
    BY <2>8
  <2>13. QED
    BY <1>1, <2>10, <2>11, <2>12, OwesOne
<1>4. CASE req.op = "delete_single_temporal_primitive_geo"
  <2>1. delete_single_temporal_primitive_geo
    BY <1>1, <1>4, OwnStatements
  <2>2. /\ work = disk /\ IsDatabase(disk) /\ ColumnsAgree(disk) /\ req \in Request
    BY <2>1, CleanStart DEF delete_single_temporal_primitive_geo
  <2>3. req.n \in Int
    BY <2>2 DEF Request
  <2>4. /\ HasFeature(work, req.cid, req.fid) /\ pc' = "finish" /\ code' = 204
        /\ \E g \in GeometriesIn(work, req.cid, req.fid) :
              req.n \in DOMAIN work.geometries[g].traj /\ Len(work.geometries[g].traj) > 1
        /\ work' = UpdateTrajectories(work,
             [g \in GeometriesIn(work, req.cid, req.fid) |->
                RemoveMember(work.geometries[g].traj, req.n)])
    BY <1>1, <2>1 DEF delete_single_temporal_primitive_geo, Answer, StatementFails,
                      ExecuteLast, Execute
  <2> DEFINE o == [do |-> "remove member", cid |-> req.cid, fid |-> req.fid, n |-> req.n]
  <2>5. Contract!Operation(DocumentsOf(disk), DocumentsOf(work'), o)
    BY <2>2, <2>3, <2>4, RemoveMemberOperation
  <2>6. PlanOf(req) = <<o>>
    BY <1>4, PlanIs
  <2> HIDE DEF o
  <2>7. QED
    BY <1>1, <2>4, <2>5, <2>6, OwesOne
<1>5. QED
  BY <1>2, <1>3, <1>4

\* The statements on properties.
LEMMA PropertyOwes ==
  ASSUME Tidy, OweInv, Works, req.op = "post_tproperties"
  PROVE  OweInv'
<1> USE DEF At
<1>1. /\ TypeInv /\ Kept /\ disk' = disk /\ Statements /\ tx = "ok"
      /\ pc' \notin {"idle", "respond", "except"} /\ req.op \notin FeatureOps
  BY DEF Tidy, Progress, Known, Works, Outcomes, FeatureOps
<1>2. CASE post_tproperties
  <2>1. pc = "check" /\ HasFeature(work, req.cid, req.fid)
    BY <1>2 DEF post_tproperties, Handles
  <2>2. /\ work = disk /\ IsDatabase(disk) /\ ReferencesHold(disk) /\ KeysDrawn(disk, serial)
        /\ serial \in Nat /\ req \in Requests /\ req \in Request /\ req # NoRequest
    BY <2>1, CleanStart
  <2>3. /\ Named = {} /\ work' = InsertPropertyRow(work, serial + 1, req.fid, req.name)
        /\ req.form \notin {"neither", "invalid"} /\ code' = 201
        /\ pc' = IF req.form = "ok" THEN "finish" ELSE "property"
    BY <1>1, <1>2 DEF post_tproperties, Answer, Raise, Leave, Execute, Draw
  <2>4. req.form \in {"ok", "with values", "with bad values"}
    <3>1. req.form # "bad json"
      BY <2>1, <2>2 DEF Tidy, Progress, PropertyInv
    <3>2. QED
      BY <2>2, <2>3, <3>1, FormsAssumption
  <2>5. serial + 1 \notin DOMAIN disk.properties
    BY <2>2, DrawnKey
  <2>6. PropertyInserted(disk, work', serial + 1, req.fid, req.name)
    BY <2>2, <2>3, InsertPropertyRowFields
  <2> DEFINE o == OnProperty(req, "add property")
  <2>7. Contract!Operation(DocumentsOf(disk), DocumentsOf(work'), o)
    BY <2>1, <2>2, <2>3, <2>5, <2>6, AddPropertyOperation DEF Named, OnProperty
  <2>8. CASE req.form = "ok"
    <3>1. PlanOf(req) = <<o>>
      BY <2>8, PlanIs
    <3> HIDE DEF o
    <3>2. pc' = "finish" /\ code' < 300
      BY <2>3, <2>8
    <3>3. QED
      BY <1>1, <2>7, <3>1, <3>2, OwesOne
  <2>9. CASE req.form # "ok"
    <3>1. PlanOf(req) = <<o, AddsValues(req)>>
      BY <2>4, <2>9, PlanIs
    <3> HIDE DEF o
    <3>2. 1 \in DOMAIN PlanOf(req) /\ PlanOf(req)[1] = o /\ Len(PlanOf(req)) = 2
      BY <3>1
    <3>3. pc' = "property" /\ PlanOf(req') = PlanOf(req) /\ req'.op = req.op
      BY <1>1, <2>3, <2>9 DEF Kept
    <3>4. Committed' = 0
      BY Zenon, <3>3, CommittedNext
    <3>5. Committed' + 1 = 1
      BY <3>4
    <3>6. DueNow' /\ Len(PlanOf(req)) = 2
      BY <1>1, <2>7, <3>2, <3>5, OwedBy
    <3>7. HasFeature(work', req.cid, req.fid)
      BY <2>1, <2>2, <2>6 DEF PropertyInserted, HasFeature
    <3>8. (Len(PlanOf(req)) = 2 /\ HasFeature(work, req.cid, req.fid))'
      BY <1>1, <3>6, <3>7 DEF Kept
    <3>9. QED
      BY Zenon, <3>3, <3>6, <3>8 DEF OweInv, FeatureLabels, BatchLabels
  <2>10. QED
    BY <2>8, <2>9
<1>3. CASE post_tproperties_values
  <2>1. pc = "insert values"
    BY <1>3 DEF post_tproperties_values
  <2>2. /\ work = disk /\ IsDatabase(disk) /\ KeysDrawn(disk, serial) /\ NamesUnique(disk)
        /\ serial \in Nat /\ req \in Requests /\ req \in Request /\ req # NoRequest
    BY <2>1, CleanStart
  <2>3. HasFeature(disk, req.cid, req.fid)
    BY <1>1, <2>1, <2>2 DEF OweInv
  <2>4. /\ req.form = "with values" /\ pc' = "finish" /\ code' = code
        /\ \E p \in Named : work' = InsertValuesRow(work, serial + 1, p, req)
    BY <1>1, <1>3 DEF post_tproperties_values, Raise, StatementFails, Execute, Draw
  <2>5. PICK p \in Named : work' = InsertValuesRow(work, serial + 1, p, req)
    BY <2>4
  <2>6. ValuesOf(disk, p) = {}
    BY <1>1, <2>1, <2>2 DEF Tidy, Progress, Known, TablesInv, Located, Checked
  <2>7. Continues(disk, p, Head(req.times))
    BY <2>6 DEF Continues
  <2>8. serial + 1 \in 0..MaxSerial
    <3>1. serial + 1 <= MaxSerial
      BY <2>1 DEF Tidy, RoomInv
    <3>2. QED
      BY <2>2, <3>1, BoundAssumption
  <2>9. ValuesInserted(disk, work', serial + 1, p, req)
    BY <2>2, <2>5, InsertValuesRowFields
  <2>10. p \in PropertiesNamed(disk, req.fid, req.name)
    BY <2>2 DEF Named
  <2> DEFINE o == AddsValues(req)
             first == OnProperty(req, "add property")
  <2>11. Contract!Operation(DocumentsOf(disk), DocumentsOf(work'), o)
    BY <2>2, <2>3, <2>7, <2>8, <2>9, <2>10, AddValuesOperation DEF AddsValues
  <2>12. PlanOf(req) = <<first, o>>
    BY <2>4, PlanIs
  <2> HIDE DEF o, first
  <2>13. 2 \in DOMAIN PlanOf(req) /\ PlanOf(req)[2] = o /\ Len(PlanOf(req)) = 2
    BY <2>12
  <2>14. PlanOf(req') = PlanOf(req) /\ req'.op = req.op
    BY <1>1 DEF Kept
  <2>15. Committed' = 1
    BY Zenon, <2>4, <2>13, <2>14, CommittedNext
  <2>16. Committed' + 1 = 2
    BY <2>15
  <2>17. DueNow' /\ (Committed + 1 = Len(PlanOf(req)))'
    <3>1. DueNow'
      BY Zenon, <1>1, <2>11, <2>13, <2>16, OwedBy
    <3>2. QED
      BY Zenon, <2>13, <2>14, <2>16, <3>1
  <2>18. code' < 300
    <3>1. code = 201 /\ code' = code
      BY <2>1, <2>2, <2>4 DEF Tidy, Progress, PropertyInv
    <3>2. QED
      BY <3>1
  <2>19. Concluded'
    BY Zenon, <2>17, <2>18 DEF Concluded
  <2>20. QED
    BY Zenon, <2>4, <2>19, ConcludedOwes
<1>4. QED
  BY <1>1, <1>2, <1>3, OwnStatements

\* The handlers that post values and delete a property owe what they have executed.
LEMMA ValuesOwe ==
  ASSUME Tidy, Works, req.op \in {"post_temporal_property", "delete_temporal_property"}
  PROVE  OweInv'
<1> USE DEF At
<1>1. /\ TypeInv /\ Kept /\ disk' = disk /\ Statements
      /\ pc' \notin {"respond", "except"} /\ req.op \notin FeatureOps
  BY DEF Tidy, Progress, Known, Works, Outcomes, FeatureOps
<1>2. CASE req.op = "post_temporal_property"
  <2>1. post_temporal_property
    BY <1>1, <1>2, OwnStatements
  <2>2. pc = "check" /\ HasFeature(work, req.cid, req.fid)
    BY <2>1 DEF post_temporal_property, Handles
  <2>3. /\ work = disk /\ IsDatabase(disk) /\ KeysDrawn(disk, serial) /\ NamesUnique(disk)
        /\ serial \in Nat /\ req \in Requests /\ req \in Request
    BY <2>2, CleanStart
  <2>4. PICK p \in Named : /\ Continues(work, p, Head(req.times))
                           /\ pc' = "finish" /\ code' = 201
                           /\ work' = InsertValuesRow(work, serial + 1, p, req)
    BY <1>1, <2>1 DEF post_temporal_property, Answer, Raise, Execute, Draw
  <2>5. serial + 1 \in 0..MaxSerial
    <3>1. Draws(req) >= 1
      BY <1>2, <2>3, DrawsAre
    <3>2. QED
      BY <2>2, <3>1, CleanKey
  <2>6. ValuesInserted(disk, work', serial + 1, p, req)
    BY <2>3, <2>4, InsertValuesRowFields
  <2>7. p \in PropertiesNamed(disk, req.fid, req.name)
    BY <2>3 DEF Named
  <2> DEFINE o == AddsValues(req)
  <2>8. Contract!Operation(DocumentsOf(disk), DocumentsOf(work'), o)
    BY <2>2, <2>3, <2>4, <2>5, <2>6, <2>7, AddValuesOperation DEF AddsValues
  <2>9. PlanOf(req) = <<o>>
    BY <1>2, PlanIs
  <2> HIDE DEF o
  <2>10. pc' = "finish" /\ code' < 300
    BY <2>4
  <2>11. QED
    BY <1>1, <2>8, <2>9, <2>10, OwesOne
<1>3. CASE req.op = "delete_temporal_property"
  <2>1. delete_temporal_property
    BY <1>1, <1>3, OwnStatements
  <2>2. pc = "check" /\ HasFeature(work, req.cid, req.fid)
    BY <2>1 DEF delete_temporal_property, Handles
  <2>3. work = disk /\ IsDatabase(disk)
    BY <2>2, CleanStart
  <2>4. /\ PropertiesNamed(disk, req.fid, req.name) # {} /\ pc' = "finish" /\ code' = 204
        /\ work' = DeleteProperties(disk, PropertiesNamed(disk, req.fid, req.name))
    BY <1>1, <2>1, <2>3 DEF delete_temporal_property, Named, Answer, ExecuteLast, Execute
  <2> DEFINE o == OnProperty(req, "remove property")
  <2>5. Contract!Operation(DocumentsOf(disk), DocumentsOf(work'), o)
    BY <2>2, <2>3, <2>4, RemovePropertyOperation DEF OnProperty
  <2>6. PlanOf(req) = <<o>>
    BY <1>3, PlanIs
  <2> HIDE DEF o
  <2>7. pc' = "finish" /\ code' < 300
    BY <2>4
  <2>8. QED
    BY <1>1, <2>5, <2>6, <2>7, OwesOne
<1>4. QED
  BY <1>2, <1>3

\* What is left to do of a list, after its first.
LEMMA Turns ==
  ASSUME NEW seq \in Seq(Items), seq # <<>>, NEW items \in Seq(Items)
  PROVE  LET n == Len(items) - Len(seq) + 1
         IN  /\ Len(seq) \in Nat /\ Len(items) \in Nat /\ Len(Tail(seq)) = Len(seq) - 1
             /\ n \in Int /\ n - 1 = Len(items) - Len(seq) /\ (n - 1) + 1 = n
             /\ Len(Tail(seq)) = Len(items) - n /\ n = Len(items) - Len(Tail(seq))
  OBVIOUS

\* After a single item nothing is left.
LEMMA OneTurn ==
  ASSUME NEW seq \in Seq(Items), Len(seq) = 1
  PROVE  Tail(seq) = <<>> /\ seq # <<>>
<1>1. seq # <<>>
  BY EmptySeq
<1>2. Tail(seq) \in Seq(Items)
  BY <1>1, HeadTailType
<1>3. Len(Tail(seq)) = 0
  BY <1>1
<1>4. QED
  BY <1>1, <1>2, <1>3, EmptySeq

\* The Feature being inserted is the next of the body.
LEMMA ItemTurn ==
  ASSUME Tidy, pc \in {"insert feature", "insert geometry"}, tx = "ok",
         req.op = "post_collection_items", NEW n, n = Len(req.items) - Len(todo) + 1
  PROVE  /\ n \in 1..Len(req.items) /\ Committed = n - 1 /\ Committed + 1 = n
         /\ req.items \in Seq(Items)
         /\ Len(Tail(todo)) = Len(req.items) - n
         /\ Head(todo).kind = req.items[n].kind /\ Head(todo).traj = req.items[n].traj
         /\ pc = "insert feature" => Head(todo).id = req.items[n].id
         /\ pc = "insert geometry" => Names(req.items[n], Head(todo).id)
<1>1. /\ TypeInv /\ Known /\ PrefixInv /\ PostedInv
  BY DEF Tidy, Progress, Known
<1>2. pc # "idle"
  OBVIOUS
<1>3. req \in Requests /\ req \in Request /\ req # NoRequest
  BY <1>1, <1>2, RequestType DEF TypeInv
<1>4. /\ req.items \in Seq(Items) /\ todo \in Seq(Items) /\ todo # <<>>
  BY <1>1, <1>3, PostedStart
<1>5. /\ Len(todo) \in Nat /\ Len(req.items) \in Nat /\ Len(Tail(todo)) = Len(todo) - 1
      /\ n \in Int /\ n - 1 = Len(req.items) - Len(todo) /\ (n - 1) + 1 = n
      /\ Len(Tail(todo)) = Len(req.items) - n /\ n = Len(req.items) - Len(Tail(todo))
  BY Zenon, <1>4, Turns
<1>6. Committed = n - 1
  BY Zenon, <1>5, CommittedIs
<1>7. CASE pc = "insert feature"
  <2>1. Suffix(todo, req.items)
    BY <1>1, <1>3, <1>7 DEF PostedInv
  <2>2. n \in 1..Len(req.items) /\ Head(todo) = req.items[n]
    BY <1>4, <2>1, SuffixHead
  <2>3. QED
    BY Zenon, <1>4, <1>5, <1>6, <1>7, <2>2
<1>8. CASE pc = "insert geometry"
  <2>1. HalfPosted(Len(req.items) - Len(Tail(todo)))
    BY Zenon, <1>1, <1>3, <1>8 DEF PostedInv
  <2>2. HalfPosted(n)
    BY <1>5, <2>1
  <2>3. QED
    BY Zenon, <1>4, <1>5, <1>6, <1>8, <2>2 DEF HalfPosted
<1>9. QED
  BY Zenon, <1>7, <1>8

\* The Feature that replaces another is the one of the body.
LEMMA ReplacementTurn ==
  ASSUME Tidy, OweInv, pc \in FeatureLabels, tx = "ok", req.op = "put_single_moving_feature"
  PROVE  /\ Head(todo).kind = req.items[1].kind /\ Head(todo).traj = req.items[1].traj
         /\ Head(todo).id = req.fid /\ Tail(todo) = <<>> /\ todo # <<>> /\ req.items # <<>>
         /\ req.fid \in FeatureIds /\ code = 200
<1>1. /\ TypeInv /\ ReplaceInv /\ ReplacingInv
  BY DEF Tidy, Progress, Known
<1>2. pc # "idle"
  BY DEF FeatureLabels
<1>3. req \in Requests /\ req \in Request /\ req # NoRequest
  BY <1>1, <1>2, RequestType DEF TypeInv
<1>4. Len(todo) = 1 /\ todo \in Seq(Items) /\ code = 200
  BY <1>1, <1>3 DEF ReplaceInv, TypeInv, TypeOK
<1>5. Tail(todo) = <<>> /\ todo # <<>>
  BY Zenon, <1>4, OneTurn
<1>6. req.items # <<>>
  BY <1>3 DEF OweInv
<1>7. QED
  BY <1>1, <1>3, <1>4, <1>5, <1>6 DEF ReplacingInv, Request

\* A replacement asks for two.
LEMMA ReplacementPlan ==
  ASSUME NEW r, r.op = "put_single_moving_feature", r.items # <<>>
  PROVE  /\ Len(PlanOf(r)) = 2 /\ 1 \in DOMAIN PlanOf(r) /\ 2 \in DOMAIN PlanOf(r)
         /\ PlanOf(r)[1] = Removes(r) /\ PlanOf(r)[2] = AddsFeature(r, r.fid, r.items[1])
<1>1. PlanOf(r) = <<Removes(r), AddsFeature(r, r.fid, r.items[1])>>
  BY Zenon, PlanIs
<1>2. QED
  BY <1>1

\* Two small sums.
LEMMA OneTwo == 0 + 1 = 1 /\ 1 + 1 = 2
  OBVIOUS

\* The items of a body are numbered from one.
LEMMA DomainOfItems ==
  ASSUME NEW items \in Seq(Items)
  PROVE  DOMAIN items = 1..Len(items) /\ Len(items) \in Nat
  OBVIOUS

\* How many items are taken when some are left.
LEMMA LeftOver ==
  ASSUME NEW items \in Seq(Items), NEW rest, NEW n \in 1..Len(items), rest = Len(items) - n
  PROVE  /\ Len(items) - rest = n /\ n > 0 /\ rest < Len(items) /\ Len(items) \in Nat
         /\ rest = 0 => n = Len(items)
  OBVIOUS

\* A FeatureCollection asks for one operation per Feature.
LEMMA PlanLength ==
  ASSUME req.op = "post_collection_items", req.items \in Seq(Items)
  PROVE  DOMAIN PlanOf(req) = DOMAIN req.items /\ Len(PlanOf(req)) = Len(req.items)
<1> DEFINE F(n) == AddsFeature(req, req.items[n].id, req.items[n])
<1>1. PlanOf(req) = [n \in DOMAIN req.items |-> F(n)]
  BY Zenon, PlanIs
<1> HIDE DEF F
<1>2. DOMAIN req.items = 1..Len(req.items) /\ Len(req.items) \in Nat
  OBVIOUS
<1>3. Len([n \in 1..Len(req.items) |-> F(n)]) = Len(req.items)
  BY <1>2
<1>4. QED
  BY <1>1, <1>2, <1>3

\* Which is the next operation of the request, whoever inserts it.
LEMMA HeadOperation ==
  ASSUME Tidy, OweInv, pc \in {"insert feature", "insert geometry"}, tx = "ok",
         NEW k, k = Committed + 1
  PROVE  /\ k \in DOMAIN PlanOf(req) /\ k = Committed + 1
         /\ \E given :
              /\ PlanOf(req)[k] = AddsFeature(req, given, Head(todo))
              /\ pc = "insert feature" => given = Head(todo).id
              /\ Head(todo).id \in FeatureIds =>
                   Head(todo).id \in IF given = NoId THEN FeatureIds ELSE {given}
<1>1. pc \in FeatureLabels /\ req.op \in {"post_collection_items", "put_single_moving_feature"}
  BY Zenon DEF Tidy, Progress, Known, TypeInv, Control, FeatureLabels
<1>2. CASE req.op = "post_collection_items"
  <2> DEFINE n == Len(req.items) - Len(todo) + 1
             given == req.items[n].id
  <2>1. /\ n \in 1..Len(req.items) /\ Committed + 1 = n /\ req.items \in Seq(Items)
        /\ Head(todo).kind = req.items[n].kind /\ Head(todo).traj = req.items[n].traj
        /\ pc = "insert feature" => Head(todo).id = given
        /\ pc = "insert geometry" => Names(req.items[n], Head(todo).id)
    BY Zenon, <1>2, ItemTurn
  <2> HIDE DEF n
  <2>2. n \in DOMAIN req.items
    BY Zenon, <2>1, DomainOfItems
  <2>3. PlanOf(req) = [m \in DOMAIN req.items |-> AddsFeature(req, req.items[m].id, req.items[m])]
    BY Zenon, <1>2, PlanIs
  <2>4. PlanOf(req)[n] = AddsFeature(req, given, req.items[n]) /\ n \in DOMAIN PlanOf(req)
    BY Zenon, <2>2, <2>3
  <2>5. AddsFeature(req, given, req.items[n]) = AddsFeature(req, given, Head(todo))
    BY Zenon, <2>1 DEF AddsFeature
  <2>6. Head(todo).id \in FeatureIds =>
          Head(todo).id \in IF given = NoId THEN FeatureIds ELSE {given}
    BY Zenon, <2>1 DEF Names
  <2>7. QED
    BY Zenon, <2>1, <2>4, <2>5, <2>6
<1>3. CASE req.op = "put_single_moving_feature"
  <2> DEFINE first == Removes(req)  second == AddsFeature(req, req.fid, req.items[1])
  <2>1. /\ Head(todo).kind = req.items[1].kind /\ Head(todo).traj = req.items[1].traj
        /\ Head(todo).id = req.fid /\ req.items # <<>>
    BY Zenon, <1>1, <1>3, ReplacementTurn
  <2>2. 2 \in DOMAIN PlanOf(req) /\ PlanOf(req)[2] = second
    BY Zenon, <1>3, <2>1, ReplacementPlan
  <2>3. second = AddsFeature(req, req.fid, Head(todo))
    BY Zenon, <2>1 DEF AddsFeature
  <2> HIDE DEF second
  <2>5. Committed = 1
    BY Zenon, <1>3, CommittedIs
  <2>6. k = 2
    BY Zenon, <2>5, OneTwo
  <2>7. Head(todo).id \in IF req.fid = NoId THEN FeatureIds ELSE {req.fid}
    <3>1. req.fid \in FeatureIds
      BY Zenon, <1>1, <1>3, ReplacementTurn
    <3>2. req.fid # NoId
      BY Zenon, <3>1, RequestsAssumption
    <3>3. QED
      BY Zenon, <2>1, <3>2
  <2>8. QED
    BY Zenon, <2>1, <2>2, <2>3, <2>6, <2>7
<1>4. QED
  BY Zenon, <1>1, <1>2, <1>3

\* Once it is there, its commit is the one that the position does not count.
LEMMA NextFeature ==
  ASSUME Tidy, OweInv, pc \in {"insert feature", "insert geometry"}, tx = "ok", Kept,
         todo' = Tail(todo), pc' = NextItem(Tail(todo), "feature"), code' = code,
         disk' = disk,
         Contract!Operation(DocumentsOf(disk), DocumentsOf(work'), PlanOf(req)[Committed + 1])
  PROVE  OweInv'
<1>1. pc \in FeatureLabels /\ req.op \in {"post_collection_items", "put_single_moving_feature"}
  BY Zenon DEF Tidy, Progress, Known, TypeInv, Control, FeatureLabels
<1>2. req # NoRequest /\ code < 300
  <2>1. pc # "idle"
    BY Zenon DEF FeatureLabels
  <2>2. req # NoRequest
    BY Zenon, <2>1, RequestType DEF Tidy, Progress, Known, TypeInv
  <2>3. QED
    BY Zenon, <1>1, <2>2 DEF OweInv
<1>3. PlanOf(req') = PlanOf(req) /\ req' = req
  BY Zenon DEF Kept
<1>4. pc' \in {"feature", "finish"}
  BY Zenon DEF NextItem
<1>5. CASE req.op = "post_collection_items"
  <2> DEFINE n == Len(req.items) - Len(todo) + 1
             taken == Len(req'.items) - Len(todo')
  <2>1. /\ n \in 1..Len(req.items) /\ Committed = n - 1 /\ Committed + 1 = n
        /\ req.items \in Seq(Items) /\ Len(Tail(todo)) = Len(req.items) - n
    BY Zenon, <1>5, ItemTurn
  <2>2. taken = n /\ n > 0 /\ Len(Tail(todo)) < Len(req.items)
        /\ (Len(Tail(todo)) = 0 => n = Len(req.items)) /\ Len(req.items) \in Nat
    BY Zenon, <1>3, <2>1, LeftOver
  <2>3. Committed' = Committed
    BY Zenon, <1>3, <1>4, <1>5, <2>1, <2>2, CommittedNext
  <2> HIDE DEF n, taken
  <2>4. DOMAIN PlanOf(req) = DOMAIN req.items /\ Len(PlanOf(req)) = Len(req.items)
    BY Zenon, <1>5, <2>1, PlanLength
  <2>5. DueNow'
    <3>1. n \in DOMAIN PlanOf(req)
      BY Zenon, <2>1, <2>4, DomainOfItems
    <3>2. QED
      BY Zenon, <2>1, <2>3, <3>1, OwedBy
  <2>6. CASE pc' = "feature"
    <3>1. Awaited'
      BY Zenon, <1>3, <2>2, <2>5 DEF Awaited
    <3>2. code' < 300 /\ req'.op # "put_single_moving_feature"
      BY Zenon, <1>2, <1>3, <1>5
    <3>3. QED
      BY Zenon, <2>6, <3>1, <3>2 DEF OweInv, BatchLabels
  <2>7. CASE pc' = "finish"
    <3>1. todo \in Seq(Items) /\ todo # <<>>
      BY Zenon, <1>1 DEF Tidy, Progress, Known, TypeInv, TypeOK, Control
    <3>2. Len(Tail(todo)) = 0
      BY Zenon, <2>7, <3>1, HeadTailType, LastItem
    <3>3. Committed' + 1 = Len(PlanOf(req'))
      BY Zenon, <1>3, <2>1, <2>2, <2>3, <2>4, <3>2
    <3>4. Concluded'
      BY Zenon, <1>2, <2>5, <3>3 DEF Concluded
    <3>5. QED
      BY Zenon, <2>7, <3>4, ConcludedOwes
  <2>8. QED
    BY Zenon, <1>4, <2>6, <2>7
<1>6. CASE req.op = "put_single_moving_feature"
  <2>1. Tail(todo) = <<>> /\ req.items # <<>>
    BY Zenon, <1>1, <1>6, ReplacementTurn
  <2>2. pc' = "finish"
    BY Zenon, <2>1 DEF NextItem
  <2>3. Committed = 1 /\ Committed' = 1
    BY Zenon, <1>3, <1>6, <2>2, CommittedIs, CommittedNext
  <2>5. 2 \in DOMAIN PlanOf(req) /\ Len(PlanOf(req)) = 2
    BY Zenon, <1>6, <2>1, ReplacementPlan
  <2>6. Committed + 1 = 2 /\ Committed' + 1 = 2
    BY Zenon, <2>3, OneTwo
  <2>7. DueNow'
    BY Zenon, <2>5, <2>6, OwedBy
  <2>8. Concluded'
    BY Zenon, <1>2, <1>3, <2>5, <2>6, <2>7 DEF Concluded
  <2>9. QED
    BY Zenon, <2>2, <2>8, ConcludedOwes
<1>7. QED
  BY Zenon, <1>1, <1>5, <1>6

\* A FeatureCollection is accepted, a feature that is to be replaced deleted.
LEMMA FirstOwes ==
  ASSUME Tidy, Works, post_collection_items \/ put_single_moving_feature
  PROVE  OweInv'
<1> USE DEF At
<1>1. /\ TypeInv /\ Kept /\ disk' = disk /\ pc' \notin {"respond", "except"}
  BY DEF Tidy, Progress, Known, Works, Outcomes
<1>2. req' = req /\ PlanOf(req') = PlanOf(req)
  BY <1>1 DEF Kept
<1>3. pc = "check"
  BY DEF post_collection_items, put_single_moving_feature
<1>4. /\ work = disk /\ IsDatabase(disk) /\ ReferencesHold(disk)
      /\ req \in Requests /\ req \in Request
  BY <1>3, CleanStart
<1>5. CASE post_collection_items
  <2>1. /\ req.op = "post_collection_items" /\ todo' = req.items /\ code' = 201
        /\ pc' = NextItem(req.items, "feature") /\ work' = work
    BY <1>1, <1>5 DEF post_collection_items, Raise, store
  <2>2. Same'
    BY <1>1, <1>4, <2>1 DEF Same
  <2>3. CASE req.items = <<>>
    <3>1. PlanOf(req) = <<>>
      <4> DEFINE F(n) == AddsFeature(req, req.items[n].id, req.items[n])
      <4>1. PlanOf(req) = [n \in DOMAIN req.items |-> F(n)]
        BY Zenon, <2>1, PlanIs
      <4> HIDE DEF F
      <4>2. QED
        BY <2>3, <4>1
    <3>2. pc' = "finish" /\ code' < 300
      BY <2>1, <2>3 DEF NextItem
    <3>3. Concluded'
      BY Zenon, <1>2, <2>2, <3>1, <3>2 DEF Concluded
    <3>4. QED
      BY <3>2, <3>3, ConcludedOwes
  <2>4. CASE req.items # <<>>
    <3>1. pc' = "feature" /\ code' < 300
      BY <2>1, <2>4 DEF NextItem
    <3>2. Awaited'
      BY <1>2, <2>1, <2>2 DEF Awaited
    <3>3. req'.op # "put_single_moving_feature"
      BY <1>2, <2>1
    <3>4. QED
      BY Zenon, <3>1, <3>2, <3>3 DEF OweInv, BatchLabels
  <2>5. QED
    BY <2>3, <2>4
<1>6. CASE put_single_moving_feature
  <2>1. /\ req.op = "put_single_moving_feature" /\ HasFeature(work, req.cid, req.fid)
        /\ work' = DeleteFeatures(work, {req.fid}) /\ pc' = "feature" /\ code' = 200
    BY <1>1, <1>6 DEF put_single_moving_feature, Answer, Execute
  <2>2. req.items # <<>>
    <3>1. Len(req.items) = 1
      BY <1>1, <1>3, <1>4, <2>1, RequestsAssumption DEF TypeInv, Control
    <3>2. QED
      BY <3>1, EmptySeq
  <2>3. Contract!Operation(DocumentsOf(disk), DocumentsOf(work'), Removes(req))
    BY <1>4, <2>1, RemoveFeatureOperation DEF Removes
  <2>4. Committed' = 0
    BY Zenon, <1>2, <2>1, CommittedNext
  <2>5. Committed' + 1 = 1
    BY Zenon, <2>4, OneTwo
  <2>6. 1 \in DOMAIN PlanOf(req) /\ PlanOf(req)[1] = Removes(req)
    BY Zenon, <2>1, <2>2, ReplacementPlan
  <2>7. DueNow'
    BY Zenon, <1>1, <2>3, <2>5, <2>6, OwedBy
  <2>8. Awaited' /\ req'.items # <<>> /\ code' < 300
    <3>1. req'.op # "post_collection_items"
      BY <1>2, <2>1
    <3>2. QED
      BY <1>2, <2>1, <2>2, <2>7, <3>1 DEF Awaited
  <2>9. QED
    BY Zenon, <2>1, <2>8 DEF OweInv, BatchLabels
<1>7. QED
  BY <1>5, <1>6

\* The tables that insert_feature creates first are in no document.
LEMMA TablesOwe ==
  ASSUME Tidy, OweInv, Works, insert_feature_tables
  PROVE  OweInv'
<1>1. /\ TypeInv /\ Kept /\ disk' = disk /\ pc' # "except" /\ tx = "ok"
  BY DEF Tidy, Progress, Known, Works, Outcomes
<1>2. req' = req /\ PlanOf(req') = PlanOf(req)
  BY <1>1 DEF Kept
<1>3. /\ pc = "feature" /\ pc' = "features" /\ code' = code /\ todo' = todo
      /\ work' = CreateTables(work, {"core", "features"})
  BY <1>1 DEF insert_feature_tables, Raise, Execute, loop
<1>4. IsDatabase(work) /\ req # NoRequest
  BY <1>1, <1>3 DEF TypeInv, TypeOK
<1>5. DocumentsOf(work') = DocumentsOf(work)
  BY <1>3, <1>4, CreateTablesFields, TablesDocuments
<1>6. Awaited /\ code < 300
  BY Zenon, <1>1, <1>3, <1>4 DEF OweInv, FeatureLabels
<1>7. req.op \in {"post_collection_items", "put_single_moving_feature"}
  BY Zenon, <1>1, <1>3 DEF TypeInv, Control, FeatureLabels
<1>8. Committed' = Committed
  <2>1. CASE req.op = "put_single_moving_feature"
    BY Zenon, <1>2, <1>3, <2>1, CommittedIs, CommittedNext
  <2>2. CASE req.op = "post_collection_items" /\ Len(req.items) - Len(todo) > 0
    <3>1. Committed = (Len(req.items) - Len(todo)) - 1
      BY Zenon, <1>3, <2>2, CommittedIs
    <3>2. Committed' = (Len(req.items) - Len(todo)) - 1
      BY Zenon, <1>2, <1>3, <2>2, CommittedNext
    <3>3. QED
      BY Zenon, <3>1, <3>2
  <2>3. CASE req.op = "post_collection_items" /\ ~(Len(req.items) - Len(todo) > 0)
    <3>1. Committed = 0
      BY Zenon, <1>3, <2>3, CommittedIs
    <3>2. Committed' = 0
      BY Zenon, <1>2, <1>3, <2>3, CommittedNext
    <3>3. QED
      BY Zenon, <3>1, <3>2
  <2>4. QED
    BY Zenon, <1>7, <2>1, <2>2, <2>3
<1>9. Same => Same'
  BY <1>1, <1>5 DEF Same
<1>10. DueNow => DueNow'
  BY Zenon, <1>1, <1>2, <1>5, <1>8 DEF DueNow, Owes
<1>11. Awaited'
  BY Zenon, <1>2, <1>3, <1>6, <1>9, <1>10 DEF Awaited
<1>12. req.op = "put_single_moving_feature" => req.items # <<>>
  BY Zenon, <1>1, <1>3, <1>4 DEF OweInv, FeatureLabels
<1>13. QED
  BY Zenon, <1>2, <1>3, <1>6, <1>11, <1>12 DEF OweInv, BatchLabels

\* The next SERIAL value is within the bound while there is an item.
LEMMA KeyWithin ==
  ASSUME NEW seq \in Seq(Items), seq # <<>>, NEW n \in Nat, n + Len(seq) <= MaxSerial
  PROVE  n + 1 \in 0..MaxSerial
<1>1. Len(seq) \in Nat /\ Len(seq) >= 1
  OBVIOUS
<1>2. QED
  BY <1>1, BoundAssumption

\* What insert_feature asks for, spelled out.
LEMMA AddsTrajectory ==
  ASSUME NEW r, NEW f, NEW item, item.kind = "ok"
  PROVE  AddsFeature(r, f, item) =
           [do |-> "add feature", cid |-> r.cid, fid |-> f, paths |-> <<item.traj>>]
  BY Zenon DEF AddsFeature

\* A Feature that has no trajectory asks for its row alone.
LEMMA AddsRow ==
  ASSUME NEW r, NEW f, NEW item, item.kind # "ok"
  PROVE  AddsFeature(r, f, item) =
           [do |-> "add feature", cid |-> r.cid, fid |-> f, paths |-> <<>>]
  BY Zenon DEF AddsFeature

\* A Feature whose id is taken is passed over.
LEMMA TakenFeature ==
  ASSUME NEW db, NEW r, HasCollection(db, r.cid), NEW f \in DOMAIN db.features, f # NoId,
         NEW item
  PROVE  Contract!Operation(DocumentsOf(db), DocumentsOf(db), AddsFeature(r, f, item))
<1> DEFINE o == AddsFeature(r, f, item)
<1>1. o.do = "add feature" /\ o.cid = r.cid /\ o.fid = f
  BY Zenon DEF AddsFeature
<1> HIDE DEF o
<1>2. Contract!Operation(DocumentsOf(db), DocumentsOf(db), o)
  BY Zenon, <1>1, TakenOperation
<1>3. QED
  BY Zenon, <1>2 DEF o

\* The row of a Feature.
LEMMA RowOwes ==
  ASSUME Tidy, OweInv, Works, insert_feature_row
  PROVE  OweInv'
<1>1. /\ TypeInv /\ Kept /\ disk' = disk /\ pc' # "except" /\ tx = "ok"
      /\ pc = "insert feature" /\ pc \in FeatureLabels
  BY Zenon DEF Tidy, Progress, Known, Works, Outcomes, insert_feature_row, FeatureLabels
<1>2. req' = req
  BY <1>1 DEF Kept
<1>3. /\ work = disk /\ IsDatabase(disk) /\ ReferencesHold(disk) /\ req # NoRequest
  BY Zenon, <1>1, CleanStart
<1>4. HasCollection(disk, req.cid)
  BY Zenon, <1>1, <1>3 DEF Tidy, Progress, Known, TablesInv, Located, Checked
<1>5. todo \in Seq(Items) /\ todo # <<>> /\ Head(todo) \in Items
  <2>1. todo \in Seq(Items) /\ todo # <<>>
    BY Zenon, <1>1 DEF TypeInv, TypeOK, Control
  <2>2. QED
    BY Zenon, <2>1, HeadTailType
<1>6. code < 300 /\ (req.op = "put_single_moving_feature" => req.items # <<>>)
  BY Zenon, <1>1, <1>3 DEF OweInv
<1>7. PICK id \in FeatureIds : RowDone(id) /\ (GeometryNext(id) \/ RowIsAll(id))
  BY Zenon, <1>1, InsertedRow
<1>8. PICK given : /\ PlanOf(req)[Committed + 1] = AddsFeature(req, given, Head(todo))
                   /\ given = Head(todo).id
  BY Zenon, <1>1, HeadOperation
<1>9. /\ id \in Keys(given) /\ code' = code
      /\ id \notin DOMAIN disk.features => FeatureInserted(disk, work', id, req.cid)
      /\ id \in DOMAIN disk.features => work' = disk
  BY Zenon, <1>3, <1>7, <1>8 DEF RowDone
<1>10. id # NoId
  BY Zenon, RequestsAssumption
<1>11. id \in IF given = NoId THEN FeatureIds ELSE {given}
  BY Zenon, <1>9 DEF Keys
<1>12. CASE GeometryNext(id)
  <2>1. id \notin DOMAIN disk.features /\ pc' = "insert geometry"
    BY Zenon, <1>3, <1>12 DEF GeometryNext
  <2>2. Head(todo').id = id
    <3>1. Head(todo') = [Head(todo) EXCEPT !.id = id]
      BY Zenon, <1>12 DEF GeometryNext
    <3>2. ASSUME NEW item \in Items PROVE [item EXCEPT !.id = id].id = id
      BY Zenon DEF Items
    <3>3. QED
      BY Zenon, <1>5, <3>1, <3>2
  <2>3. DocumentsOf(work') =
          Contract!WithFeature(DocumentsOf(disk), id,
                               Contract!Feature(req.cid, Contract!Nothing, Contract!Nothing))
    BY Zenon, <1>3, <1>9, <2>1, InsertDocument
  <2>4. HalfThere'
    BY Zenon, <1>1, <1>2, <2>1, <2>2, <2>3 DEF HalfThere
  <2>5. QED
    BY Zenon, <1>2, <1>6, <1>9, <2>1, <2>4 DEF OweInv, BatchLabels
<1>13. CASE RowIsAll(id)
  <2>1. /\ pc' = NextItem(Tail(todo), "feature") /\ todo' = Tail(todo)
        /\ id \notin DOMAIN disk.features => Head(todo).kind = "empty temporalGeometry"
    BY Zenon, <1>3, <1>13 DEF RowIsAll
  <2> DEFINE o == AddsFeature(req, given, Head(todo))
  <2>2. Contract!Operation(DocumentsOf(disk), DocumentsOf(work'), o)
    <3>1. CASE id \notin DOMAIN disk.features
      <4>1. o = [do |-> "add feature", cid |-> req.cid, fid |-> given, paths |-> <<>>]
        BY Zenon, <2>1, <3>1, AddsRow
      <4>2. FeatureInserted(disk, work', id, req.cid)
        BY Zenon, <1>9, <3>1
      <4> HIDE DEF o
      <4>3. QED
        BY Zenon, <1>3, <1>4, <1>11, <3>1, <4>1, <4>2, AddRowOperation
    <3>2. CASE id \in DOMAIN disk.features
      <4>1. given = id
        BY Zenon, <1>3, <1>9, <3>2 DEF Keys
      <4>2. work' = disk
        BY Zenon, <1>9, <3>2
      <4>3. QED
        BY Zenon, <1>4, <1>10, <3>2, <4>1, <4>2, TakenFeature
    <3>3. QED
      BY Zenon, <3>1, <3>2
  <2>3. QED
    BY Zenon, <1>1, <1>8, <1>9, <2>1, <2>2, NextFeature
<1>14. QED
  BY Zenon, <1>7, <1>12, <1>13

\* The temporal geometry of a Feature.
LEMMA GeometryOwes ==
  ASSUME Tidy, OweInv, Works, insert_feature_geometry
  PROVE  OweInv'
<1>1. /\ TypeInv /\ TablesInv /\ Kept /\ disk' = disk /\ pc' # "except" /\ tx = "ok"
      /\ pc = "insert geometry" /\ pc \in FeatureLabels
  BY Zenon DEF Tidy, Progress, Known, Works, Outcomes, insert_feature_geometry, FeatureLabels
<1>2. req # NoRequest /\ IsDatabase(work) /\ HasCollection(work, req.cid)
  <2>1. pc # "idle"
    BY Zenon, <1>1
  <2>2. QED
    BY Zenon, <1>1, <2>1, RequestType DEF TypeInv, TypeOK, TablesInv, Located, Checked
<1>3. HalfThere
  BY Zenon, <1>1, <1>2 DEF OweInv
<1> DEFINE f == Head(todo).id  traj == Head(todo).traj  g == serial + 1
<1>4. /\ Head(todo).kind = "ok" /\ f \in FeatureIds
      /\ GeometryInserted(work, work', g, f, req.cid, traj, TRUE)
      /\ g \notin DOMAIN work.geometries
      /\ pc' = NextItem(Tail(todo), "feature") /\ todo' = Tail(todo) /\ code' = code
  BY Zenon, <1>1, InsertedGeometry
<1>5. g \in 0..MaxSerial
  <2>1. serial + Len(todo) <= MaxSerial
    BY Zenon, <1>1 DEF Tidy, RoomInv
  <2>2. todo \in Seq(Items) /\ todo # <<>> /\ serial \in Nat
    BY Zenon, <1>1 DEF TypeInv, TypeOK, Control
  <2>3. QED
    BY Zenon, <2>1, <2>2, KeyWithin
<1>6. PICK given :
        /\ PlanOf(req)[Committed + 1] = AddsFeature(req, given, Head(todo))
        /\ f \in FeatureIds => f \in IF given = NoId THEN FeatureIds ELSE {given}
  BY Zenon, <1>1, HeadOperation
<1>7. /\ f \notin DOMAIN disk.features
      /\ DocumentsOf(work) =
           Contract!WithFeature(DocumentsOf(disk), f,
                                Contract!Feature(req.cid, Contract!Nothing, Contract!Nothing))
  BY Zenon, <1>3 DEF HalfThere
<1>8. AddsFeature(req, given, Head(todo)) =
        [do |-> "add feature", cid |-> req.cid, fid |-> given, paths |-> <<traj>>]
  BY Zenon, <1>4, AddsTrajectory
<1>9. f \in IF given = NoId THEN FeatureIds ELSE {given}
  BY Zenon, <1>4, <1>6
<1> HIDE DEF f, traj, g
<1>10. Contract!Operation(DocumentsOf(disk), DocumentsOf(work'),
         [do |-> "add feature", cid |-> req.cid, fid |-> given, paths |-> <<traj>>])
  BY Zenon, <1>2, <1>4, <1>5, <1>7, <1>9, AddPathOperation
<1>11. Contract!Operation(DocumentsOf(disk), DocumentsOf(work'), PlanOf(req)[Committed + 1])
  BY Zenon, <1>6, <1>8, <1>10
<1>12. QED
  BY Zenon, <1>1, <1>4, <1>11, NextFeature

\* The documents of tables are documents.
LEMMA DocumentsTyped ==
  ASSUME NEW db, IsDatabase(db)
  PROVE  LET d == DocumentsOf(db)
         IN  /\ PathsTyped(d) /\ d = Contract!Contents(d.collections, d.features)
             /\ d.features = [f \in DOMAIN d.features |-> d.features[f]]
<1>1. ASSUME NEW f PROVE PathsAre(PathsOf(db, f))
  <2>1. \A g \in DOMAIN db.geometries : db.geometries[g].traj \in Trajectories
    BY DEF IsDatabase, IsTable, GeometryRow
  <2>2. QED
    BY <2>1 DEF PathsAre, PathsOf, GeometriesOf
<1>2. PathsTyped(DocumentsOf(db))
  BY <1>1, DocumentFields DEF PathsTyped
<1>3. QED
  BY <1>2 DEF DocumentsOf, Contract!Contents

\* The observations of a batch.
LEMMA ObservesIs ==
  ASSUME NEW r \in Requests, r.op = "post_bulk", NEW n \in DOMAIN r.items
  PROVE  /\ Observes(r)[n].fid = r.items[n].id
         /\ r.items[n].traj = <<{Observes(r)[n].time}>>
         /\ Observes(r)[n].time \in Instants
<1>1. PICK t \in Instants : r.items[n].traj = <<{t}>>
  BY RequestsAssumption
<1>2. r.items[n].traj[1] = {t}
  BY <1>1
<1> DEFINE u == CHOOSE s \in r.items[n].traj[1] : TRUE
<1>3. u = t
  BY <1>2
<1>4. Observes(r)[n] = [fid |-> r.items[n].id, time |-> u]
  BY DEF Observes
<1> HIDE DEF u
<1>5. Observes(r)[n].fid = r.items[n].id /\ Observes(r)[n].time = t
  BY <1>3, <1>4
<1>6. QED
  BY <1>1, <1>5

\* What a batch asks for.
LEMMA BatchPlan ==
  ASSUME NEW r, r.op = "post_bulk", r.items \in Seq(Items)
  PROVE  PlanOf(r) = <<Batch(r.cid, Observes(r), Len(r.items))>>
<1> DEFINE obs == Observes(r)  Obs(n) == obs[n]
<1>1. DOMAIN r.items = 1..Len(r.items)
  BY DomainOfItems
<1>2. obs = [n \in 1..Len(r.items) |-> Obs(n)]
  BY Zenon, <1>1 DEF Observes
<1>3. PlanOf(r) = <<[do |-> "load batch", cid |-> r.cid, observations |-> obs]>>
  BY Zenon, PlanIs
<1>4. Batch(r.cid, obs, Len(r.items)) =
        [do |-> "load batch", cid |-> r.cid, observations |-> [n \in 1..Len(r.items) |-> Obs(n)]]
  BY Zenon DEF Batch
<1> HIDE DEF obs, Obs
<1>5. QED
  BY Zenon, <1>2, <1>3, <1>4 DEF obs

\* After an observation, whether more of them follow or not.
LEMMA GatheredNext ==
  ASSUME Kept, disk' = disk, req \in Requests, req.op = "post_bulk", req.items \in Seq(Items),
         code' < 300, todo' \in Seq(Items), pc' = NextItem(todo', "observe"),
         Contract!LoadBatch(DocumentsOf(disk), DocumentsOf(work'),
                            Batch(req.cid, Observes(req), Len(req.items) - Len(todo')))
  PROVE  OweInv'
<1>1. req' = req /\ PlanOf(req') = PlanOf(req)
  BY DEF Kept
<1>2. CASE pc' = "observe"
  <2>1. Gathered(DocumentsOf(work))'
    BY <1>1 DEF Gathered
  <2>2. req'.op # "put_single_moving_feature"
    BY <1>1
  <2>3. QED
    BY Zenon, <1>2, <2>1, <2>2 DEF OweInv, FeatureLabels
<1>3. CASE pc' = "finish"
  <2>1. Len(todo') = 0
    BY <1>3, LastItem
  <2>2. Len(req.items) - Len(todo') = Len(req.items)
    BY <2>1
  <2> DEFINE o == Batch(req.cid, Observes(req), Len(req.items))
  <2>3. Contract!LoadBatch(DocumentsOf(disk), DocumentsOf(work'), o)
    BY Zenon, <2>2
  <2>4. PlanOf(req) = <<o>>
    BY Zenon, BatchPlan
  <2> HIDE DEF o
  <2>5. Contract!Operation(DocumentsOf(disk), DocumentsOf(work'), o)
    BY Zenon, <2>3 DEF Contract!Operation
  <2>6. req.op \notin FeatureOps
    BY DEF FeatureOps
  <2>7. QED
    BY Zenon, <1>3, <2>4, <2>5, <2>6, OwesOne
<1>4. QED
  BY <1>2, <1>3, NextItemType

\* The feature of an observation is put where it was, or created.
Ready(db, mid, id, c) ==
  DocumentsOf(db) = Contract!WithFeature(mid, id, Contract!FeatureOr(mid, id, c))

\* What a feature that is ready for an observation is like.
LEMMA FeaturePrepared ==
  ASSUME NEW mid, NEW id, NEW c, NEW db,
         Ready(db, mid, id, c)
  PROVE  /\ id \in DOMAIN db.features /\ DocumentOf(db, id) = Contract!FeatureOr(mid, id, c)
         /\ PathsOf(db, id) = Contract!PathsOf(mid, id)
         /\ \A row : Contract!WithFeature(DocumentsOf(db), id, row) = Contract!WithFeature(mid, id, row)
<1> DEFINE feature == Contract!FeatureOr(mid, id, c)
<1>1. feature.paths = Contract!PathsOf(mid, id)
  BY DEF Contract!FeatureOr, Contract!PathsOf, Contract!Feature
<1> HIDE DEF feature
<1> DEFINE put == Contract!WithFeature(mid, id, feature)
<1>2. /\ DOMAIN put.features = DOMAIN mid.features \cup {id} /\ put.features[id] = feature
      /\ \A row : Contract!WithFeature(put, id, row) = Contract!WithFeature(mid, id, row)
  BY PutOnce, PutTwice
<1> HIDE DEF put
<1>3. DocumentsOf(db) = put
  BY DEF Ready, put, feature
<1>4. id \in DOMAIN db.features
  BY <1>2, <1>3, DocumentFields
<1>5. DocumentOf(db, id) = feature /\ DocumentOf(db, id).paths = PathsOf(db, id)
  BY <1>2, <1>3, <1>4, DocumentFields
<1>6. \A row : Contract!WithFeature(DocumentsOf(db), id, row) = Contract!WithFeature(mid, id, row)
  BY <1>2, <1>3
<1>7. QED
  BY <1>1, <1>4, <1>5, <1>6 DEF feature

\* The feature of an observation is there, or its row is inserted.
LEMMA PreparedBy ==
  ASSUME NEW db, IsDatabase(db), ReferencesHold(db), NEW id, NEW c, NEW new,
         IF id \in DOMAIN db.features THEN new = db ELSE FeatureInserted(db, new, id, c)
  PROVE  DocumentsOf(new) = Contract!WithFeature(DocumentsOf(db), id,
                                                 Contract!FeatureOr(DocumentsOf(db), id, c))
<1> DEFINE d == DocumentsOf(db)
<1>1. /\ d = Contract!Contents(d.collections, d.features)
      /\ d.features = [f \in DOMAIN d.features |-> d.features[f]]
      /\ DOMAIN d.features = DOMAIN db.features
  BY DocumentsTyped, DocumentFields
<1>2. CASE id \in DOMAIN db.features
  <2>1. Contract!FeatureOr(d, id, c) = d.features[id]
    BY <1>1, <1>2 DEF Contract!FeatureOr
  <2> HIDE DEF d
  <2>2. DOMAIN d.features \cup {id} = DOMAIN d.features
    BY <1>1, <1>2
  <2>3. Contract!Set(d.features, id, d.features[id]) = d.features
    BY <1>1, <2>2 DEF Contract!Set
  <2>4. Contract!WithFeature(d, id, d.features[id]) = d
    BY <1>1, <2>3 DEF Contract!WithFeature
  <2>5. new = db
    BY <1>2
  <2>6. QED
    BY <2>1, <2>4, <2>5 DEF d
<1>3. CASE id \notin DOMAIN db.features
  <2>1. Contract!FeatureOr(d, id, c) = Contract!Feature(c, Contract!Nothing, Contract!Nothing)
    BY <1>1, <1>3 DEF Contract!FeatureOr
  <2>2. FeatureInserted(db, new, id, c)
    BY <1>3
  <2>3. QED
    BY <1>3, <2>1, <2>2, InsertDocument
<1>4. QED
  BY <1>2, <1>3

\* What an observation at t makes of the document of feature id.
Watches(db, new, id, t, other) ==
  DocumentsOf(new) =
    Contract!WithFeature(DocumentsOf(db), id,
      Contract!WithPaths(DocumentOf(db, id), Watched(PathsOf(db, id), {t}, other)))

\* The two ways in which append_observations writes it.
Continuing(db, new, id, t) ==
  /\ GeometriesOf(db, id) # {}
  /\ \A g \in GeometriesOf(db, id) : MayAppend(db.geometries[g].traj, {t})
  /\ new = UpdateTrajectories(db,
             [g \in GeometriesOf(db, id) |-> AppendInstant(db.geometries[g].traj, {t})])
Beginning(db, new, key, id, c, t) ==
  /\ GeometriesOf(db, id) = {}
  /\ new = InsertGeometryRow(db, key, id, c, <<{t}>>, FALSE)

\* The UPDATE continues every trajectory.
LEMMA InstantWatched ==
  ASSUME NEW db, IsDatabase(db), NEW id \in DOMAIN db.features, NEW t \in Instants,
         NEW new, Continuing(db, new, id, t)
  PROVE  Watches(db, new, id, t, 0) /\ Later(PathsOf(db, id), t)
<1> DEFINE paths == PathsOf(db, id)
           trajs == [g \in GeometriesOf(db, id) |-> AppendInstant(db.geometries[g].traj, {t})]
<1>1. /\ DOMAIN paths = GeometriesOf(db, id)
      /\ \A g \in GeometriesOf(db, id) : paths[g] = db.geometries[g].traj
  BY DEF PathsOf
<1>2. /\ DOMAIN trajs = GeometriesOf(db, id)
      /\ \A g \in GeometriesOf(db, id) : trajs[g] = AppendInstant(db.geometries[g].traj, {t})
  OBVIOUS
<1>3. \A g \in GeometriesOf(db, id) : trajs[g] = Contract!Continued(paths[g], {t})
  BY <1>1, <1>2 DEF AppendInstant, Contract!Continued, Null
<1>4. paths # Contract!Nothing
  BY <1>1 DEF Continuing, Contract!Nothing
<1>5. Watched(paths, {t}, 0) = [g \in GeometriesOf(db, id) |-> trajs[g]]
  BY <1>1, <1>3, <1>4 DEF Watched
<1>6. \A g \in GeometriesOf(db, id) : db.geometries[g].traj \in Trajectories
  BY DEF IsDatabase, IsTable, GeometryRow, GeometriesOf
<1>7. \A g \in DOMAIN trajs : trajs[g] \in Trajectories
  BY <1>2, <1>6, AppendInstantType
<1>8. new = UpdateTrajectories(db, trajs)
  BY DEF Continuing
<1>9. Later(paths, t)
  BY <1>1 DEF Continuing, Later, MayAppend
<1> HIDE DEF paths, trajs
<1>10. TrajectoriesUpdated(db, new, trajs)
  BY <1>7, <1>8, UpdateTrajectoriesFields
<1>11. DocumentsOf(new) =
         Contract!WithFeature(DocumentsOf(db), id,
           Contract!WithPaths(DocumentOf(db, id), [g \in GeometriesOf(db, id) |-> trajs[g]]))
  BY <1>2, <1>10, TrajectoriesDocument
<1>12. QED
  BY <1>5, <1>9, <1>11 DEF Watches, paths

\* The INSERT begins one.
LEMMA FirstWatched ==
  ASSUME NEW db, IsDatabase(db), NEW id \in DOMAIN db.features, id \in FeatureIds,
         NEW c \in CollectionIds, NEW t \in Instants,
         NEW g \in Nat \ DOMAIN db.geometries, NEW new, Beginning(db, new, g, id, c, t)
  PROVE  Watches(db, new, id, t, g) /\ Later(PathsOf(db, id), t)
<1>1. PathsOf(db, id) = Contract!Nothing
  BY DEF Beginning, PathsOf, Contract!Nothing
<1>2. Contract!Set(Contract!Nothing, g, <<{t}>>) = Contract!Aged(<<<<{t}>>>>, g)
  BY FirstPath
<1>3. Watched(PathsOf(db, id), {t}, g) = Contract!Set(PathsOf(db, id), g, <<{t}>>)
  BY <1>1, <1>2 DEF Watched
<1>4. <<{t}>> \in Trajectories /\ FALSE \in BOOLEAN
  BY DEF Trajectories
<1>5. GeometryInserted(db, new, g, id, c, <<{t}>>, FALSE)
  BY <1>4, InsertGeometryRowFields DEF Beginning
<1> DEFINE traj == <<{t}>>  filled == FALSE
<1>6. DocumentsOf(new) =
        Contract!WithFeature(DocumentsOf(db), id,
          Contract!WithPaths(DocumentOf(db, id), Contract!Set(PathsOf(db, id), g, traj)))
  <2>1. GeometryInserted(db, new, g, id, c, traj, filled) /\ g \notin DOMAIN db.geometries
    BY <1>5
  <2> HIDE DEF traj, filled
  <2>2. QED
    BY <2>1, GeometryDocument
<1>7. Later(PathsOf(db, id), t)
  BY <1>1 DEF Later, Contract!Nothing
<1>8. QED
  BY <1>3, <1>6, <1>7 DEF Watches

\* The documents mid, with an observation at t appended to feature id of c.
Appended(mid, new, id, c, t) ==
  /\ Later(Contract!PathsOf(mid, id), t)
  /\ \E other \in 0..MaxSerial :
       DocumentsOf(new) =
         Contract!WithFeature(mid, id,
           Contract!WithPaths(Contract!FeatureOr(mid, id, c),
             Watched(Contract!PathsOf(mid, id), {t}, other)))

\* The next instant of a feature that is there.
LEMMA InstantTaken ==
  ASSUME NEW db, IsDatabase(db), NEW n \in Nat, KeysDrawn(db, n), n + 1 \in 0..MaxSerial,
         NEW mid, NEW id \in FeatureIds, NEW c \in CollectionIds, NEW t \in Instants,
         Ready(db, mid, id, c), NEW new,
         Continuing(db, new, id, t) \/ Beginning(db, new, n + 1, id, c, t)
  PROVE  Appended(mid, new, id, c, t)
<1>1. /\ id \in DOMAIN db.features /\ DocumentOf(db, id) = Contract!FeatureOr(mid, id, c)
      /\ PathsOf(db, id) = Contract!PathsOf(mid, id)
      /\ \A row : Contract!WithFeature(DocumentsOf(db), id, row) = Contract!WithFeature(mid, id, row)
  BY FeaturePrepared
<1>2. \E other \in 0..MaxSerial : Watches(db, new, id, t, other) /\ Later(PathsOf(db, id), t)
  <2>1. CASE Continuing(db, new, id, t)
    BY <1>1, <2>1, InstantWatched, NothingAged
  <2>2. CASE Beginning(db, new, n + 1, id, c, t)
    <3>1. n + 1 \in Nat \ DOMAIN db.geometries
      BY DrawnKey
    <3>2. QED
      BY <1>1, <2>2, <3>1, FirstWatched
  <2>3. QED
    BY <2>1, <2>2
<1>3. QED
  BY Zenon, <1>1, <1>2 DEF Watches, Appended

\* post_bulk, up to the first observation.
LEMMA BatchStarts ==
  ASSUME Tidy, Works, req.op = "post_bulk", post_bulk
  PROVE  OweInv'
<1>1. /\ TypeInv /\ Kept /\ disk' = disk /\ pc' \notin {"respond", "except"} /\ pc = "check"
  BY Zenon DEF Tidy, Progress, Known, Works, Outcomes, post_bulk, At
<1>2. /\ HasCollection(work, req.cid) /\ todo' = req.items /\ code' = 201
      /\ pc' = NextItem(req.items, "observe") /\ work' = work
  BY Zenon, <1>1 DEF post_bulk, Answer, Raise, store
<1>3. /\ work = disk /\ IsDatabase(disk) /\ req \in Requests /\ req \in Request
  BY Zenon, <1>1, CleanStart
<1>4. req.items \in Seq(Items)
  BY <1>3 DEF Request
<1> DEFINE d == DocumentsOf(disk)
<1>5. /\ d = Contract!Contents(d.collections, d.features)
      /\ d.features = [f \in DOMAIN d.features |-> d.features[f]]
  BY Zenon, <1>3, DocumentsTyped
<1>6. Contract!HasCollection(d, req.cid)
  BY Zenon, <1>2, <1>3, DocumentsHave
<1> HIDE DEF d
<1>7. Contract!LoadBatch(d, d, Batch(req.cid, Observes(req), 0))
  BY Zenon, <1>5, <1>6, BatchNone
<1>8. Len(req.items) - Len(todo') = 0
  BY <1>2, <1>4
<1>9. Contract!LoadBatch(DocumentsOf(disk), DocumentsOf(work'),
                         Batch(req.cid, Observes(req), Len(req.items) - Len(todo')))
  BY Zenon, <1>2, <1>3, <1>7, <1>8 DEF d
<1>10. 201 < 300
  OBVIOUS
<1>11. QED
  BY Zenon, <1>1, <1>2, <1>3, <1>4, <1>9, <1>10, GatheredNext

\* The row of the feature of an observation.
LEMMA BatchPrepares ==
  ASSUME Tidy, OweInv, Works, req.op = "post_bulk", append_observations_row
  PROVE  OweInv'
<1>1. /\ TypeInv /\ TablesInv /\ Kept /\ disk' = disk /\ tx = "ok" /\ pc = "observe"
      /\ pc' = "append instant" /\ code' = code /\ todo' = todo
  BY Zenon DEF Tidy, Progress, Known, Works, append_observations_row
<1>2. req # NoRequest /\ IsDatabase(work) /\ ReferencesHold(work)
  <2>1. pc # "idle"
    BY Zenon, <1>1
  <2>2. QED
    BY Zenon, <1>1, <2>1, RequestType DEF TypeInv, TypeOK, TablesInv
<1>3. Gathered(DocumentsOf(work)) /\ code < 300
  BY Zenon, <1>1, <1>2 DEF OweInv, BatchLabels
<1> DEFINE id == Head(todo).id
<1>4. IF id \in DOMAIN work.features THEN work' = work
      ELSE FeatureInserted(work, work', id, req.cid)
  BY Zenon, <1>2, InsertFeatureRowFields DEF append_observations_row
<1> HIDE DEF id
<1>5. DocumentsOf(work') =
        Contract!WithFeature(DocumentsOf(work), id, Contract!FeatureOr(DocumentsOf(work), id, req.cid))
  BY Zenon, <1>2, <1>4, PreparedBy
<1>6. req' = req
  BY Zenon, <1>1 DEF Kept
<1>7. \E mid : /\ Contract!LoadBatch(DocumentsOf(disk), mid,
                    Batch(req.cid, Observes(req), Len(req.items) - Len(todo)))
               /\ DocumentsOf(work') = Contract!WithFeature(mid, Head(todo).id,
                                         Contract!FeatureOr(mid, Head(todo).id, req.cid))
  BY Zenon, <1>3, <1>5 DEF Gathered, id
<1>8. Prepared'
  BY Zenon, <1>1, <1>6, <1>7 DEF Prepared, Gathered
<1>9. req'.op # "put_single_moving_feature"
  BY Zenon, <1>6
<1>10. QED
  BY Zenon, <1>1, <1>3, <1>8, <1>9 DEF OweInv, FeatureLabels, BatchLabels


\* The items of a request.
LEMMA ItemsTyped ==
  ASSUME NEW r \in Request
  PROVE  r.items \in Seq(Items)
  BY DEF Request

\* The observation whose turn it is.
LEMMA ObservationTurn ==
  ASSUME Tidy, pc = "append instant", tx = "ok", req # NoRequest
  PROVE  LET n == Len(req.items) - Len(todo) + 1
         IN  /\ req.op = "post_bulk" /\ req \in Requests /\ req.items \in Seq(Items)
             /\ req.cid \in CollectionIds
             /\ todo \in Seq(Items) /\ todo # <<>> /\ Tail(todo) \in Seq(Items)
             /\ Head(todo).id \in FeatureIds
             /\ n \in 1..Len(req.items) /\ Head(todo) = req.items[n]
             /\ Len(req.items) - Len(Tail(todo)) = n
<1>1. TypeInv /\ pc # "idle" /\ pc \in BatchLabels /\ BulkInv
  BY Zenon DEF Tidy, Progress, Known, BatchLabels
<1>2. /\ req.op = "post_bulk" /\ req.cid \in CollectionIds
      /\ todo \in Seq(Items) /\ todo # <<>> /\ Tail(todo) \in Seq(Items)
      /\ Head(todo).id \in FeatureIds
  BY Zenon, <1>1, HeadObservation
<1>3. req \in Requests /\ req \in Request
  BY Zenon, <1>1, RequestType DEF TypeInv
<1>4. req.items \in Seq(Items)
  BY Zenon, <1>3, ItemsTyped
<1>5. Suffix(todo, req.items)
  BY Zenon, <1>1, <1>2 DEF BulkInv
<1>6. LET n == Len(req.items) - Len(todo) + 1
      IN  /\ n \in 1..Len(req.items) /\ Head(todo) = req.items[n]
          /\ Len(req.items) - Len(Tail(todo)) = n
  BY Zenon, <1>2, <1>4, <1>5, SuffixHead
<1>7. QED
  BY Zenon, <1>2, <1>3, <1>4, <1>6


\* The one member of an observation.
LEMMA OneMember ==
  ASSUME NEW x, NEW seq, seq = <<x>>
  PROVE  seq[1] = x
  OBVIOUS

\* An instant that append_observations appended.
LEMMA InstantExecuted ==
  ASSUME append_observations_instant, pc' # "except", NEW t, Head(todo).traj = <<{t}>>
  PROVE  /\ \/ Continuing(work, work', Head(todo).id, t)
            \/ Beginning(work, work', serial + 1, Head(todo).id, req.cid, t)
         /\ pc' = NextItem(Tail(todo), "observe") /\ todo' = Tail(todo) /\ code' = code
<1> DEFINE instant == Head(todo).traj[1]  rows == GeometriesOf(work, Head(todo).id)
<1>1. instant = {t}
  BY Zenon, OneMember
<1>2. \/ /\ rows # {} /\ \A g \in rows : MayAppend(work.geometries[g].traj, instant)
         /\ work' = UpdateTrajectories(work,
                      [g \in rows |-> AppendInstant(work.geometries[g].traj, instant)])
         /\ pc' = NextItem(Tail(todo), "observe") /\ todo' = Tail(todo) /\ code' = code
      \/ /\ rows = {}
         /\ work' = InsertGeometryRow(work, serial + 1, Head(todo).id, req.cid, Head(todo).traj, FALSE)
         /\ pc' = NextItem(Tail(todo), "observe") /\ todo' = Tail(todo) /\ code' = code
  BY Zenon DEF append_observations_instant, StatementFails, Execute, Draw
<1> HIDE DEF instant
<1>3. CASE rows = {}
  <2>1. Beginning(work, work', serial + 1, Head(todo).id, req.cid, t)
    BY Zenon, <1>2, <1>3 DEF Beginning
  <2>2. QED
    BY Zenon, <1>2, <2>1
<1>4. CASE rows # {}
  <2>1. Continuing(work, work', Head(todo).id, t)
    BY Zenon, <1>1, <1>2, <1>4 DEF Continuing
  <2>2. QED
    BY Zenon, <1>2, <1>4, <2>1
<1>5. QED
  BY Zenon, <1>3, <1>4

\* The observation that comes after k others.
LEMMA ObservationNext ==
  ASSUME NEW items \in Seq(Items), NEW seq \in Seq(Items), NEW n \in 1..Len(items),
         n = Len(items) - Len(seq) + 1
  PROVE  \E k \in Nat : k = Len(items) - Len(seq) /\ n = k + 1 /\ 1..k \subseteq DOMAIN items
  BY DEF Items

\* The instant of an observation.
LEMMA BatchGathers ==
  ASSUME Tidy, OweInv, Works, append_observations_instant
  PROVE  OweInv'
<1>1. /\ TypeInv /\ TablesInv /\ RoomInv /\ Kept /\ disk' = disk /\ tx = "ok"
      /\ pc = "append instant" /\ pc \in BatchLabels /\ pc' # "except" /\ pc # "idle"
  BY Zenon DEF Tidy, Progress, Known, Works, append_observations_instant, Outcomes, BatchLabels
<1>2. req # NoRequest /\ IsDatabase(work) /\ IsDatabase(disk) /\ serial \in Nat
      /\ KeysDrawn(work, serial)
  BY Zenon, <1>1, RequestType DEF TypeInv, TypeOK, TablesInv
<1>3. Prepared /\ code < 300
  BY Zenon, <1>1, <1>2 DEF OweInv
<1> DEFINE n == Len(req.items) - Len(todo) + 1  id == Head(todo).id  obs == Observes(req)
<1>4. /\ req.op = "post_bulk" /\ req \in Requests /\ req.items \in Seq(Items)
      /\ req.cid \in CollectionIds /\ todo \in Seq(Items) /\ todo # <<>> /\ Tail(todo) \in Seq(Items)
      /\ id \in FeatureIds /\ n \in 1..Len(req.items) /\ Head(todo) = req.items[n]
      /\ Len(req.items) - Len(Tail(todo)) = n
  BY Zenon, <1>1, <1>2, ObservationTurn
<1>5. PICK k \in Nat : k = Len(req.items) - Len(todo) /\ n = k + 1 /\ 1..k \subseteq DOMAIN req.items
  BY Zenon, <1>4, ObservationNext
<1>6. n \in DOMAIN req.items
  BY Zenon, <1>4, DomainOfItems
<1> DEFINE t == obs[n].time
<1>7. obs[n].fid = id /\ Head(todo).traj = <<{t}>> /\ t \in Instants
  BY Zenon, <1>4, <1>6, ObservesIs
<1>8. \A m \in 1..k : obs[m].time \in Instants
  BY Zenon, <1>4, <1>5, ObservesIs
<1> HIDE DEF n, id, obs, t
<1>9. /\ \/ Continuing(work, work', id, t)
         \/ Beginning(work, work', serial + 1, id, req.cid, t)
      /\ pc' = NextItem(Tail(todo), "observe") /\ todo' = Tail(todo) /\ code' = code
  BY Zenon, <1>1, <1>7, InstantExecuted DEF id
<1>10. serial + 1 \in 0..MaxSerial
  <2>1. serial + Len(todo) <= MaxSerial
    BY Zenon, <1>1 DEF RoomInv
  <2>2. QED
    BY Zenon, <1>2, <1>4, <2>1, KeyWithin
<1>11. PICK mid : /\ Contract!LoadBatch(DocumentsOf(disk), mid, Batch(req.cid, obs, k))
                  /\ Ready(work, mid, id, req.cid)
  BY Zenon, <1>3, <1>5 DEF Prepared, Gathered, Ready, id, obs
<1>12. Appended(mid, work', id, req.cid, t)
  <2>1. /\ IsDatabase(work) /\ serial \in Nat /\ KeysDrawn(work, serial)
        /\ serial + 1 \in 0..MaxSerial /\ id \in FeatureIds /\ req.cid \in CollectionIds
        /\ t \in Instants /\ Ready(work, mid, id, req.cid)
    BY Zenon, <1>2, <1>4, <1>7, <1>10, <1>11
  <2>2. \/ Continuing(work, work', id, t)
        \/ Beginning(work, work', serial + 1, id, req.cid, t)
    BY Zenon, <1>9
  <2>3. QED
    BY Zenon, <2>1, <2>2, InstantTaken
<1>13. PathsTyped(DocumentsOf(disk))
  BY Zenon, <1>2, DocumentsTyped
<1>14. id = obs[k + 1].fid /\ t = obs[k + 1].time
  BY Zenon, <1>5, <1>7 DEF t
<1>15. Contract!LoadBatch(DocumentsOf(disk), DocumentsOf(work'), Batch(req.cid, obs, k + 1))
  BY Zenon, <1>8, <1>11, <1>12, <1>13, <1>14, BatchGrows DEF Appended
<1>16. Contract!LoadBatch(DocumentsOf(disk), DocumentsOf(work'),
                          Batch(req.cid, Observes(req), Len(req.items) - Len(todo')))
  BY Zenon, <1>4, <1>5, <1>9, <1>15 DEF obs
<1>17. QED
  BY Zenon, <1>1, <1>3, <1>4, <1>9, <1>16, GatheredNext

\* The statements of post_bulk.
LEMMA BatchOwes ==
  ASSUME Tidy, OweInv, Works, req.op = "post_bulk"
  PROVE  OweInv'
<1>1. TypeInv /\ Statements
  BY Zenon DEF Tidy, Progress, Known, Works
<1>2. post_bulk \/ append_observations_row \/ append_observations_instant
  BY Zenon, <1>1, OwnStatements
<1>3. QED
  BY Zenon, <1>2, BatchStarts, BatchPrepares, BatchGathers


\* Each statement of a handler leaves what the handler owes in the open transaction.
LEMMA OweWorks == Tidy /\ OweInv /\ Works => OweInv'
<1> SUFFICES ASSUME Tidy, OweInv, Works PROVE OweInv'
  OBVIOUS
<1>1. TypeInv /\ Statements
  BY Zenon DEF Tidy, Progress, Known, Works
<1>2. req.op \in Writes
  BY Zenon, <1>1, OwnStatements
<1>3. CASE req.op = "post_collection_items"
  <2>1. \/ post_collection_items \/ insert_feature_tables
        \/ insert_feature_row \/ insert_feature_geometry
    BY Zenon, <1>1, <1>3, OwnStatements
  <2>2. QED
    BY Zenon, <2>1, FirstOwes, TablesOwe, RowOwes, GeometryOwes
<1>4. CASE req.op = "put_single_moving_feature"
  <2>1. \/ put_single_moving_feature \/ insert_feature_tables
        \/ insert_feature_row \/ insert_feature_geometry
    BY Zenon, <1>1, <1>4, OwnStatements
  <2>2. QED
    BY Zenon, <2>1, FirstOwes, TablesOwe, RowOwes, GeometryOwes
<1>5. CASE req.op \in {"post_collections", "put_collection", "delete_collection"}
  BY Zenon, <1>5, CollectionsOwe
<1>6. CASE req.op \in {"delete_single_moving_feature", "post_tgsequence",
                       "delete_single_temporal_primitive_geo"}
  BY Zenon, <1>6, FeatureOwes
<1>7. CASE req.op = "post_tproperties"
  BY Zenon, <1>7, PropertyOwes
<1>8. CASE req.op \in {"post_temporal_property", "delete_temporal_property"}
  BY Zenon, <1>8, ValuesOwe
<1>9. CASE req.op = "post_bulk"
  BY Zenon, <1>9, BatchOwes
<1>10. QED
  BY Zenon, <1>2, <1>3, <1>4, <1>5, <1>6, <1>7, <1>8, <1>9 DEF Writes

\* A handler that is about to answer, has raised or has not begun owes nothing.
LEMMA OweOutcome ==
  ASSUME pc' \in Outcomes
  PROVE  OweInv'
BY Zenon DEF OweInv, Outcomes, FeatureLabels, BatchLabels

\* What a handler owes does not change while it waits.
LEMMA OweWaits ==
  ASSUME OweInv, Kept, UNCHANGED <<disk, work, tx, pc, code, todo>>
  PROVE  OweInv'
<1>1. /\ disk' = disk /\ work' = work /\ tx' = tx /\ pc' = pc /\ code' = code /\ todo' = todo
      /\ req' = req
  BY DEF Kept
<1>2. Committed' = Committed
  BY Zenon, <1>1 DEF Committed
<1>3. (Same => Same') /\ (\A o : Owes(o) => Owes(o)')
  BY Zenon, <1>1 DEF Same, Owes
<1>4. DueNow => DueNow'
  BY Zenon, <1>1, <1>2, <1>3 DEF DueNow
<1>5. Concluded => Concluded'
  BY Zenon, <1>1, <1>2, <1>3, <1>4 DEF Concluded
<1>6. Awaited => Awaited'
  BY Zenon, <1>1, <1>3, <1>4 DEF Awaited
<1>7. HalfThere => HalfThere'
  BY Zenon, <1>1 DEF HalfThere
<1>8. \A d : Gathered(d) => Gathered(d)'
  BY Zenon, <1>1 DEF Gathered
<1>9. Gathered(DocumentsOf(work)) => Gathered(DocumentsOf(work))'
  BY Zenon, <1>1 DEF Gathered
<1>10. Prepared => Prepared'
  BY Zenon, <1>1, <1>8 DEF Prepared
<1>11. CASE req # NoRequest /\ tx = "ok"
  <2>1. /\ pc = "finish" => Concluded
        /\ pc = "tables" => Same
        /\ pc = "property" => DueNow /\ Len(PlanOf(req)) = 2
        /\ pc \in {"property", "insert values"} => HasFeature(work, req.cid, req.fid)
        /\ pc \in {"feature", "features"} => Awaited
        /\ pc = "insert geometry" => HalfThere
        /\ pc = "observe" => Gathered(DocumentsOf(work))
        /\ pc = "append instant" => Prepared
        /\ pc \in FeatureLabels \cup BatchLabels => code < 300
        /\ pc \in FeatureLabels /\ req.op = "put_single_moving_feature" => req.items # <<>>
    BY Zenon, <1>11 DEF OweInv
  <2>2. /\ pc' = "finish" => Concluded'
        /\ pc' = "tables" => Same'
        /\ pc' = "property" => DueNow' /\ Len(PlanOf(req')) = 2
        /\ pc' \in {"feature", "features"} => Awaited'
        /\ pc' = "insert geometry" => HalfThere'
        /\ pc' = "observe" => Gathered(DocumentsOf(work))'
        /\ pc' = "append instant" => Prepared'
    <3>1. pc' = "finish" => Concluded'
      BY Zenon, <1>1, <1>5, <2>1
    <3>2. pc' = "tables" => Same'
      BY Zenon, <1>1, <1>3, <2>1
    <3>3. pc' = "property" => DueNow' /\ Len(PlanOf(req')) = 2
      BY Zenon, <1>1, <1>4, <2>1
    <3>4. pc' \in {"feature", "features"} => Awaited'
      BY Zenon, <1>1, <1>6, <2>1
    <3>5. pc' = "insert geometry" => HalfThere'
      BY Zenon, <1>1, <1>7, <2>1
    <3>6. pc' = "observe" => Gathered(DocumentsOf(work))'
      BY Zenon, <1>1, <1>9, <2>1
    <3>7. pc' = "append instant" => Prepared'
      BY Zenon, <1>1, <1>10, <2>1
    <3>8. QED
      BY Zenon, <3>1, <3>2, <3>3, <3>4, <3>5, <3>6, <3>7
  <2>3. /\ pc' \in {"property", "insert values"} => HasFeature(work', req'.cid, req'.fid)
        /\ pc' \in FeatureLabels \cup BatchLabels => code' < 300
        /\ pc' \in FeatureLabels /\ req'.op = "put_single_moving_feature" => req'.items # <<>>
    BY Zenon, <1>1, <2>1
  <2>4. QED
    BY Zenon, <2>2, <2>3 DEF OweInv
<1>12. CASE req = NoRequest \/ tx # "ok"
  BY Zenon, <1>1, <1>12 DEF OweInv
<1>13. QED
  BY Zenon, <1>11, <1>12

\* A commit in the middle of a request.
LEMMA OweCommits ==
  ASSUME OweInv, TypeInv, pc # "idle", Commit
  PROVE  OweInv'
<1>1. /\ pc \in DOMAIN AfterCommit /\ tx = "ok" /\ pc' = AfterCommit[pc]
      /\ work' = work /\ req' = req /\ code' = code /\ todo' = todo
  BY DEF Commit, request, loop
<1>2. req # NoRequest
  BY Zenon DEF TypeInv, TypeOK
<1>3. CASE pc = "tables"
  <2>1. pc' = "insert collection"
    BY Zenon, <1>1, <1>3, CommitsTo
  <2>2. QED
    BY Zenon, <2>1 DEF OweInv, FeatureLabels, BatchLabels
<1>4. CASE pc = "features"
  <2>1. pc' = "insert feature" /\ pc \in FeatureLabels
    BY Zenon, <1>1, <1>4, CommitsTo DEF FeatureLabels
  <2>2. code < 300 /\ (req.op = "put_single_moving_feature" => req.items # <<>>)
    BY Zenon, <1>1, <1>2, <2>1 DEF OweInv
  <2>3. QED
    BY Zenon, <1>1, <2>1, <2>2 DEF OweInv, BatchLabels
<1>5. CASE pc = "property"
  <2>1. pc' = "insert values"
    BY Zenon, <1>1, <1>5, CommitsTo
  <2>2. HasFeature(work, req.cid, req.fid)
    BY Zenon, <1>1, <1>2, <1>5 DEF OweInv
  <2>3. QED
    BY Zenon, <1>1, <2>1, <2>2 DEF OweInv, FeatureLabels, BatchLabels
<1>6. CASE pc = "finish"
  <2>1. pc' \in Outcomes
    BY Zenon, <1>1, <1>6, CommitsTo DEF Outcomes
  <2>2. QED
    BY Zenon, <2>1, OweOutcome
<1>7. QED
  BY Zenon, <1>1, <1>3, <1>4, <1>5, <1>6, CommitsTo

\* Every step keeps what handlers owe.
LEMMA OweStep == Tidy /\ OweInv /\ [Next]_vars => OweInv'
<1> SUFFICES ASSUME Tidy, OweInv, [Next]_vars PROVE OweInv'
  OBVIOUS
<1>1. TypeInv
  BY Zenon DEF Tidy, Progress, Known
<1>2. Course
  BY Zenon, <1>1, EveryStep
<1>3. CASE Leave
  BY Zenon, <1>3 DEF Leave, OweInv
<1>4. CASE Arrives \/ Refuses \/ Shows
  <2>1. pc' \in Outcomes
    BY Zenon, <1>4 DEF Arrives, Refuses, Shows, Outcomes
  <2>2. QED
    BY Zenon, <2>1, OweOutcome
<1>5. CASE Waits
  <2>1. CASE tx' = "closed"
    BY Zenon, <2>1 DEF OweInv
  <2>2. CASE UNCHANGED <<disk, work, tx>>
    <3>1. Kept /\ UNCHANGED <<disk, work, tx, pc, code, todo>>
      BY <1>5, <2>2 DEF Waits
    <3>2. QED
      BY Zenon, <3>1, OweWaits
  <2>3. QED
    BY Zenon, <1>5, <2>1, <2>2 DEF Waits
<1>6. CASE Works
  BY Zenon, <1>6, OweWorks
<1>7. CASE pc # "idle" /\ Commit
  BY Zenon, <1>1, <1>7, OweCommits
<1>8. QED
  BY Zenon, <1>2, <1>3, <1>4, <1>5, <1>6, <1>7 DEF Course

\* No SERIAL value is drawn at the start.
LEMMA EmptyRoom == MaxSerial \in Nat => 0 <= MaxSerial
  OBVIOUS

\* Batches of one collection do not name the features of others: then the columns
\* of a geometry agree, and every handler owes what its position says.
THEOREM HandlersOweWhatTheyExecuted ==
  ASSUME BatchesStayHome PROVE Spec => [](Tidy /\ OweInv)
<1>1. Init => RoomInv /\ OweInv
  <2>1. Init => pc \in Outcomes /\ pc \notin {"start", "check"} /\ req = NoRequest /\ serial = 0
    BY Zenon DEF Init, Outcomes
  <2>2. Init => RoomInv
    BY Zenon, BoundAssumption, <2>1, EmptyRoom DEF RoomInv, Outcomes, FeatureLabels, BatchLabels, Init
  <2>3. QED
    BY Zenon, <2>1, <2>2 DEF OweInv
<1>2. TypeInv /\ RoomInv /\ [Next]_vars => RoomInv'
  BY RoomStep
<1>3. Progress => TypeInv
  BY DEF Progress, Known
<1>4. Tagged(disk) /\ Tagged(work) => ColumnsAgree(disk) /\ ColumnsAgree(work)
  BY DEF Tagged
<1>5. Progress /\ RoomInv /\ (ColumnsAgree(disk) /\ ColumnsAgree(work)) <=> Tidy
  BY DEF Tidy
<1>6. Spec => [](Tagged(disk) /\ Tagged(work))
  BY TaggedAlways
<1>7. Spec => [](Tagged(disk) /\ Tagged(work) => ColumnsAgree(disk) /\ ColumnsAgree(work))
  BY <1>4, PTL
<1>8. QED
  BY <1>1, <1>2, <1>3, <1>4, <1>5, <1>6, OweStep, ProgressAlways, PTL DEF Spec


-----------------------------------------------------------------------------
(* The steps of the server are steps of the contract.                      *)

\* Short sequences.
LEMMA ShortSequences ==
  ASSUME NEW x, NEW y
  PROVE  <<>> \in Seq({x}) /\ <<x>> \in Seq({x}) /\ <<x, y>> \in Seq({x, y})
  OBVIOUS

\* One operation for each item.
LEMMA ItemOperations ==
  ASSUME NEW r, r.items \in Seq(Items)
  PROVE  LET s == [n \in DOMAIN r.items |-> AddsFeature(r, r.items[n].id, r.items[n])]
         IN  s \in Seq({s[n] : n \in DOMAIN r.items})
<1> DEFINE A(n) == AddsFeature(r, r.items[n].id, r.items[n])
<1>1. DOMAIN r.items = 1..Len(r.items) /\ Len(r.items) \in Nat
  BY DomainOfItems
<1> HIDE DEF A
<1> DEFINE s == [n \in 1..Len(r.items) |-> A(n)]  S == {s[n] : n \in 1..Len(r.items)}
<1>2. s \in [1..Len(r.items) -> S]
  OBVIOUS
<1>3. s \in Seq(S)
  BY <1>1, <1>2
<1>4. QED
  BY Zenon, <1>1, <1>3 DEF A

\* A plan of at most two operations is a sequence.
LEMMA ShortPlan ==
  ASSUME NEW plan, plan = <<>> \/ (\E x : plan = <<x>>) \/ (\E x, y : plan = <<x, y>>)
  PROVE  \E S : plan \in Seq(S)
<1>1. CASE plan = <<>>
  BY <1>1, ShortSequences
<1>2. ASSUME NEW x, plan = <<x>> PROVE \E S : plan \in Seq(S)
  BY <1>2, ShortSequences
<1>3. ASSUME NEW x, NEW y, plan = <<x, y>> PROVE \E S : plan \in Seq(S)
  BY <1>3, ShortSequences
<1>4. QED
  BY <1>1, <1>2, <1>3

\* Every handler but that of POST .../items asks for at most two operations.
LEMMA PlanShort ==
  ASSUME NEW r, r.op # "post_collection_items"
  PROVE  PlanOf(r) = <<>> \/ (\E x : PlanOf(r) = <<x>>) \/ (\E x, y : PlanOf(r) = <<x, y>>)
<1>1. CASE r.op = "put_single_moving_feature"
  <2>1. PlanOf(r) = <<>> \/ PlanOf(r) = <<Removes(r), AddsFeature(r, r.fid, r.items[1])>>
    BY Zenon, <1>1 DEF PlanOf
  <2>2. QED
    BY Zenon, <2>1
<1>2. CASE r.op = "post_tgsequence"
  <2>1. PlanOf(r) = <<>>
        \/ PlanOf(r) = <<[do |-> "add trajectory", cid |-> r.cid, fid |-> r.fid,
                          path |-> r.items[1].traj]>>
    BY Zenon, <1>2 DEF PlanOf
  <2>2. QED
    BY Zenon, <2>1
<1>3. CASE r.op = "post_tproperties"
  <2>1. PlanOf(r) = <<OnProperty(r, "add property"), AddsValues(r)>>
        \/ PlanOf(r) = <<OnProperty(r, "add property")>>
    BY Zenon, <1>3, PlanIs
  <2>2. QED
    BY Zenon, <2>1
<1>4. CASE r.op = "post_collections"
  <2>1. PlanOf(r) = <<[do |-> "create collection", cid |-> r.cid, title |-> r.title]>>
    BY Zenon, <1>4, PlanIs
  <2>2. QED
    BY Zenon, <2>1
<1>5. CASE r.op = "put_collection"
  <2>1. PlanOf(r) = <<[do |-> "replace collection", cid |-> r.cid, title |-> r.title]>>
    BY Zenon, <1>5, PlanIs
  <2>2. QED
    BY Zenon, <2>1
<1>6. CASE r.op = "delete_collection"
  <2>1. PlanOf(r) = <<[do |-> "remove collection", cid |-> r.cid]>>
    BY Zenon, <1>6, PlanIs
  <2>2. QED
    BY Zenon, <2>1
<1>7. CASE r.op = "delete_single_moving_feature"
  <2>1. PlanOf(r) = <<Removes(r)>>
    BY Zenon, <1>7, PlanIs
  <2>2. QED
    BY Zenon, <2>1
<1>8. CASE r.op = "post_bulk"
  <2>1. PlanOf(r) = <<[do |-> "load batch", cid |-> r.cid, observations |-> Observes(r)]>>
    BY Zenon, <1>8, PlanIs
  <2>2. QED
    BY Zenon, <2>1
<1>9. CASE r.op = "delete_single_temporal_primitive_geo"
  <2>1. PlanOf(r) = <<[do |-> "remove member", cid |-> r.cid, fid |-> r.fid, n |-> r.n]>>
    BY Zenon, <1>9, PlanIs
  <2>2. QED
    BY Zenon, <2>1
<1>10. CASE r.op = "post_temporal_property"
  <2>1. PlanOf(r) = <<AddsValues(r)>>
    BY Zenon, <1>10, PlanIs
  <2>2. QED
    BY Zenon, <2>1
<1>11. CASE r.op = "delete_temporal_property"
  <2>1. PlanOf(r) = <<OnProperty(r, "remove property")>>
    BY Zenon, <1>11, PlanIs
  <2>2. QED
    BY Zenon, <2>1
<1>12. CASE r.op \notin Writes
  <2>1. PlanOf(r) = <<>>
    BY Zenon, <1>12, PlanIs
  <2>2. QED
    BY Zenon, <2>1
<1>13. QED
  BY Zenon, <1>1, <1>2, <1>3, <1>4, <1>5, <1>6, <1>7, <1>8, <1>9, <1>10, <1>11, <1>12 DEF Writes

\* What a request asks for is a sequence.
LEMMA PlanTyped ==
  ASSUME NEW r \in Request
  PROVE  \E S : PlanOf(r) \in Seq(S)
<1>1. CASE r.op = "post_collection_items"
  <2>1. r.items \in Seq(Items)
    BY Zenon, ItemsTyped
  <2> DEFINE s == [n \in DOMAIN r.items |-> AddsFeature(r, r.items[n].id, r.items[n])]
             S == {s[n] : n \in DOMAIN r.items}
  <2>2. s \in Seq(S)
    BY Zenon, <2>1, ItemOperations
  <2>3. PlanOf(r) = s
    BY Zenon, <1>1, PlanIs
  <2> HIDE DEF s, S
  <2>4. QED
    BY Zenon, <2>2, <2>3
<1>2. CASE r.op # "post_collection_items"
  BY Zenon, <1>2, PlanShort, ShortPlan
<1>3. QED
  BY Zenon, <1>1, <1>2

\* What is left of a plan, from its n-th operation on.
Rest(s, n) == SubSeq(s, n, Len(s))

\* Its first operation, and what is left after it.
LEMMA PlanLeft ==
  ASSUME NEW S, NEW s \in Seq(S)
  PROVE  /\ Rest(s, 0 + 1) = s
         /\ \A n \in DOMAIN s :
              /\ Rest(s, n) # <<>> /\ Head(Rest(s, n)) = s[n] /\ Tail(Rest(s, n)) = Rest(s, n + 1)
              /\ n = Len(s) => Len(Rest(s, n)) = 1
<1>1. Rest(s, 0 + 1) = s
  <2>1. SubSeq(s, 1, Len(s)) = s
    BY SubSeqFull
  <2>2. QED
    BY <2>1, OneTwo DEF Rest
<1>2. ASSUME NEW n \in DOMAIN s
      PROVE  /\ Rest(s, n) # <<>> /\ Head(Rest(s, n)) = s[n] /\ Tail(Rest(s, n)) = Rest(s, n + 1)
             /\ n = Len(s) => Len(Rest(s, n)) = 1
  <2> DEFINE left == SubSeq(s, n, Len(s))
  <2>1. n \in 1..Len(s) /\ Len(s) \in n..Len(s) /\ Len(s) \in Nat
    OBVIOUS
  <2>2. Head(left) = s[n] /\ Tail(left) = SubSeq(s, n + 1, Len(s))
    BY <2>1, HeadTailOfSubSeq
  <2>3. \A i \in n..Len(s) : s[i] \in S
    BY <2>1
  <2>4. left \in Seq(S) /\ Len(left) = IF n <= Len(s) THEN Len(s) - n + 1 ELSE 0
    BY <2>1, <2>3, SubSeqProperties
  <2>5. Rest(s, n) = left /\ Rest(s, n + 1) = SubSeq(s, n + 1, Len(s))
    BY Zenon DEF Rest
  <2> HIDE DEF left
  <2>6. Len(left) # 0 /\ (n = Len(s) => Len(left) = 1)
    BY <2>1, <2>4
  <2>7. left # <<>>
    BY <2>6
  <2>8. QED
    BY Zenon, <2>2, <2>5, <2>6, <2>7
<1>3. QED
  BY Zenon, <1>1, <1>2

\* The contract serves a request while its handler runs on a usable session.
Over == {"idle", "except", "respond", "respond in except"}
Serves == pc \notin Over /\ tx = "ok"
Accepts == pc = "respond" /\ code < 300
Denies == pc # "idle" /\ ~Accepts /\ (pc \in Over \/ tx # "ok")

\* What the client can expect, by the step of the handler.
LEMMA StatusIs ==
  /\ StatusOf = "idle" <=> pc = "idle"
  /\ Accepts => StatusOf = "accepted"
  /\ Denies => StatusOf = "refused"
  /\ Serves => StatusOf = "serving" /\ Outstanding = Rest(PlanOf(req), Committed + 1)
  /\ ~Serves => StatusOf # "serving" /\ Outstanding = <<>>
  /\ pc = "idle" \/ Accepts \/ Denies \/ Serves
<1>1. (StatusOf = "idle" <=> pc = "idle") /\ (Accepts => StatusOf = "accepted")
  BY Zenon DEF StatusOf, Accepts
<1>2. Denies => StatusOf = "refused"
  BY Zenon DEF StatusOf, Denies, Accepts, Over
<1>3. Serves => StatusOf = "serving"
  BY Zenon DEF StatusOf, Serves, Over
<1>4. ~Serves => StatusOf # "serving"
  BY Zenon DEF StatusOf, Serves, Over
<1>5. pc = "idle" \/ Accepts \/ Denies \/ Serves
  BY Zenon DEF Serves, Denies
<1>6. QED
  BY Zenon, <1>1, <1>2, <1>3, <1>4, <1>5 DEF Outstanding, Rest

\* The same after a step.
LEMMA StatusNext ==
  /\ StatusOf' = "idle" <=> pc' = "idle"
  /\ Accepts' => StatusOf' = "accepted"
  /\ Denies' => StatusOf' = "refused"
  /\ Serves' => StatusOf' = "serving" /\ Outstanding' = Rest(PlanOf(req'), Committed' + 1)
  /\ ~Serves' => StatusOf' # "serving" /\ Outstanding' = <<>>
  /\ pc' = "idle" \/ Accepts' \/ Denies' \/ Serves'
<1>1. (StatusOf' = "idle" <=> pc' = "idle") /\ (Accepts' => StatusOf' = "accepted")
  BY Zenon DEF StatusOf, Accepts
<1>2. Denies' => StatusOf' = "refused"
  BY Zenon DEF StatusOf, Denies, Accepts, Over
<1>3. Serves' => StatusOf' = "serving"
  BY Zenon DEF StatusOf, Serves, Over
<1>4. ~Serves' => StatusOf' # "serving"
  BY Zenon DEF StatusOf, Serves, Over
<1>5. pc' = "idle" \/ Accepts' \/ Denies' \/ Serves'
  BY Zenon DEF Serves, Denies
<1>6. QED
  BY Zenon, <1>1, <1>2, <1>3, <1>4, <1>5 DEF Outstanding, Rest

\* A step of the contract, or one it does not see.
Simulated == [Contract!Next]_Contract!vars

\* What the contract does not see while no request is served.
LEMMA StutterStep ==
  ASSUME disk' = disk,
         \/ pc = "idle" /\ pc' = "idle"
         \/ Accepts /\ Accepts'
         \/ Denies /\ Denies'
  PROVE  Simulated
<1>1. StatusOf' = StatusOf
  BY Zenon, StatusIs, StatusNext
<1>2. ~Serves /\ ~Serves'
  BY Zenon DEF Serves, Denies, Accepts, Over
<1>3. Outstanding' = Outstanding
  BY Zenon, <1>2, StatusIs, StatusNext
<1>4. UNCHANGED Contract!vars
  BY Zenon, <1>1, <1>3 DEF Contract!vars
<1>5. QED
  BY Zenon, <1>4 DEF Simulated

\* What the contract does not see while it serves a request.
LEMMA ServingStep ==
  ASSUME DocumentsOf(disk') = DocumentsOf(disk), req' = req, Serves, Serves', Committed' = Committed
  PROVE  Simulated
<1>1. StatusOf' = StatusOf
  BY Zenon, StatusIs, StatusNext
<1>2. Outstanding' = Outstanding
  BY Zenon, StatusIs, StatusNext
<1>3. UNCHANGED Contract!vars
  BY Zenon, <1>1, <1>2 DEF Contract!vars
<1>4. QED
  BY Zenon, <1>3 DEF Simulated

\* The request ends.
LEMMA EndingStep ==
  ASSUME disk' = disk, pc' = "idle"
  PROVE  Simulated
<1>1. CASE pc = "idle"
  BY Zenon, <1>1, StutterStep
<1>2. CASE pc # "idle"
  <2>1. ~Serves' /\ StatusOf # "idle" /\ StatusOf' = "idle"
    BY Zenon, <1>2, StatusIs, StatusNext DEF Serves, Over
  <2>2. Outstanding' = <<>>
    BY Zenon, <2>1, StatusNext
  <2>3. Contract!End
    BY Zenon, <2>1, <2>2 DEF Contract!End
  <2>4. QED
    BY Zenon, <2>3 DEF Simulated, Contract!Next
<1>3. QED
  BY Zenon, <1>1, <1>2

\* The request is refused.
LEMMA RefusingStep ==
  ASSUME DocumentsOf(disk') = DocumentsOf(disk), Serves, Denies'
  PROVE  Simulated
<1>1. ~Serves'
  BY Zenon DEF Serves, Denies, Accepts, Over
<1>2. StatusOf = "serving" /\ StatusOf' = "refused" /\ Outstanding' = <<>>
  BY Zenon, <1>1, StatusIs, StatusNext
<1>3. Contract!Refuse
  BY Zenon, <1>2 DEF Contract!Refuse
<1>4. QED
  BY Zenon, <1>3 DEF Simulated, Contract!Next

\* Nothing is left of nothing.
LEMMA NothingLeft ==
  ASSUME NEW k \in Nat
  PROVE  Rest(<<>>, k + 1) = <<>>
<1>1. Rest(<<>>, k + 1) = SubSeq(<<>>, k + 1, 0)
  BY DEF Rest
<1>2. SubSeq(<<>>, k + 1, 0) = <<>>
  BY k + 1 > 0, SubSeqEmpty
<1>3. QED
  BY <1>1, <1>2

\* A request that asks for nothing is accepted.
LEMMA AcceptingStep ==
  ASSUME DocumentsOf(disk') = DocumentsOf(disk), Serves, Accepts',
         PlanOf(req) = <<>>, Committed \in Nat
  PROVE  Simulated
<1>1. ~Serves'
  BY Zenon DEF Serves, Accepts, Over
<1>2. StatusOf = "serving" /\ StatusOf' = "accepted" /\ Outstanding' = <<>>
  BY Zenon, <1>1, StatusIs, StatusNext
<1>4. Rest(<<>>, Committed + 1) = <<>>
  BY Zenon, NothingLeft
<1>5. Outstanding = <<>>
  BY Zenon, <1>4, StatusIs
<1>6. Contract!Accept
  BY Zenon, <1>2, <1>5 DEF Contract!Accept
<1>7. QED
  BY Zenon, <1>6 DEF Simulated, Contract!Next

\* The operation that is due is committed.
LEMMA PerformingStep ==
  ASSUME req \in Request, Serves, disk' = work, DueNow,
         \/ Serves' /\ req' = req /\ Committed' = Committed + 1
         \/ Denies'
         \/ Accepts' /\ Committed + 1 = Len(PlanOf(req))
  PROVE  Simulated
<1> DEFINE n == Committed + 1
<1>1. PICK S : PlanOf(req) \in Seq(S)
  BY Zenon, PlanTyped
<1>2. n \in DOMAIN PlanOf(req) /\ Owes(PlanOf(req)[n])
  BY Zenon DEF DueNow
<1>3. /\ Rest(PlanOf(req), n) # <<>> /\ Head(Rest(PlanOf(req), n)) = PlanOf(req)[n]
      /\ Tail(Rest(PlanOf(req), n)) = Rest(PlanOf(req), n + 1)
      /\ n = Len(PlanOf(req)) => Len(Rest(PlanOf(req), n)) = 1
  BY Zenon, <1>1, <1>2, PlanLeft
<1>4. StatusOf = "serving" /\ Outstanding = Rest(PlanOf(req), n)
  BY Zenon, StatusIs
<1>5. Contract!Operation(DocumentsOf(disk), DocumentsOf(disk'), Head(Outstanding))
  BY Zenon, <1>2, <1>3, <1>4 DEF Owes
<1>6. \/ StatusOf' = "serving" /\ Outstanding' = Tail(Outstanding)
      \/ StatusOf' = "accepted" /\ Len(Outstanding) = 1 /\ Outstanding' = <<>>
      \/ StatusOf' = "refused" /\ Outstanding' = <<>>
  <2>1. CASE Serves' /\ req' = req /\ Committed' = Committed + 1
    BY Zenon, <2>1, <1>3, <1>4, StatusNext
  <2>2. CASE Denies'
    <3>1. ~Serves'
      BY Zenon, <2>2 DEF Serves, Denies, Accepts, Over
    <3>2. QED
      BY Zenon, <2>2, <3>1, StatusNext
  <2>3. CASE Accepts' /\ Committed + 1 = Len(PlanOf(req))
    <3>1. ~Serves'
      BY Zenon, <2>3 DEF Serves, Accepts, Over
    <3>2. Len(Outstanding) = 1
      BY Zenon, <2>3, <1>3, <1>4
    <3>3. QED
      BY Zenon, <2>3, <3>1, <3>2, StatusNext
  <2>4. QED
    BY Zenon, <2>1, <2>2, <2>3
<1>7. Outstanding # <<>>
  BY Zenon, <1>3, <1>4
<1>8. Contract!Perform
  BY Zenon, <1>4, <1>5, <1>6, <1>7 DEF Contract!Perform
<1>9. QED
  BY Zenon, <1>8 DEF Simulated, Contract!Next

\* Before its first commit a handler has committed nothing.
LEMMA CommittedNone ==
  pc \notin FeatureLabels \cup {"finish", "insert values"} => Committed = 0
<1> SUFFICES ASSUME pc \notin FeatureLabels \cup {"finish", "insert values"} PROVE Committed = 0
  OBVIOUS
<1>1. /\ pc \notin {"insert feature", "insert geometry", "finish"}
      /\ pc \notin {"insert values", "finish"} /\ pc \notin FeatureLabels \cup {"finish"}
  BY Zenon DEF FeatureLabels
<1>2. CASE req.op = "post_collection_items"
  BY Zenon, <1>1, <1>2, CommittedIs
<1>3. CASE req.op = "put_single_moving_feature"
  BY Zenon, <1>1, <1>3, CommittedIs
<1>4. CASE req.op = "post_tproperties"
  BY Zenon, <1>1, <1>4, CommittedIs
<1>5. CASE req.op \notin FeatureOps \cup {"post_tproperties"}
  BY Zenon, <1>5, CommittedIs
<1>6. QED
  BY Zenon, <1>2, <1>3, <1>4, <1>5 DEF FeatureOps

\* The same after a step.
LEMMA CommittedNoneNext ==
  pc' \notin FeatureLabels \cup {"finish", "insert values"} => Committed' = 0
<1> SUFFICES ASSUME pc' \notin FeatureLabels \cup {"finish", "insert values"} PROVE Committed' = 0
  OBVIOUS
<1>1. /\ pc' \notin {"insert feature", "insert geometry", "finish"}
      /\ pc' \notin {"insert values", "finish"} /\ pc' \notin FeatureLabels \cup {"finish"}
  BY Zenon DEF FeatureLabels
<1>2. CASE req'.op = "post_collection_items"
  BY Zenon, <1>1, <1>2, CommittedNext
<1>3. CASE req'.op = "put_single_moving_feature"
  BY Zenon, <1>1, <1>3, CommittedNext
<1>4. CASE req'.op = "post_tproperties"
  BY Zenon, <1>1, <1>4, CommittedNext
<1>5. CASE req'.op \notin FeatureOps \cup {"post_tproperties"}
  BY Zenon, <1>5, CommittedNext
<1>6. QED
  BY Zenon, <1>2, <1>3, <1>4, <1>5 DEF FeatureOps

\* A request arrives, or its body is read.
LEMMA ArrivesStep ==
  ASSUME TypeInv, TypeInv', Arrives
  PROVE  Simulated
<1>1. disk' = disk /\ tx' = tx
  BY Zenon DEF Arrives
<1>2. CASE pc = "idle" /\ pc' = "start"
  <2>1. req' \in Requests /\ req' \in Request
    BY Zenon, <1>2, RequestsAssumption DEF TypeInv, TypeOK
  <2>2. StatusOf = "idle"
    BY Zenon, <1>2, StatusIs
  <2>3. Committed' = 0
    BY Zenon, <1>2, CommittedNoneNext DEF FeatureLabels
  <2>4. CASE tx = "ok"
    <3>1. Serves'
      BY Zenon, <1>1, <1>2, <2>4 DEF Serves, Over
    <3>2. StatusOf' = "serving" /\ Outstanding' = Rest(PlanOf(req'), 0 + 1)
      BY Zenon, <2>3, <3>1, StatusNext
    <3>3. PICK S : PlanOf(req') \in Seq(S)
      BY Zenon, <2>1, PlanTyped
    <3>4. Outstanding' = PlanOf(req')
      BY Zenon, <3>2, <3>3, PlanLeft
    <3>5. Contract!Begin
      BY Zenon, <1>1, <2>1, <2>2, <3>2, <3>4 DEF Contract!Begin
    <3>6. QED
      BY Zenon, <3>5 DEF Simulated, Contract!Next
  <2>5. CASE tx # "ok"
    <3>1. Denies' /\ ~Serves'
      BY Zenon, <1>1, <1>2, <2>5 DEF Denies, Accepts, Serves
    <3>2. StatusOf' = "refused" /\ Outstanding' = <<>>
      BY Zenon, <3>1, StatusNext
    <3>3. Contract!Begin
      BY Zenon, <1>1, <2>2, <3>2 DEF Contract!Begin
    <3>4. QED
      BY Zenon, <3>3 DEF Simulated, Contract!Next
  <2>6. QED
    BY Zenon, <2>4, <2>5
<1>3. CASE pc = "start" /\ pc' = "check" /\ Kept
  <2>1. req' = req
    BY Zenon, <1>3 DEF Kept
  <2>2. CASE tx = "ok"
    <3>1. Serves /\ Serves'
      BY Zenon, <1>1, <1>3, <2>2 DEF Serves, Over
    <3>2. Committed = 0 /\ Committed' = 0
      BY Zenon, <1>3, CommittedNone, CommittedNoneNext DEF FeatureLabels
    <3>3. QED
      BY Zenon, <1>1, <2>1, <3>1, <3>2, ServingStep
  <2>3. CASE tx # "ok"
    <3>1. Denies /\ Denies'
      BY Zenon, <1>1, <1>3, <2>3 DEF Denies, Accepts
    <3>2. QED
      BY Zenon, <1>1, <3>1, StutterStep
  <2>4. QED
    BY Zenon, <2>2, <2>3
<1>4. QED
  BY Zenon, <1>2, <1>3 DEF Arrives

\* The codes of refusals and of successes.
LEMMA Codes ==
  /\ \A n \in Nat : n >= 400 => ~(n < 300)
  /\ \A n : n = 200 => n < 300
  OBVIOUS

\* A handler refuses its request, or goes on refusing it.
LEMMA RefusesStep ==
  ASSUME TypeInv, TypeInv', Refuses
  PROVE  Simulated
<1>1. disk' = disk /\ pc # "idle" /\ pc # "respond" /\ pc' # "idle"
  BY Zenon, LabelsType DEF Refuses, Executing, AfterCommit
<1>2. Denies'
  <2>1. code' \in Nat
    BY Zenon DEF TypeInv, TypeOK
  <2>2. pc' \in Over
    BY Zenon DEF Refuses, Over
  <2>3. pc' = "respond" => code' >= 400
    BY Zenon DEF Refuses
  <2>4. ~Accepts'
    BY Zenon, <2>1, <2>3, Codes DEF Accepts
  <2>5. QED
    BY Zenon, <1>1, <2>2, <2>4 DEF Denies
<1>3. CASE Serves
  BY Zenon, <1>1, <1>2, <1>3, RefusingStep
<1>4. CASE ~Serves
  <2>1. Denies
    BY Zenon, <1>1, <1>4, StatusIs DEF Accepts
  <2>2. QED
    BY Zenon, <1>1, <1>2, <2>1, StutterStep
<1>5. QED
  BY Zenon, <1>3, <1>4

\* Reads are no writes.
LEMMA ReadsAreNoWrites == \A op \in Reads : op \notin Writes
  BY SMT DEF Reads, BareReads, SilentReads, GuardedReads, Writes

\* A query is answered.
LEMMA ShowsStep ==
  ASSUME Shows
  PROVE  Simulated
<1>1. /\ disk' = disk /\ tx = "ok" /\ pc' = "respond" /\ code' = 200 /\ pc = "check"
      /\ req.op \in Reads
  BY Zenon DEF Shows
<1>2. Serves
  BY Zenon, <1>1 DEF Serves, Over
<1>3. Accepts'
  BY Zenon, <1>1, Codes DEF Accepts
<1>4. PlanOf(req) = <<>>
  BY Zenon, <1>1, ReadsAreNoWrites, PlanIs
<1>5. Committed = 0
  BY Zenon, <1>1, CommittedNone DEF FeatureLabels
<1>6. Committed \in Nat
  BY <1>5
<1>7. DocumentsOf(disk') = DocumentsOf(disk)
  BY Zenon, <1>1
<1>8. QED
  BY Zenon, <1>2, <1>3, <1>4, <1>6, <1>7, AcceptingStep

\* What a commit makes of the documents: nothing, or the operation that is due.
LEMMA CommitOwes ==
  ASSUME OweInv, req # NoRequest, tx = "ok", pc \in DOMAIN AfterCommit
  PROVE  Same \/ DueNow
<1>1. CASE pc = "tables"
  BY Zenon, <1>1 DEF OweInv
<1>2. CASE pc = "features"
  BY Zenon, <1>2 DEF OweInv, Awaited
<1>3. CASE pc = "property"
  BY Zenon, <1>3 DEF OweInv
<1>4. CASE pc = "finish"
  BY Zenon, <1>4 DEF OweInv, Concluded
<1>5. QED
  BY Zenon, <1>1, <1>2, <1>3, <1>4, CommitsTo

\* Nothing happens, or the connection is lost, perhaps while a commit is under
\* way that may then have taken effect.
LEMMA WaitsStep ==
  ASSUME TypeInv, OweInv, Waits
  PROVE  Simulated
<1>1. pc' = pc /\ code' = code /\ todo' = todo /\ req' = req
  BY Zenon DEF Waits, Kept
<1>2. Accepts' <=> Accepts
  BY Zenon, <1>1 DEF Accepts
<1>3. CASE UNCHANGED <<disk, work, tx>>
  <2>1. disk' = disk /\ tx' = tx
    BY Zenon, <1>3
  <2>2. (Denies' <=> Denies) /\ (Serves' <=> Serves)
    BY Zenon, <1>1, <1>2, <2>1 DEF Denies, Serves
  <2>3. Committed' = Committed
    BY Zenon, <1>1 DEF Committed
  <2>4. DocumentsOf(disk') = DocumentsOf(disk)
    BY Zenon, <2>1
  <2>5. CASE Serves
    BY Zenon, <1>1, <2>2, <2>3, <2>4, <2>5, ServingStep
  <2>6. CASE ~Serves
    BY Zenon, <1>1, <1>2, <2>1, <2>2, <2>6, StatusIs, StutterStep
  <2>7. QED
    BY Zenon, <2>5, <2>6
<1>4. CASE /\ tx' = "closed"
           /\ disk' = disk \/ (pc \in DOMAIN AfterCommit /\ tx = "ok" /\ disk' = work)
  <2>1. CASE Serves
    <3>1. Denies'
      BY Zenon, <1>1, <1>4, <2>1 DEF Denies, Accepts, Serves, Over
    <3>2. CASE disk' = disk
      BY Zenon, <2>1, <3>1, <3>2, RefusingStep
    <3>3. CASE pc \in DOMAIN AfterCommit /\ tx = "ok" /\ disk' = work
      <4>1. pc # "idle"
        BY Zenon, <2>1 DEF Serves, Over
      <4>2. req # NoRequest /\ req \in Request
        BY Zenon, <4>1, RequestType DEF TypeInv
      <4>3. CASE Same
        BY Zenon, <2>1, <3>1, <3>3, <4>3, RefusingStep DEF Same
      <4>4. CASE DueNow
        BY Zenon, <2>1, <3>1, <3>3, <4>2, <4>4, PerformingStep
      <4>5. QED
        BY Zenon, <3>3, <4>2, <4>3, <4>4, CommitOwes
    <3>4. QED
      BY Zenon, <1>4, <3>2, <3>3
  <2>2. CASE ~Serves
    <3>1. ~(pc \in DOMAIN AfterCommit /\ tx = "ok")
      BY Zenon, <2>2, CommitsTo DEF Serves, Over
    <3>2. disk' = disk
      BY Zenon, <1>4, <3>1
    <3>3. Denies => Denies'
      BY Zenon, <1>1, <1>2, <1>4 DEF Denies
    <3>4. QED
      BY Zenon, <1>1, <1>2, <2>2, <3>2, <3>3, StatusIs, StutterStep
  <2>3. QED
    BY Zenon, <2>1, <2>2
<1>5. QED
  BY Zenon, <1>3, <1>4 DEF Waits

\* What the handlers of items have committed when they are done.
LEMMA CommittedNat ==
  ASSUME TypeInv, pc = "finish"
  PROVE  Committed \in Nat
<1>1. CASE req.op = "post_collection_items" /\ Len(req.items) - Len(todo) > 0
  <2>1. Committed = (Len(req.items) - Len(todo)) - 1
    BY Zenon, <1>1, CommittedIs
  <2>2. pc # "idle"
    OBVIOUS
  <2>3. req.items \in Seq(Items) /\ todo \in Seq(Items)
    BY Zenon, <2>2, RequestType, ItemsTyped DEF TypeInv, TypeOK
  <2>4. Len(req.items) \in Nat /\ Len(todo) \in Nat
    BY <2>3
  <2>5. QED
    BY <1>1, <2>1, <2>4
<1>2. CASE req.op = "post_collection_items" /\ ~(Len(req.items) - Len(todo) > 0)
  <2>1. Committed = 0
    BY Zenon, <1>2, CommittedIs
  <2>2. QED
    BY <2>1
<1>3. CASE req.op # "post_collection_items"
  <2>1. Committed = 0 \/ Committed = 1
    <3>1. CASE req.op = "put_single_moving_feature"
      BY Zenon, <3>1, CommittedIs
    <3>2. CASE req.op = "post_tproperties"
      BY Zenon, <3>2, CommittedIs
    <3>3. CASE req.op \notin FeatureOps \cup {"post_tproperties"}
      BY Zenon, <3>3, CommittedIs
    <3>4. QED
      BY Zenon, <1>3, <3>1, <3>2, <3>3 DEF FeatureOps
  <2>2. QED
    BY <2>1
<1>4. QED
  BY Zenon, <1>1, <1>2, <1>3

\* How far a body of items is read.
LEMMA NoneTaken ==
  ASSUME NEW items \in Seq(Items)
  PROVE  Len(items) - Len(items) = 0 /\ ~(0 > 0)
<1>1. Len(items) \in Nat
  OBVIOUS
<1>2. QED
  BY <1>1

\* When fewer items are left than there were, some are taken.
LEMMA SomeTaken ==
  ASSUME NEW items \in Seq(Items), NEW rest \in Seq(Items), Len(rest) < Len(items)
  PROVE  /\ Len(items) - Len(rest) > 0
         /\ ((Len(items) - Len(rest)) - 1) + 1 = Len(items) - Len(rest)
<1>1. Len(items) \in Nat /\ Len(rest) \in Nat
  OBVIOUS
<1>2. QED
  BY <1>1

\* The commit between the tables and the row of a Feature: the operations of the
\* Features before it become visible, or nothing does.
LEMMA RowCommits ==
  ASSUME Tidy, OweInv, Commit, pc = "features"
  PROVE  Simulated
<1>1. /\ TypeInv /\ tx = "ok" /\ tx' = "ok" /\ disk' = work /\ pc' = "insert feature"
      /\ req' = req /\ todo' = todo
  BY Zenon, CommitsTo DEF Tidy, Progress, Known, Commit, request, loop
<1>2. req \in Request /\ req # NoRequest /\ todo \in Seq(Items)
  BY Zenon, <1>1, RequestType DEF TypeInv, TypeOK
<1>3. Serves /\ Serves' /\ Awaited
  BY Zenon, <1>1, <1>2 DEF Serves, Over, OweInv
<1>4. CASE req.op = "post_collection_items" /\ todo = req.items /\ Same
  <2>1. Len(req.items) - Len(todo) = 0 /\ ~(Len(req.items) - Len(todo) > 0)
    BY Zenon, <1>2, <1>4, NoneTaken
  <2>2. Committed = 0
    BY Zenon, <1>4, <2>1, CommittedIs
  <2>3. Committed' = 0
    BY Zenon, <1>1, <1>4, <2>1, CommittedNext
  <2>4. DocumentsOf(disk') = DocumentsOf(disk)
    BY Zenon, <1>1, <1>4 DEF Same
  <2>5. QED
    BY Zenon, <1>1, <1>3, <2>2, <2>3, <2>4, ServingStep
<1>5. CASE DueNow /\ (req.op = "post_collection_items" => Len(todo) < Len(req.items))
  <2>1. Committed' = Committed + 1
    <3>1. CASE req.op = "put_single_moving_feature"
      <4>1. Committed = 0 /\ Committed' = 1
        BY Zenon, <1>1, <3>1, CommittedIs, CommittedNext
      <4>2. QED
        BY Zenon, <4>1, OneTwo
    <3>2. CASE req.op = "post_collection_items"
      <4>1. req.items \in Seq(Items) /\ Len(todo) < Len(req.items)
        BY Zenon, <1>2, <1>5, <3>2, ItemsTyped
      <4>2. /\ Len(req.items) - Len(todo) > 0
            /\ ((Len(req.items) - Len(todo)) - 1) + 1 = Len(req.items) - Len(todo)
        BY Zenon, <1>2, <4>1, SomeTaken
      <4>3. Committed = (Len(req.items) - Len(todo)) - 1
        BY Zenon, <3>2, <4>2, CommittedIs
      <4>4. Committed' = Len(req.items) - Len(todo)
        BY Zenon, <1>1, <3>2, CommittedNext
      <4>5. QED
        BY Zenon, <4>2, <4>3, <4>4
    <3>3. req.op \in {"post_collection_items", "put_single_moving_feature"}
      BY Zenon, <1>1 DEF TypeInv, Control, FeatureLabels
    <3>4. QED
      BY Zenon, <3>1, <3>2, <3>3
  <2>2. QED
    BY Zenon, <1>1, <1>2, <1>3, <1>5, <2>1, PerformingStep
<1>6. QED
  BY Zenon, <1>3, <1>4, <1>5 DEF Awaited

\* The commit between a property and its values.
LEMMA PropertyCommits ==
  ASSUME Tidy, OweInv, Commit, pc = "property"
  PROVE  Simulated
<1>1. /\ TypeInv /\ tx = "ok" /\ tx' = "ok" /\ disk' = work /\ pc' = "insert values"
      /\ req' = req
  BY Zenon, CommitsTo DEF Tidy, Progress, Known, Commit, request
<1>2. req \in Request /\ req # NoRequest /\ req.op = "post_tproperties"
  BY Zenon, <1>1, RequestType DEF TypeInv, TypeOK, Tidy, Progress, Known, TraceInv
<1>3. Serves /\ Serves' /\ DueNow /\ Len(PlanOf(req)) = 2
  BY Zenon, <1>1, <1>2 DEF Serves, Over, OweInv
<1>4. Committed = 0
  BY Zenon, CommittedNone DEF FeatureLabels
<1>5. Committed' = 1
  BY Zenon, <1>1, <1>2, <1>3, CommittedNext
<1>6. Committed' = Committed + 1
  BY Zenon, <1>4, <1>5, OneTwo
<1>7. QED
  BY Zenon, <1>1, <1>2, <1>3, <1>6, PerformingStep

\* The last commit of a handler: what it answers is what happened.
LEMMA LastCommits ==
  ASSUME Tidy, OweInv, Commit, pc = "finish"
  PROVE  Simulated
<1>1. /\ TypeInv /\ tx = "ok" /\ disk' = work /\ pc' = "respond" /\ code' = code
  BY Zenon, CommitsTo DEF Tidy, Progress, Known, Commit
<1>2. req \in Request /\ req # NoRequest /\ code \in Nat
  BY Zenon, <1>1, RequestType DEF TypeInv, TypeOK
<1>3. Serves /\ Concluded
  BY Zenon, <1>1, <1>2 DEF Serves, Over, OweInv
<1>4. Same => DocumentsOf(disk') = DocumentsOf(disk)
  BY Zenon, <1>1 DEF Same
<1>5. CASE code >= 400 /\ Same
  <2>1. Denies'
    BY Zenon, <1>1, <1>2, <1>5, Codes DEF Denies, Accepts, Over
  <2>2. QED
    BY Zenon, <1>3, <1>4, <1>5, <2>1, RefusingStep
<1>6. CASE code < 300 /\ PlanOf(req) = <<>> /\ Same
  <2>1. Accepts'
    BY Zenon, <1>1, <1>6 DEF Accepts
  <2>2. Committed \in Nat
    BY Zenon, <1>1, CommittedNat
  <2>3. QED
    BY Zenon, <1>3, <1>4, <1>6, <2>1, <2>2, AcceptingStep
<1>7. CASE code < 300 /\ DueNow /\ Committed + 1 = Len(PlanOf(req))
  <2>1. Accepts'
    BY Zenon, <1>1, <1>7 DEF Accepts
  <2>2. QED
    BY Zenon, <1>1, <1>2, <1>3, <1>7, <2>1, PerformingStep
<1>8. QED
  BY Zenon, <1>3, <1>5, <1>6, <1>7 DEF Concluded

\* A handler commits.
LEMMA CommitStep ==
  ASSUME Tidy, OweInv, Commit
  PROVE  Simulated
<1>1. CASE pc = "tables"
  <2>1. /\ TypeInv /\ tx = "ok" /\ tx' = "ok" /\ disk' = work /\ pc' = "insert collection"
        /\ req' = req
    BY Zenon, <1>1, CommitsTo DEF Tidy, Progress, Known, Commit, request
  <2>2. req # NoRequest
    BY Zenon, <1>1, <2>1 DEF TypeInv, TypeOK
  <2>3. Serves /\ Serves' /\ Same
    BY Zenon, <1>1, <2>1, <2>2 DEF Serves, Over, OweInv
  <2>4. Committed = 0 /\ Committed' = 0
    BY Zenon, <1>1, <2>1, CommittedNone, CommittedNoneNext DEF FeatureLabels
  <2>5. DocumentsOf(disk') = DocumentsOf(disk)
    BY Zenon, <2>1, <2>3 DEF Same
  <2>6. QED
    BY Zenon, <2>1, <2>3, <2>4, <2>5, ServingStep
<1>2. CASE pc = "features"
  BY Zenon, <1>2, RowCommits
<1>3. CASE pc = "property"
  BY Zenon, <1>3, PropertyCommits
<1>4. CASE pc = "finish"
  BY Zenon, <1>4, LastCommits
<1>5. pc \in DOMAIN AfterCommit
  BY Zenon DEF Commit
<1>6. QED
  BY Zenon, <1>1, <1>2, <1>3, <1>4, <1>5, CommitsTo

\* A Feature that is done is committed with the next one.
LEMMA NextCommitted ==
  ASSUME Tidy, OweInv, pc \in {"insert feature", "insert geometry"}, tx = "ok", req' = req,
         todo' = Tail(todo), pc' = NextItem(Tail(todo), "feature")
  PROVE  Committed' = Committed
<1>1. pc \in FeatureLabels /\ req.op \in {"post_collection_items", "put_single_moving_feature"}
  BY Zenon DEF Tidy, Progress, Known, TypeInv, Control, FeatureLabels
<1>2. pc' \in {"feature", "finish"}
  BY Zenon DEF NextItem
<1>3. CASE req.op = "post_collection_items"
  <2> DEFINE n == Len(req.items) - Len(todo) + 1
             taken == Len(req'.items) - Len(todo')
  <2>1. /\ n \in 1..Len(req.items) /\ Committed = n - 1
        /\ req.items \in Seq(Items) /\ Len(Tail(todo)) = Len(req.items) - n
    BY Zenon, <1>3, ItemTurn
  <2>2. taken = n /\ n > 0
    BY ZenonT(60), <2>1, LeftOver
  <2>3. QED
    BY Zenon, <1>2, <1>3, <2>1, <2>2, CommittedNext
<1>4. CASE req.op = "put_single_moving_feature"
  <2>1. Tail(todo) = <<>>
    BY Zenon, <1>1, <1>4, ReplacementTurn
  <2>2. pc' = "finish"
    BY Zenon, <2>1 DEF NextItem
  <2>3. QED
    BY Zenon, <1>4, <2>2, CommittedIs, CommittedNext
<1>5. QED
  BY Zenon, <1>1, <1>3, <1>4

\* Sequences that differ in their first element are of one length.
LEMMA SameTail ==
  ASSUME NEW seq \in Seq(Items), seq # <<>>, NEW new \in Seq(Items), new # <<>>,
         Tail(new) = Tail(seq)
  PROVE  Len(new) = Len(seq)
<1>1. Len(Tail(seq)) = Len(seq) - 1 /\ Len(Tail(new)) = Len(new) - 1
  OBVIOUS
<1>2. Len(seq) \in Nat /\ Len(new) \in Nat
  OBVIOUS
<1>3. Len(new) - 1 = Len(seq) - 1
  BY Zenon, <1>1
<1>4. \A m, n \in Nat : m - 1 = n - 1 => m = n
  OBVIOUS
<1>5. QED
  BY Zenon, <1>2, <1>3, <1>4

\* The row of a Feature.
LEMMA RowCommitted ==
  ASSUME Tidy, OweInv, Works, insert_feature_row
  PROVE  Committed' = Committed
<1>1. /\ TypeInv /\ req' = req /\ pc' # "except" /\ tx = "ok" /\ pc = "insert feature"
  BY Zenon DEF Tidy, Progress, Known, Works, Outcomes, insert_feature_row, Kept
<1>2. todo \in Seq(Items) /\ todo # <<>> /\ req.op \in FeatureOps
  BY Zenon, <1>1 DEF TypeInv, TypeOK, Control, FeatureLabels, FeatureOps
<1>3. PICK id \in FeatureIds : RowDone(id) /\ (GeometryNext(id) \/ RowIsAll(id))
  BY Zenon, <1>1, InsertedRow
<1>4. CASE GeometryNext(id)
  <2>1. /\ pc' = "insert geometry" /\ todo' \in Seq(Items) /\ todo' # <<>>
        /\ Tail(todo') = Tail(todo)
    BY Zenon, <1>4 DEF GeometryNext
  <2>2. Len(todo') = Len(todo)
    BY Zenon, <1>2, <2>1, SameTail
  <2>3. CASE req.op = "post_collection_items"
    BY Zenon, <1>1, <2>1, <2>2, <2>3, CommittedIs, CommittedNext
  <2>4. CASE req.op = "put_single_moving_feature"
    BY Zenon, <1>1, <2>1, <2>4, CommittedIs, CommittedNext
  <2>5. QED
    BY Zenon, <1>2, <2>3, <2>4 DEF FeatureOps
<1>5. CASE RowIsAll(id)
  <2>1. pc' = NextItem(Tail(todo), "feature") /\ todo' = Tail(todo)
    BY Zenon, <1>5 DEF RowIsAll
  <2>2. QED
    BY Zenon, <1>1, <2>1, NextCommitted
<1>6. QED
  BY Zenon, <1>3, <1>4, <1>5

\* The temporal geometry of a Feature.
LEMMA GeometryCommitted ==
  ASSUME Tidy, OweInv, Works, insert_feature_geometry
  PROVE  Committed' = Committed
<1>1. /\ TypeInv /\ TablesInv /\ req' = req /\ pc' # "except" /\ tx = "ok"
      /\ pc = "insert geometry"
  BY Zenon DEF Tidy, Progress, Known, Works, Outcomes, insert_feature_geometry, Kept
<1>2. pc' = NextItem(Tail(todo), "feature") /\ todo' = Tail(todo)
  BY Zenon, <1>1, InsertedGeometry
<1>3. QED
  BY Zenon, <1>1, <1>2, NextCommitted

\* The tables of a Feature.
LEMMA TablesCommitted ==
  ASSUME Tidy, Works, insert_feature_tables
  PROVE  Committed' = Committed
<1>1. /\ TypeInv /\ req' = req /\ pc' # "except"
  BY Zenon DEF Tidy, Progress, Known, Works, Outcomes, Kept
<1>2. pc = "feature" /\ pc' = "features" /\ todo' = todo
  BY <1>1 DEF insert_feature_tables, Raise, Execute, loop
<1>3. req.op \in {"post_collection_items", "put_single_moving_feature"}
  BY Zenon, <1>1, <1>2 DEF TypeInv, Control, FeatureLabels
<1>4. CASE req.op = "put_single_moving_feature"
  BY Zenon, <1>1, <1>2, <1>4, CommittedIs, CommittedNext
<1>5. CASE req.op = "post_collection_items" /\ Len(req.items) - Len(todo) > 0
  <2>1. Committed = (Len(req.items) - Len(todo)) - 1
    BY Zenon, <1>2, <1>5, CommittedIs
  <2>2. Committed' = (Len(req.items) - Len(todo)) - 1
    BY Zenon, <1>1, <1>2, <1>5, CommittedNext
  <2>3. QED
    BY Zenon, <2>1, <2>2
<1>6. CASE req.op = "post_collection_items" /\ ~(Len(req.items) - Len(todo) > 0)
  <2>1. Committed = 0
    BY Zenon, <1>2, <1>6, CommittedIs
  <2>2. Committed' = 0
    BY Zenon, <1>1, <1>2, <1>6, CommittedNext
  <2>3. QED
    BY Zenon, <2>1, <2>2
<1>7. QED
  BY Zenon, <1>3, <1>4, <1>5, <1>6

\* The handlers of items, up to their first Feature.
LEMMA FirstCommitted ==
  ASSUME Tidy, Works, post_collection_items \/ put_single_moving_feature
  PROVE  Committed' = Committed
<1> USE DEF At
<1>1. /\ TypeInv /\ req' = req /\ pc' \notin {"respond", "except"}
  BY Zenon DEF Tidy, Progress, Known, Works, Outcomes, Kept
<1>2. pc = "check"
  BY Zenon DEF post_collection_items, put_single_moving_feature
<1>3. req \in Request
  BY Zenon, <1>1, <1>2, RequestType DEF TypeInv
<1>4. Committed = 0
  BY Zenon, <1>2, CommittedNone DEF FeatureLabels
<1>5. CASE post_collection_items
  <2>1. /\ req.op = "post_collection_items" /\ todo' = req.items
        /\ pc' = NextItem(req.items, "feature")
    BY Zenon, <1>1, <1>5 DEF post_collection_items, Raise
  <2>2. pc' \in {"feature", "finish"}
    BY Zenon, <2>1 DEF NextItem
  <2>3. req.items \in Seq(Items)
    BY Zenon, <1>3, ItemsTyped
  <2>4. ~(Len(req.items) - Len(req.items) > 0)
    BY Zenon, <2>3, NoneTaken
  <2>5. Committed' = 0
    BY Zenon, <1>1, <2>1, <2>2, <2>4, CommittedNext
  <2>6. QED
    BY Zenon, <1>4, <2>5
<1>6. CASE put_single_moving_feature
  <2>1. req.op = "put_single_moving_feature" /\ pc' = "feature"
    BY Zenon, <1>1, <1>6 DEF put_single_moving_feature, Answer, Execute
  <2>2. Committed' = 0
    BY Zenon, <1>1, <2>1, CommittedNext
  <2>3. QED
    BY Zenon, <1>4, <2>2
<1>7. QED
  BY Zenon, <1>5, <1>6

\* The handler that posts a property.
LEMMA PropertyCommitted ==
  ASSUME Tidy, Works, req.op = "post_tproperties"
  PROVE  Committed' = Committed
<1> USE DEF At
<1>1. /\ TypeInv /\ req' = req /\ pc' \notin {"idle", "respond", "except"} /\ Statements
  BY Zenon DEF Tidy, Progress, Known, Works, Outcomes, Kept
<1>2. CASE post_tproperties
  <2>1. pc = "check"
    BY Zenon, <1>2 DEF post_tproperties, Handles
  <2>2. pc' = IF req.form = "ok" THEN "finish" ELSE "property"
    BY <1>1, <1>2 DEF post_tproperties, Answer, Raise, Leave, Execute
  <2>3. Committed = 0
    BY Zenon, <2>1, CommittedNone DEF FeatureLabels
  <2>4. Committed' = 0
    <3>1. CASE req.form = "ok"
      <4>1. PlanOf(req) = <<OnProperty(req, "add property")>>
        BY Zenon, <3>1, PlanIs
      <4>2. ASSUME NEW x PROVE Len(<<x>>) # 2
        OBVIOUS
      <4>3. Len(PlanOf(req)) # 2
        BY Zenon, <4>1, <4>2
      <4>4. QED
        BY Zenon, <1>1, <4>3, CommittedNext
    <3>2. CASE req.form # "ok"
      <4>1. pc' = "property"
        BY Zenon, <2>2, <3>2
      <4>2. QED
        BY Zenon, <4>1, CommittedNoneNext DEF FeatureLabels
    <3>3. QED
      BY Zenon, <3>1, <3>2
  <2>5. QED
    BY Zenon, <2>3, <2>4
<1>3. CASE post_tproperties_values
  <2>1. pc = "insert values"
    BY Zenon, <1>3 DEF post_tproperties_values
  <2>2. pc' = "finish"
    BY Zenon, <1>1, <1>3 DEF post_tproperties_values, Raise, StatementFails, Execute
  <2>3. QED
    BY Zenon, <1>1, <2>1, <2>2, CommittedIs, CommittedNext
<1>4. QED
  BY Zenon, <1>1, <1>2, <1>3, OwnStatements

\* A statement writes what only a commit shows.
LEMMA WorksStep ==
  ASSUME Tidy, OweInv, Works
  PROVE  Simulated
<1>1. /\ TypeInv /\ Statements /\ disk' = disk /\ req' = req /\ tx = "ok" /\ tx' = "ok"
      /\ pc \in Executing /\ pc' \notin Outcomes
  BY Zenon DEF Tidy, Progress, Known, Works, Kept
<1>2. Serves /\ Serves'
  BY Zenon, <1>1 DEF Serves, Over, Executing, Outcomes
<1>3. Committed' = Committed
  <2>1. CASE req.op \in FeatureOps
    <3>1. \/ post_collection_items \/ put_single_moving_feature
          \/ insert_feature_tables \/ insert_feature_row \/ insert_feature_geometry
      BY Zenon, <1>1, <2>1, OwnStatements DEF FeatureOps
    <3>2. QED
      BY Zenon, <3>1, FirstCommitted, TablesCommitted, RowCommitted, GeometryCommitted
  <2>2. CASE req.op = "post_tproperties"
    BY Zenon, <2>2, PropertyCommitted
  <2>3. CASE req.op \notin FeatureOps \cup {"post_tproperties"}
    BY Zenon, <1>1, <2>3, CommittedIs, CommittedNext
  <2>4. QED
    BY Zenon, <2>1, <2>2, <2>3
<1>4. DocumentsOf(disk') = DocumentsOf(disk)
  BY Zenon, <1>1
<1>5. QED
  BY Zenon, <1>1, <1>2, <1>3, <1>4, ServingStep

\* Without an interrupt every step of the server is a step of the contract.
LEMMA SimulationStep ==
  ASSUME "interrupt" \notin Faults
  PROVE  Tidy /\ OweInv /\ TypeInv' /\ [Next]_vars => [Contract!Next]_Contract!vars
<1> SUFFICES ASSUME Tidy, OweInv, TypeInv', [Next]_vars PROVE Simulated
  BY Zenon DEF Simulated
<1>1. TypeInv
  BY Zenon DEF Tidy, Progress, Known
<1>2. Course
  BY Zenon, <1>1, EveryStep
<1>3. CASE Leave
  <2>1. pc' = "idle"
    BY Zenon, <1>3 DEF Leave
  <2>2. disk' = disk
    BY Zenon, <1>1, <2>1, Leaving
  <2>3. QED
    BY Zenon, <2>1, <2>2, EndingStep
<1>4. CASE Arrives
  BY Zenon, <1>1, <1>4, ArrivesStep
<1>5. CASE Refuses
  BY Zenon, <1>1, <1>5, RefusesStep
<1>6. CASE Shows
  BY Zenon, <1>6, ShowsStep
<1>7. CASE Waits
  BY Zenon, <1>1, <1>7, WaitsStep
<1>8. CASE Works
  BY Zenon, <1>8, WorksStep
<1>9. CASE Commit
  BY Zenon, <1>9, CommitStep
<1>10. QED
  BY Zenon, <1>2, <1>3, <1>4, <1>5, <1>6, <1>7, <1>8, <1>9 DEF Course

\* At the start there are no documents.
LEMMA SimulationStart == Init => Contract!Init
<1>1. DocumentsOf(EmptyDatabase) = Contract!NoDocuments
  BY DEF EmptyDatabase, NoRows, DocumentsOf, Contract!NoDocuments, Contract!Contents,
         Contract!Nothing
<1>2. Init => pc = "idle" /\ disk = EmptyDatabase
  BY Zenon DEF Init
<1>3. pc = "idle" => StatusOf = "idle" /\ Outstanding = <<>>
  BY Zenon, StatusIs DEF Serves, Over
<1>4. QED
  BY Zenon, <1>1, <1>2, <1>3 DEF Contract!Init

\* Whatever fails and wherever it does, short of a Ctrl-C, which commits what the
\* handler had done so far: what clients see of the tables changes by whole
\* operations, each under its precondition, in the order asked for, and a success
\* goes out only after the last of them.  The statements, commits and rollbacks of
\* every handler, and the transactions they inherit, implement the contract.
THEOREM ServerImplementsContract ==
  ASSUME BatchesStayHome, "interrupt" \notin Faults
  PROVE  Spec => ImplementsContract
<1>1. Tidy /\ OweInv /\ TypeInv' /\ [Next]_vars => [Contract!Next]_Contract!vars
  BY Zenon, SimulationStep
<1>2. Tidy => TypeInv
  BY Zenon DEF Tidy, Progress, Known
<1>3. Spec => [](Tidy /\ OweInv)
  BY Zenon, HandlersOweWhatTheyExecuted
<1>4. QED
  BY <1>1, <1>2, <1>3, SimulationStart, PTL DEF Spec, ImplementsContract, Contract!Spec

=============================================================================
