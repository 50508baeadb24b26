---------------------------- MODULE TablesProofs ----------------------------
(***************************************************************************)
(* What MobilityAPI keeps of the tables, for every set of identifiers,     *)
(* requests and faults: the foreign keys, the uniqueness of a property's   *)
(* name, the extents, the order of a property's values, and what the       *)
(* handlers of one collection leave of the others.                         *)
(*                                                                         *)
(* The argument has two halves.  A step of the server leaves the database  *)
(* alone, settles the transaction (work and disk become one of the two),   *)
(* or executes one SQL statement on work whose preconditions the handler   *)
(* established in earlier steps: the lemma StepEffect.  Every statement    *)
(* with its preconditions keeps each property of the tables.               *)
(***************************************************************************)
EXTENDS MobilityAPIProofs

-----------------------------------------------------------------------------
(* The statements, with what their handlers know when they execute them.   *)
(* c is the collection of the request, key the SERIAL value drawn.         *)

\* The ids under which a request may create a feature, or find it created: an
\* item without one gets an id that nobody chose.
Creates(r, f) ==
  \/ r.op \in {"post_bulk", "post_collection_items"} /\ f \in GivenIds(r)
  \/ r.op = "post_collection_items" /\ NoId \in GivenIds(r)
  \/ r.op = "put_single_moving_feature" /\ f = r.fid

Created(c, f) == \E r \in Requests : r.cid = c /\ Creates(r, f)
Batched(c, f) == \E r \in Requests : r.op = "post_bulk" /\ r.cid = c /\ Creates(r, f)

IsFilled(traj) == traj # Null /\ \A m \in DOMAIN traj : traj[m] # {}

CreatesTables(db, new) ==
  \E group \in SUBSET TableGroups : new = CreateTables(db, group)
PutsCollection(db, new, c) ==
  \E title \in Titles : new = PutCollectionRow(db, c, title)
DeletesCollection(db, new, c) == new = DeleteCollectionRow(db, c)
InsertsFeature(db, new, c) ==
  /\ HasCollection(db, c)
  /\ \E f \in FeatureIds \ DOMAIN db.features :
        Created(c, f) /\ new = InsertFeatureRow(db, f, c)
DeletesFeature(db, new, c) ==
  \E f : HasFeature(db, c, f) /\ new = DeleteFeatures(db, {f})
DeletesProperties(db, new) == \E P : new = DeleteProperties(db, P)

\* A geometry that is not written by a batch goes to a feature of c.
InsertsGeometry(db, new, c, key) ==
  /\ HasCollection(db, c)
  /\ \E f \in DOMAIN db.features, traj \in Trajectories, geometry \in BOOLEAN :
        /\ IsFilled(traj)
        /\ IF geometry THEN HasFeature(db, c, f) ELSE Batched(c, f)
        /\ new = InsertGeometryRow(db, key, f, c, traj, geometry)
AppendsInstant(db, new, c) ==
  \E f \in FeatureIds, instant \in SUBSET Instants :
     /\ f \in DOMAIN db.features /\ Batched(c, f)
     /\ new = UpdateTrajectories(db,
                [g \in GeometriesOf(db, f) |-> AppendInstant(db.geometries[g].traj, instant)])
\* A member of a geometry that has others is removed, and that of the same
\* index from the other geometries of its feature.
RemovesMember(db, new, c) ==
  \E f \in FeatureIds, n \in Int : LET rows == GeometriesIn(db, c, f) IN
     /\ HasFeature(db, c, f)
     /\ \E g \in rows : LET traj == db.geometries[g].traj IN
           n \in DOMAIN traj /\ Len(traj) > 1
     /\ new = UpdateTrajectories(db,
                [g \in rows |-> RemoveMember(db.geometries[g].traj, n)])
InsertsProperty(db, new, key) ==
  \E f \in DOMAIN db.features, name \in PropertyNames :
     PropertiesNamed(db, f, name) = {} /\ new = InsertPropertyRow(db, key, f, name)
InsertsValues(db, new, key) ==
  \E p \in DOMAIN db.properties, r \in Requests :
     /\ r.times # <<>> => Continues(db, p, Head(r.times))
     /\ ValuesOf(db, p) = {} \/ Len(r.times) = Len(r.values)
     /\ new = InsertValuesRow(db, key, p, r)

\* The statements that draw no key, and those that do.
Alters(db, new, c) ==
  \/ CreatesTables(db, new) \/ PutsCollection(db, new, c) \/ DeletesCollection(db, new, c)
  \/ InsertsFeature(db, new, c) \/ DeletesFeature(db, new, c) \/ DeletesProperties(db, new)
  \/ AppendsInstant(db, new, c) \/ RemovesMember(db, new, c)
Adds(db, new, c, key) ==
  InsertsGeometry(db, new, c, key) \/ InsertsProperty(db, new, key) \/ InsertsValues(db, new, key)

KeysDrawn(db, n) ==
  /\ \A g \in DOMAIN db.geometries : g <= n
  /\ \A p \in DOMAIN db.properties : p <= n
  /\ \A v \in DOMAIN db.values : v <= n

-----------------------------------------------------------------------------
(* What a statement does to the tables, by kind.                           *)

\* The statements that leave geometries, properties and values alone.
FewTables(db, new) ==
  /\ new.geometries = db.geometries /\ new.properties = db.properties
  /\ new.values = db.values

\* Tables are created, none of those that are there changes.
TablesCreated(db, new, group) ==
  /\ new.collections = db.collections /\ new.features = db.features
  /\ FewTables(db, new) /\ new.ddl = db.ddl \cup group

\* That is what CREATE TABLE IF NOT EXISTS does,
LEMMA CreateTablesFields ==
  ASSUME NEW db, IsDatabase(db), NEW group, NEW new, new = CreateTables(db, group)
  PROVE  TablesCreated(db, new, group)
  BY DEF CreateTables, IsDatabase, FewTables, TablesCreated

\* A collection is inserted or renamed.
CollectionPut(db, new, c) ==
  /\ DOMAIN new.collections = DOMAIN db.collections \cup {c}
  /\ \A d \in DOMAIN db.collections \ {c} : new.collections[d] = db.collections[d]
  /\ new.features = db.features /\ FewTables(db, new) /\ new.ddl = db.ddl

\* what INSERT or UPDATE of a collection does,
LEMMA PutCollectionRowFields ==
  ASSUME NEW db, IsDatabase(db), NEW c, NEW title, NEW new, new = PutCollectionRow(db, c, title)
  PROVE  CollectionPut(db, new, c)
<1>1. /\ new.collections = Extend(db.collections, c, title)
      /\ new.features = db.features /\ FewTables(db, new) /\ new.ddl = db.ddl
  BY DEF PutCollectionRow, IsDatabase, FewTables
<1>2. QED
  BY <1>1 DEF Extend, CollectionPut

\* A feature is inserted, with an extent that is not set.
FeatureInserted(db, new, f, c) ==
  /\ new.collections = db.collections /\ FewTables(db, new) /\ new.ddl = db.ddl
  /\ DOMAIN new.features = DOMAIN db.features \cup {f}
  /\ new.features[f] = [cid |-> c, extent |-> {}]
  /\ \A e \in DOMAIN db.features \ {f} : new.features[e] = db.features[e]

\* what the INSERT of a feature does,
LEMMA InsertFeatureRowFields ==
  ASSUME NEW db, IsDatabase(db), NEW f, NEW c, NEW new, new = InsertFeatureRow(db, f, c)
  PROVE  FeatureInserted(db, new, f, c)
<1>1. /\ new.features = Extend(db.features, f, [cid |-> c, extent |-> {}])
      /\ new.collections = db.collections /\ FewTables(db, new) /\ new.ddl = db.ddl
  BY DEF InsertFeatureRow, IsDatabase, FewTables
<1>2. QED
  BY <1>1 DEF Extend, FeatureInserted

\* A property is inserted.
PropertyInserted(db, new, p, f, name) ==
  /\ new.collections = db.collections /\ new.features = db.features
  /\ new.geometries = db.geometries /\ new.values = db.values /\ new.ddl = db.ddl
  /\ DOMAIN new.properties = DOMAIN db.properties \cup {p}
  /\ new.properties[p] = [fid |-> f, name |-> name]
  /\ \A q \in DOMAIN db.properties \ {p} : new.properties[q] = db.properties[q]

\* what the INSERT of a property does,
LEMMA InsertPropertyRowFields ==
  ASSUME NEW db, IsDatabase(db), NEW p, NEW f, NEW name,
         NEW new, new = InsertPropertyRow(db, p, f, name)
  PROVE  PropertyInserted(db, new, p, f, name)
<1>1. /\ new.properties = Extend(db.properties, p, [fid |-> f, name |-> name])
      /\ new.collections = db.collections /\ new.features = db.features
      /\ new.geometries = db.geometries /\ new.values = db.values /\ new.ddl = db.ddl
  BY DEF InsertPropertyRow, IsDatabase
<1>2. QED
  BY <1>1 DEF Extend, PropertyInserted

\* Values are inserted.
ValuesInserted(db, new, v, p, body) ==
  /\ new.collections = db.collections /\ new.features = db.features
  /\ new.geometries = db.geometries /\ new.properties = db.properties
  /\ new.ddl = db.ddl
  /\ DOMAIN new.values = DOMAIN db.values \cup {v}
  /\ new.values[v] = [pid |-> p, times |-> body.times, values |-> body.values]
  /\ \A w \in DOMAIN db.values \ {v} : new.values[w] = db.values[w]

\* and what the INSERT of values does.
LEMMA InsertValuesRowFields ==
  ASSUME NEW db, IsDatabase(db), NEW v, NEW p, NEW body,
         NEW new, new = InsertValuesRow(db, v, p, body)
  PROVE  ValuesInserted(db, new, v, p, body)
<1>1. /\ new.values =
            Extend(db.values, v, [pid |-> p, times |-> body.times, values |-> body.values])
      /\ new.collections = db.collections /\ new.features = db.features
      /\ new.geometries = db.geometries /\ new.properties = db.properties
      /\ new.ddl = db.ddl
  BY DEF InsertValuesRow, IsDatabase
<1>2. QED
  BY <1>1 DEF Extend, ValuesInserted

\* Both statements that update trajectories write trajectories.
LEMMA UpdatedTrajectories ==
  ASSUME NEW db, IsDatabase(db), NEW new, NEW c,
         AppendsInstant(db, new, c) \/ RemovesMember(db, new, c)
  PROVE  \E trajs :
           /\ \A g \in DOMAIN trajs : trajs[g] \in Trajectories
           /\ new = UpdateTrajectories(db, trajs)
<1>1. \A g \in DOMAIN db.geometries : db.geometries[g].traj \in Trajectories
  BY DEF IsDatabase, IsTable, GeometryRow
<1>2. CASE AppendsInstant(db, new, c)
  <2>1. PICK f \in FeatureIds, instant \in SUBSET Instants :
          new = UpdateTrajectories(db,
                  [g \in GeometriesOf(db, f) |-> AppendInstant(db.geometries[g].traj, instant)])
    BY <1>2 DEF AppendsInstant
  <2> DEFINE trajs == [g \in GeometriesOf(db, f) |-> AppendInstant(db.geometries[g].traj, instant)]
  <2>2. \A g \in DOMAIN trajs : trajs[g] \in Trajectories
    BY <1>1, AppendInstantType DEF GeometriesOf
  <2>3. QED
    BY <2>1, <2>2
<1>3. CASE RemovesMember(db, new, c)
  <2>1. PICK f \in FeatureIds, n \in Int :
          new = UpdateTrajectories(db,
                  [g \in GeometriesIn(db, c, f) |-> RemoveMember(db.geometries[g].traj, n)])
    BY <1>3 DEF RemovesMember
  <2> DEFINE trajs == [g \in GeometriesIn(db, c, f) |-> RemoveMember(db.geometries[g].traj, n)]
  <2>2. \A g \in DOMAIN trajs : trajs[g] \in Trajectories
    BY <1>1, RemoveMemberType DEF GeometriesIn, GeometriesOf
  <2>3. QED
    BY <2>1, <2>2
<1>4. QED
  BY <1>2, <1>3

\* What an UPDATE of trajectories keeps of the rows.
RowsUpdated(db, new) ==
  /\ new.collections = db.collections /\ new.properties = db.properties
  /\ new.values = db.values /\ new.ddl = db.ddl
  /\ DOMAIN new.geometries = DOMAIN db.geometries
  /\ \A g \in DOMAIN db.geometries :
       /\ new.geometries[g].fid = db.geometries[g].fid
       /\ new.geometries[g].cid = db.geometries[g].cid
       /\ new.geometries[g].geometry = db.geometries[g].geometry
  /\ DOMAIN new.features = DOMAIN db.features
  /\ \A e \in DOMAIN db.features : new.features[e].cid = db.features[e].cid

\* That holds of both statements that update trajectories.
LEMMA UpdatedFields ==
  ASSUME NEW db, IsDatabase(db), NEW new, NEW c,
         AppendsInstant(db, new, c) \/ RemovesMember(db, new, c)
  PROVE  RowsUpdated(db, new)
<1>1. PICK trajs : /\ \A g \in DOMAIN trajs : trajs[g] \in Trajectories
                   /\ new = UpdateTrajectories(db, trajs)
  BY UpdatedTrajectories
<1>2. \A e \in DOMAIN db.features :
        [db.features[e] EXCEPT !.extent = ExtentOf(new, e)].cid = db.features[e].cid
  BY DEF IsDatabase, IsTable, FeatureRow
<1>3. TrajectoriesUpdated(db, new, trajs)
  BY <1>1, UpdateTrajectoriesFields
<1>4. QED
  BY <1>2, <1>3 DEF TrajectoriesUpdated, RowsUpdated

-----------------------------------------------------------------------------
(* The tables after a statement of each kind.                              *)

\* A statement that draws no key did one of these.
AlteredTables(db, new, c) ==
  \/ \E group : TablesCreated(db, new, group)
  \/ CollectionPut(db, new, c)
  \/ CollectionDeleted(db, new, c)
  \/ /\ HasCollection(db, c)
     /\ \E f \in FeatureIds \ DOMAIN db.features :
          Created(c, f) /\ FeatureInserted(db, new, f, c)
  \/ \E f : HasFeature(db, c, f) /\ FeaturesDeleted(db, new, {f})
  \/ \E P : PropertiesDeleted(db, new, P)
  \/ (AppendsInstant(db, new, c) \/ RemovesMember(db, new, c)) /\ RowsUpdated(db, new)

\* A statement that draws key n did one of these.
AddedTables(db, new, c, n) ==
  \/ /\ HasCollection(db, c)
     /\ \E f \in DOMAIN db.features, traj \in Trajectories, geometry \in BOOLEAN :
           /\ IsFilled(traj)
           /\ IF geometry THEN HasFeature(db, c, f) ELSE Batched(c, f)
           /\ GeometryInserted(db, new, n, f, c, traj, geometry)
  \/ \E f \in DOMAIN db.features, name \in PropertyNames :
        PropertiesNamed(db, f, name) = {} /\ PropertyInserted(db, new, n, f, name)
  \/ \E p \in DOMAIN db.properties, r \in Requests :
        /\ r.times # <<>> => Continues(db, p, Head(r.times))
        /\ ValuesOf(db, p) = {} \/ Len(r.times) = Len(r.values)
        /\ ValuesInserted(db, new, n, p, r)

\* Which is so for every statement.
LEMMA Altered ==
  ASSUME NEW db, IsDatabase(db), NEW new, NEW c, Alters(db, new, c)
  PROVE  AlteredTables(db, new, c)
<1>1. CASE CreatesTables(db, new)
  BY <1>1, CreateTablesFields DEF CreatesTables, AlteredTables
<1>2. CASE PutsCollection(db, new, c)
  BY <1>2, PutCollectionRowFields DEF PutsCollection, AlteredTables
<1>3. CASE DeletesCollection(db, new, c)
  BY <1>3, DeleteCollectionRowFields DEF DeletesCollection, AlteredTables
<1>4. CASE InsertsFeature(db, new, c)
  BY <1>4, InsertFeatureRowFields DEF InsertsFeature, AlteredTables
<1>5. CASE DeletesFeature(db, new, c)
  <2>1. PICK f : HasFeature(db, c, f) /\ new = DeleteFeatures(db, {f})
    BY <1>5 DEF DeletesFeature
  <2>2. FeaturesDeleted(db, new, {f})
    BY <2>1, DeleteFeaturesFields
  <2>3. QED
    BY <2>1, <2>2 DEF AlteredTables
<1>6. CASE DeletesProperties(db, new)
  BY <1>6, DeletePropertiesFields DEF DeletesProperties, AlteredTables
<1>7. CASE AppendsInstant(db, new, c) \/ RemovesMember(db, new, c)
  BY <1>7, UpdatedFields DEF AlteredTables
<1>8. QED
  BY <1>1, <1>2, <1>3, <1>4, <1>5, <1>6, <1>7 DEF Alters

\* A drawn key is fresh.
LEMMA Added ==
  ASSUME NEW db, IsDatabase(db), NEW n \in Nat, KeysDrawn(db, n), NEW new,
         NEW c \in CollectionIds, Adds(db, new, c, n + 1)
  PROVE  AddedTables(db, new, c, n + 1)
<1>1. CASE InsertsGeometry(db, new, c, n + 1)
  <2>1. PICK f \in DOMAIN db.features, traj \in Trajectories, geometry \in BOOLEAN :
          /\ IsFilled(traj)
          /\ IF geometry THEN HasFeature(db, c, f) ELSE Batched(c, f)
          /\ new = InsertGeometryRow(db, n + 1, f, c, traj, geometry)
    BY <1>1 DEF InsertsGeometry
  <2>2. n + 1 \in Nat \ DOMAIN db.geometries /\ f \in FeatureIds
    BY DEF KeysDrawn, IsDatabase, IsTable
  <2>3. GeometryInserted(db, new, n + 1, f, c, traj, geometry)
    BY <2>1, <2>2, InsertGeometryRowFields
  <2>4. QED
    BY <1>1, <2>1, <2>3 DEF InsertsGeometry, AddedTables
<1>2. CASE InsertsProperty(db, new, n + 1)
  BY <1>2, InsertPropertyRowFields DEF InsertsProperty, AddedTables
<1>3. CASE InsertsValues(db, new, n + 1)
  BY <1>3, InsertValuesRowFields DEF InsertsValues, AddedTables
<1>4. QED
  BY <1>1, <1>2, <1>3 DEF Adds

-----------------------------------------------------------------------------
(* Foreign keys.                                                           *)

\* Every statement that draws no key keeps the foreign keys,
LEMMA ReferencesKept ==
  ASSUME NEW db, IsDatabase(db), ReferencesHold(db), NEW n \in Nat, KeysDrawn(db, n),
         NEW new, NEW c, AlteredTables(db, new, c)
  PROVE  ReferencesHold(new) /\ KeysDrawn(new, n)
<1> USE DEF ReferencesHold, KeysDrawn
<1>1. CASE \E group : TablesCreated(db, new, group)
  BY <1>1 DEF TablesCreated, FewTables
<1>2. CASE CollectionPut(db, new, c)
  BY <1>2 DEF CollectionPut, FewTables
<1>3. CASE CollectionDeleted(db, new, c)
  BY <1>3 DEF CollectionDeleted, SubTable
<1>4. CASE HasCollection(db, c) /\ \E f \in FeatureIds \ DOMAIN db.features : FeatureInserted(db, new, f, c)
  BY <1>4 DEF HasCollection, FeatureInserted, FewTables
<1>5. CASE \E f : FeaturesDeleted(db, new, {f})
  BY <1>5 DEF FeaturesDeleted, SubTable
<1>6. CASE \E P : PropertiesDeleted(db, new, P)
  BY <1>6 DEF PropertiesDeleted, SubTable
<1>7. CASE RowsUpdated(db, new)
  BY <1>7 DEF RowsUpdated
<1>8. QED
  BY <1>1, <1>2, <1>3, <1>4, <1>5, <1>6, <1>7 DEF AlteredTables

\* and so does every statement that draws one.
LEMMA ReferencesGrown ==
  ASSUME NEW db, IsDatabase(db), ReferencesHold(db), NEW n \in Nat, KeysDrawn(db, n),
         NEW new, NEW c \in CollectionIds, AddedTables(db, new, c, n + 1)
  PROVE  ReferencesHold(new) /\ KeysDrawn(new, n + 1)
<1> USE DEF ReferencesHold, KeysDrawn
<1>1. \A k \in Nat : k <= n => k <= n + 1 /\ k # n + 1
  OBVIOUS
<1>2. CASE HasCollection(db, c) /\ \E f \in DOMAIN db.features, traj \in Trajectories, geometry \in BOOLEAN :
             GeometryInserted(db, new, n + 1, f, c, traj, geometry)
  <2>1. PICK f \in DOMAIN db.features, traj \in Trajectories, geometry \in BOOLEAN :
          GeometryInserted(db, new, n + 1, f, c, traj, geometry)
    BY <1>2
  <2>2. \A e \in DOMAIN db.features :
          [db.features[e] EXCEPT !.extent = ExtentOf(new, e)].cid = db.features[e].cid
    BY DEF IsDatabase, IsTable, FeatureRow
  <2>3. \A e \in DOMAIN new.features : new.features[e].cid = db.features[e].cid
    BY <2>1, <2>2 DEF GeometryInserted
  <2>4. QED
    BY <1>1, <1>2, <2>1, <2>3 DEF GeometryInserted, HasCollection, IsDatabase, IsTable
<1>3. CASE \E f \in DOMAIN db.features, name \in PropertyNames : PropertyInserted(db, new, n + 1, f, name)
  BY <1>1, <1>3 DEF PropertyInserted, IsDatabase, IsTable
<1>4. CASE \E p \in DOMAIN db.properties, r \in Requests : ValuesInserted(db, new, n + 1, p, r)
  BY <1>1, <1>4 DEF ValuesInserted, IsDatabase, IsTable
<1>5. QED
  BY <1>2, <1>3, <1>4 DEF AddedTables

-----------------------------------------------------------------------------
(* What a handler knows at each of its steps.  An earlier step checked that *)
(* the collection, the feature or the property is there, and nothing the    *)
(* thread or its environment does in between takes it away without closing  *)
(* the session or aborting the transaction.                                 *)

\* The items that are left come from the request, those of a batch as it names
\* them.
NamedTodo ==
  \A n \in DOMAIN todo : req \in Requests /\ Creates(req, todo[n].id)
FilledTodo == \A n \in DOMAIN todo : todo[n].kind = "ok" => IsFilled(todo[n].traj)
Checked ==
  /\ pc \in FeatureLabels \cup BatchLabels => HasCollection(work, req.cid)
  /\ pc = "insert geometry" => HasFeature(work, req.cid, Head(todo).id)
  /\ pc = "append instant" => Head(todo).id \in DOMAIN work.features
  /\ pc \in {"property", "insert values"} => \A p \in Named : ValuesOf(work, p) = {}
Located == FilledTodo /\ NamedTodo /\ (tx = "ok" => Checked)

\* What a step does to the database: nothing, an end of the transaction, or
\* one statement of the request being served.
Settles ==
  /\ work' = disk'
  /\ \/ disk' = disk
     \/ disk' = work /\ (pc \in DOMAIN AfterCommit \/ "interrupt" \in Faults)
Executes ==
  /\ pc \in Executing /\ tx = "ok" /\ tx' = "ok" /\ disk' = disk /\ req' = req
  /\ \/ serial' = serial /\ Alters(work, work', req.cid)
     \/ serial' = serial + 1 /\ Adds(work, work', req.cid, serial')
Effect ==
  \/ serial' = serial /\ (UNCHANGED <<disk, work>> \/ Settles)
  \/ Executes

\* The item a loop takes has a trajectory that is not empty.
LEMMA HeadFilled ==
  ASSUME TypeInv, Located, todo # <<>>, Head(todo).kind = "ok"
  PROVE  IsFilled(Head(todo).traj) /\ Head(todo).traj \in Trajectories
<1>1. todo \in Seq(Items)
  BY DEF TypeInv, TypeOK
<1>2. Head(todo) = todo[1] /\ 1 \in DOMAIN todo /\ Head(todo) \in Items
  BY <1>1, HeadTailType
<1>3. QED
  BY <1>2 DEF Located, FilledTodo, Items

\* It has an id under which the request creates,
LEMMA HeadNamed ==
  ASSUME NamedTodo, todo # <<>>, todo \in Seq(Items)
  PROVE  req \in Requests /\ Creates(req, Head(todo).id)
<1>1. Head(todo) = todo[1] /\ 1 \in DOMAIN todo
  BY HeadTailType
<1>2. QED
  BY <1>1 DEF NamedTodo

\* and so does the row that is inserted for an item without one.
LEMMA FreshCreated ==
  ASSUME NEW r \in Requests, NEW given, Creates(r, given), NEW id \in Keys(given)
  PROVE  Creates(r, id)
<1>1. CASE given # NoId
  BY <1>1 DEF Keys
<1>2. CASE given = NoId
  <2>1. r.fid \in FeatureIds /\ NoId \notin FeatureIds /\ r.items \in Seq(Items)
    BY RequestsAssumption DEF Request
  <2>2. r.op # "put_single_moving_feature"
    BY <1>2, <2>1 DEF Creates
  <2>3. NoId \in GivenIds(r)
    BY <1>2, <2>1 DEF Creates
  <2>4. r.op # "post_bulk"
    BY <2>1, <2>3, RequestsAssumption DEF GivenIds
  <2>5. QED
    BY <1>2, <2>2, <2>3, <2>4 DEF Creates
<1>3. QED
  BY <1>1, <1>2

\* Every step has one of these effects.
LEMMA StepEffect ==
  ASSUME TypeInv, Located, ReferencesHold(work), [Next]_vars
  PROVE  Effect
<1> USE DEF At, Handles
<1>1. ASSUME NEW status,
             Answer(status) \/ AnswerInExcept(status) \/ Raise(status) \/ StatementFails(status)
      PROVE  Effect
  BY <1>1 DEF Answer, AnswerInExcept, Raise, StatementFails, store, Effect, Settles
<1>2. ASSUME UNCHANGED store
      PROVE  Effect
  BY <1>2 DEF store, Effect
<1>3. ASSUME NEW db, NEW l, pc \in Executing, Usable, Execute(db, l), serial' = serial,
             Alters(work, db, req.cid)
      PROVE  Effect
  BY <1>3 DEF Usable, Execute, request, Effect, Executes
<1>4. ASSUME NEW db, NEW l, pc \in Executing, Usable, Execute(db, l), Draw,
             Adds(work, db, req.cid, serial')
      PROVE  Effect
  BY <1>4 DEF Usable, Execute, Draw, request, Effect, Executes
<1>5. ASSUME NEW db, NEW status, pc \in Executing, Usable, ExecuteLast(db, status),
             Alters(work, db, req.cid)
      PROVE  Effect
  BY <1>3, <1>5 DEF ExecuteLast
<1>6. {"check", "insert collection", "insert values", "feature", "insert feature",
       "insert geometry", "observe", "append instant"} = Executing
  BY DEF Executing
<1>7. pc # "idle" => /\ req \in Requests /\ req.cid \in CollectionIds /\ req.fid \in FeatureIds
                     /\ req.title \in Titles /\ req.name \in PropertyNames
                     /\ req.n \in Int /\ req.items \in Seq(Items)
  BY RequestType DEF TypeInv, Request
<1>8. CASE ReadBody \/ Read \/ StatementError \/ Respond \/ Receive
  <2>1. CASE ReadBody
    BY ZenonT(60), <1>1, <1>2, <2>1 DEF ReadBody, Goto
  <2>2. CASE Read
    BY <1>1, <2>2 DEF Read
  <2>3. CASE StatementError
    BY <1>1, <2>3 DEF StatementError
  <2>4. CASE Respond \/ Receive
    BY <1>2, <2>4 DEF Respond, Receive
  <2>5. QED
    BY <1>8, <2>1, <2>2, <2>3, <2>4
<1>9. CASE Commit \/ Except \/ ClientGone \/ DatabaseRestart \/ Kill \/ Interrupt
  BY <1>9
  DEF Commit, Except, ClientGone, DatabaseRestart, Kill, Interrupt, Rollback, store, Effect,
      Settles
<1>10. CASE post_collections \/ post_collections_insert \/ put_collection \/ delete_collection
  <2>1. CASE Answer(404) \/ Answer(400) \/ Answer(409)
    BY <1>1, <2>1
  <2>2. pc # "idle" /\ pc \in Executing /\ Usable
    BY <1>6, <1>10
    DEF post_collections, put_collection, delete_collection, post_collections_insert
  <2>3. CASE Execute(CreateTables(work, {"core"}), "tables") /\ serial' = serial
    BY <1>3, <2>2, <2>3 DEF Alters, CreatesTables, TableGroups
  <2>4. CASE \E status : ExecuteLast(PutCollectionRow(work, req.cid, req.title), status)
    BY <1>5, <1>7, <2>2, <2>4 DEF Alters, PutsCollection
  <2>5. CASE ExecuteLast(DeleteCollectionRow(work, req.cid), 204)
    BY <1>5, <2>2, <2>5 DEF Alters, DeletesCollection
  <2>6. QED
    BY ZenonT(60), <1>10, <2>1, <2>3, <2>4, <2>5
    DEF post_collections, put_collection, delete_collection, post_collections_insert
<1>11. CASE post_collection_items \/ put_single_moving_feature \/ delete_single_moving_feature
  <2>1. CASE \E status : Answer(status) \/ Raise(status)
    BY <1>1, <2>1
  <2>2. CASE UNCHANGED <<store, request>>
    BY <1>2, <2>2
  <2>3. pc # "idle" /\ pc \in Executing /\ Usable
    BY <1>6, <1>11
    DEF post_collection_items, put_single_moving_feature, delete_single_moving_feature
  <2>4. CASE ExecuteLast(work, 404)
    BY <2>4 DEF ExecuteLast, Execute, Effect
  <2>5. CASE HasFeature(work, req.cid, req.fid)
             /\ ExecuteLast(DeleteFeatures(work, {req.fid}), 204)
    BY <1>5, <2>3, <2>5 DEF Alters, DeletesFeature
  <2>6. CASE /\ HasFeature(work, req.cid, req.fid) /\ serial' = serial
             /\ Execute(DeleteFeatures(work, {req.fid}), "feature")
    BY <1>3, <2>3, <2>6 DEF Alters, DeletesFeature
  <2>7. QED
    BY ZenonT(60), <1>11, <2>1, <2>2, <2>4, <2>5, <2>6
    DEF post_collection_items, put_single_moving_feature, delete_single_moving_feature
<1>12. CASE insert_feature_tables
  <2>1. CASE Raise(ExceptStatus(req.op, "DataError"))
    BY <1>1, <2>1
  <2>2. CASE /\ Usable /\ serial' = serial
             /\ Execute(CreateTables(work, {"core", "features"}), "features")
    BY <1>3, <1>6, <1>12, <2>2 DEF insert_feature_tables, Alters, CreatesTables, TableGroups
  <2>3. QED
    BY <1>12, <2>1, <2>2 DEF insert_feature_tables
<1>13. CASE insert_feature_row
  <2>1. /\ pc = "insert feature" /\ Usable /\ tx' = tx /\ UNCHANGED <<disk, serial, req>>
    BY <1>13 DEF insert_feature_row, request
  <2>2. PICK id \in Keys(Head(todo).id) :
          work' = IF id \notin DOMAIN work.features THEN InsertFeatureRow(work, id, req.cid)
                                                    ELSE work
    BY <1>13 DEF insert_feature_row
  <2>3. id \in FeatureIds /\ HasCollection(work, req.cid) /\ Created(req.cid, id)
    <3>1. todo \in Seq(Items) /\ todo # <<>>
      BY <2>1 DEF TypeInv, TypeOK, Control, FeatureLabels
    <3>2. Head(todo) \in Items
      BY <3>1, HeadTailType
    <3>3. id \in FeatureIds /\ HasCollection(work, req.cid)
      BY <2>1, <2>2, <3>2 DEF Keys, Items, Located, Checked, Usable, FeatureLabels
    <3>4. req \in Requests /\ Creates(req, Head(todo).id)
      BY <3>1, HeadNamed DEF Located
    <3>5. Creates(req, id)
      BY <2>2, <3>4, FreshCreated
    <3>6. QED
      BY <3>3, <3>4, <3>5 DEF Created
  <2>4. CASE id \in DOMAIN work.features
    BY <2>1, <2>2, <2>4 DEF Effect
  <2>5. CASE id \notin DOMAIN work.features
    <3>1. InsertsFeature(work, work', req.cid)
      BY <2>2, <2>3, <2>5 DEF InsertsFeature
    <3>2. QED
      BY <1>6, <2>1, <3>1 DEF Effect, Executes, Alters, Usable
  <2>6. QED
    BY <2>4, <2>5
<1>14. CASE insert_feature_geometry
  <2>1. pc = "insert geometry" /\ Usable /\ todo # <<>> /\ HasFeature(work, req.cid, Head(todo).id)
        /\ HasCollection(work, req.cid)
    BY <1>14
    DEF insert_feature_geometry, TypeInv, Control, FeatureLabels, Located, Checked, Usable
  <2>2. CASE \E kind \in {"does not exist", "other"} : StatementFails(ExceptStatus(req.op, kind))
    BY <1>1, <2>2
  <2>3. CASE /\ Head(todo).kind = "ok" /\ Draw
             /\ Execute(InsertGeometryRow(work, serial', Head(todo).id, req.cid,
                                          Head(todo).traj, TRUE),
                        NextItem(Tail(todo), "feature"))
    <3>1. IsFilled(Head(todo).traj) /\ Head(todo).traj \in Trajectories
      BY <2>1, <2>3, HeadFilled
    <3>2. Head(todo).id \in DOMAIN work.features
      BY <2>1 DEF HasFeature
    <3>3. InsertsGeometry(work, InsertGeometryRow(work, serial', Head(todo).id, req.cid,
                                                  Head(todo).traj, TRUE), req.cid, serial')
      BY <2>1, <3>1, <3>2 DEF InsertsGeometry
    <3>4. QED
      BY <1>4, <1>6, <2>1, <2>3, <3>3 DEF Adds
  <2>4. QED
    BY <1>14, <2>2, <2>3 DEF insert_feature_geometry
<1>15. CASE post_bulk
  <2>1. CASE \E status : Answer(status) \/ Raise(status)
    BY <1>1, <2>1
  <2>2. CASE UNCHANGED <<store, request>>
    BY <1>2, <2>2
  <2>3. QED
    BY <1>15, <2>1, <2>2, ZenonT(60) DEF post_bulk
<1>16. CASE append_observations_row
  <2> DEFINE id == Head(todo).id
  <2>1. /\ pc = "observe" /\ Usable /\ tx' = tx /\ UNCHANGED <<disk, serial, req>>
    BY <1>16 DEF append_observations_row, request
  <2>2. id \in FeatureIds /\ HasCollection(work, req.cid) /\ Created(req.cid, id)
    <3>1. todo \in Seq(Items) /\ todo # <<>>
      BY <2>1, HeadObservation DEF BatchLabels
    <3>2. req \in Requests /\ Creates(req, id)
      BY <3>1, HeadNamed DEF Located
    <3>3. QED
      BY <2>1, <3>2, HeadObservation DEF BatchLabels, Located, Checked, Usable, Created
  <2>3. CASE id \in DOMAIN work.features
    BY <1>16, <2>1, <2>3 DEF append_observations_row, Effect
  <2>4. CASE id \notin DOMAIN work.features
    <3>1. InsertsFeature(work, work', req.cid)
      BY <1>16, <2>2, <2>4 DEF append_observations_row, InsertsFeature
    <3>2. QED
      BY <1>6, <2>1, <3>1 DEF Effect, Executes, Alters, Usable
  <2>5. QED
    BY <2>3, <2>4
<1>17. CASE append_observations_instant
  <2> DEFINE id == Head(todo).id
             instant == Head(todo).traj[1]
             rows == GeometriesOf(work, id)
  <2>1. pc = "append instant" /\ Usable /\ pc \in BatchLabels
    BY <1>17 DEF append_observations_instant, BatchLabels
  <2>2. /\ HasCollection(work, req.cid) /\ id \in DOMAIN work.features /\ Batched(req.cid, id)
        /\ id \in FeatureIds /\ instant \in SUBSET Instants /\ todo # <<>>
        /\ Head(todo).kind = "ok"
    <3>1. todo \in Seq(Items) /\ todo # <<>>
      BY <2>1, HeadObservation
    <3>2. Head(todo) = todo[1] /\ 1 \in DOMAIN todo
      BY <3>1, HeadTailType
    <3>3. req.op = "post_bulk" /\ Observation(Head(todo))
      BY <2>1, <3>2 DEF TypeInv, Control
    <3>4. req \in Requests /\ Creates(req, id)
      BY <3>1, HeadNamed DEF Located
    <3>5. QED
      BY <1>7, <2>1, <3>1, <3>3, <3>4, HeadObservation
      DEF Located, Checked, Usable, Batched, Observation
  <2>3. CASE StatementFails(ExceptStatus(req.op, "not increasing"))
    BY <1>1, <2>3
  <2>4. CASE /\ serial' = serial
             /\ Execute(UpdateTrajectories(work,
                           [g \in rows |-> AppendInstant(work.geometries[g].traj, instant)]),
                        NextItem(Tail(todo), "observe"))
    BY <1>3, <1>6, <2>1, <2>2, <2>4 DEF Alters, AppendsInstant
  <2>5. CASE /\ Draw
             /\ Execute(InsertGeometryRow(work, serial', id, req.cid, Head(todo).traj, FALSE),
                        NextItem(Tail(todo), "observe"))
    <3>1. IsFilled(Head(todo).traj) /\ Head(todo).traj \in Trajectories
      BY <2>2, HeadFilled
    <3>2. InsertsGeometry(work, InsertGeometryRow(work, serial', id, req.cid,
                                                  Head(todo).traj, FALSE), req.cid, serial')
      BY <2>2, <3>1 DEF InsertsGeometry
    <3>3. QED
      BY <1>4, <1>6, <2>1, <2>5, <3>2 DEF Adds
  <2>6. QED
    BY <1>17, <2>3, <2>4, <2>5 DEF append_observations_instant
<1>18. CASE post_tgsequence
  <2>1. pc \in Executing /\ Usable /\ pc = "check" /\ req.op = "post_tgsequence"
    BY <1>6, <1>18 DEF post_tgsequence
  <2>2. CASE Answer(404) \/ StatementFails(500)
    BY <1>1, <2>2
  <2>3. CASE /\ HasFeature(work, req.cid, req.fid) /\ req.items[1].kind = "ok" /\ Draw
             /\ Execute(InsertGeometryRow(work, serial', req.fid, req.cid,
                                          req.items[1].traj, TRUE), "finish")
    <3>1. 1 \in DOMAIN req.items /\ req.items[1] \in Items
      <4>1. req.form # "bad json"
        BY <2>1 DEF TypeInv, Control
      <4>2. Len(req.items) = 1
        <5>1. \A r \in Requests : r.op = "post_tgsequence" /\ r.form # "bad json" => Len(r.items) = 1
          BY RequestsAssumption
        <5>2. QED
          BY <1>7, <2>1, <4>1, <5>1
      <4>3. req.items \in Seq(Items)
        BY <1>7, <2>1
      <4>4. QED
        BY <4>2, <4>3
    <3>2. IsFilled(req.items[1].traj) /\ req.items[1].traj \in Trajectories
      BY <1>7, <2>1, <2>3, <3>1, TrajectoriesAssumption DEF IsFilled, Items
    <3>3. HasCollection(work, req.cid)
      BY <2>3 DEF ReferencesHold, HasFeature, HasCollection
    <3>4. InsertsGeometry(work, InsertGeometryRow(work, serial', req.fid, req.cid,
                                                  req.items[1].traj, TRUE), req.cid, serial')
      BY <2>3, <3>2, <3>3 DEF InsertsGeometry, HasFeature
    <3>5. QED
      BY <1>4, <2>1, <2>3, <3>4 DEF Adds
  <2>4. QED
    BY <1>18, <2>2, <2>3 DEF post_tgsequence

<1>19. CASE delete_single_temporal_primitive_geo
  <2> DEFINE rows == GeometriesIn(work, req.cid, req.fid)
             Traj(g) == work.geometries[g].traj
  <2>1. pc \in Executing /\ Usable /\ pc = "check"
    BY <1>6, <1>19 DEF delete_single_temporal_primitive_geo
  <2>2. CASE Answer(404) \/ Answer(400) \/ Answer(409) \/ StatementFails(500)
    BY <1>1, <2>2
  <2>3. CASE /\ HasFeature(work, req.cid, req.fid)
             /\ \E g \in rows : req.n \in DOMAIN Traj(g) /\ Len(Traj(g)) > 1
             /\ ExecuteLast(UpdateTrajectories(work,
                              [g \in rows |-> RemoveMember(Traj(g), req.n)]), 204)
    <3>1. RemovesMember(work, UpdateTrajectories(work,
                                [g \in rows |-> RemoveMember(Traj(g), req.n)]), req.cid)
      BY <1>7, <2>1, <2>3 DEF RemovesMember
    <3>2. QED
      BY <1>5, <2>1, <2>3, <3>1 DEF Alters
  <2>4. QED
    BY <1>19, <2>2, <2>3 DEF delete_single_temporal_primitive_geo
<1>20. CASE NoSuchFeature \/ NoPropertyTables
  BY <1>1, <1>20 DEF NoSuchFeature, NoPropertyTables
<1>21. CASE post_tproperties
  <2>1. pc \in Executing /\ Usable /\ pc = "check" /\ HasFeature(work, req.cid, req.fid)
    BY <1>6, <1>21 DEF post_tproperties
  <2>2. CASE UNCHANGED store
    BY <1>2, <2>2
  <2>3. CASE Answer(400) \/ Answer(409) \/ Raise(500)
    BY <1>1, <2>3
  <2>4. CASE /\ Named = {} /\ Draw
             /\ Execute(InsertPropertyRow(work, serial', req.fid, req.name),
                        IF req.form = "ok" THEN "finish" ELSE "property")
    <3>1. InsertsProperty(work, InsertPropertyRow(work, serial', req.fid, req.name), serial')
      BY <1>7, <2>1, <2>4 DEF InsertsProperty, HasFeature, Named
    <3>2. QED
      BY <1>4, <2>1, <2>4, <3>1 DEF Adds
  <2>5. QED
    BY <1>21, <2>2, <2>3, <2>4 DEF post_tproperties
<1>22. CASE post_tproperties_values
  <2>1. pc = "insert values" /\ pc \in Executing /\ Usable
    BY <1>6, <1>22 DEF post_tproperties_values
  <2>2. CASE Raise(500) \/ StatementFails(500)
    BY <1>1, <2>2
  <2>3. CASE /\ Draw
             /\ \E p \in Named : Execute(InsertValuesRow(work, serial', p, req), "finish")
    <3>1. PICK p \in Named : Execute(InsertValuesRow(work, serial', p, req), "finish")
      BY <2>3
    <3>2. p \in DOMAIN work.properties
      BY <3>1 DEF Named, PropertiesNamed, PropertiesOf
    <3>3. ValuesOf(work, p) = {}
      BY <2>1, <3>1 DEF Located, Checked, Usable
    <3>4. InsertsValues(work, InsertValuesRow(work, serial', p, req), serial')
      BY <1>7, <2>1, <3>2, <3>3 DEF InsertsValues, Continues
    <3>5. QED
      BY <1>4, <2>1, <2>3, <3>1, <3>4 DEF Adds
  <2>4. QED
    BY <1>22, <2>2, <2>3 DEF post_tproperties_values
<1>23. CASE post_temporal_property
  <2>1. pc = "check" /\ pc \in Executing /\ Usable
    BY <1>6, <1>23 DEF post_temporal_property
  <2>2. CASE Answer(404) \/ Raise(500) \/ Answer(400)
    BY <1>1, <2>2
  <2>3. CASE \E p \in Named :
               /\ Continues(work, p, Head(req.times)) /\ Draw
               /\ Execute(InsertValuesRow(work, serial', p, req), "finish")
    <3>1. PICK p \in Named :
            /\ Continues(work, p, Head(req.times)) /\ Draw
            /\ Execute(InsertValuesRow(work, serial', p, req), "finish")
      BY <2>3
    <3>2. p \in DOMAIN work.properties
      BY <3>1 DEF Named, PropertiesNamed, PropertiesOf
    <3>a. Len(req.times) = Len(req.values)
      BY <1>23 DEF TypeInv, Control, post_temporal_property, Handles, At
    <3>3. InsertsValues(work, InsertValuesRow(work, serial', p, req), serial')
      BY <1>7, <2>1, <3>1, <3>2, <3>a DEF InsertsValues
    <3>4. QED
      BY <1>4, <2>1, <3>1, <3>3 DEF Adds
  <2>4. QED
    BY <1>23, <2>2, <2>3 DEF post_temporal_property
<1>24. CASE delete_temporal_property
  <2>1. pc \in Executing /\ Usable
    BY <1>6, <1>24 DEF delete_temporal_property
  <2>2. CASE Answer(404)
    BY <1>1, <2>2
  <2>3. CASE ExecuteLast(DeleteProperties(work, Named), 204)
    BY <1>5, <2>1, <2>3 DEF Alters, DeletesProperties
  <2>4. QED
    BY <1>24, <2>2, <2>3 DEF delete_temporal_property
<1>25. CASE UNCHANGED vars
  BY <1>2, <1>25 DEF vars
<1>26. QED
  BY <1>8, <1>9, <1>10, <1>11, <1>12, <1>13, <1>14, <1>15, <1>16, <1>17, <1>18, <1>19,
     <1>20, <1>21, <1>22, <1>23, <1>24, <1>25
  DEF Next, ServerStep, Environment

\* What a step does to the items that are left: it ends the loop, leaves them,
\* takes the first one, starts a loop, or gives the first one its id.
TodoMoves ==
  \/ todo' = <<>>
  \/ todo' = todo /\ (req' = req \/ pc = "idle")
  \/ req' = req /\ todo # <<>> /\ todo' = Tail(todo)
  \/ /\ req' = req /\ req \in Requests /\ todo' = req.items
     /\ req.op \in {"post_collection_items", "post_bulk"}
  \/ /\ req' = req /\ req \in Requests /\ req.op = "put_single_moving_feature"
     /\ \E item \in Items :
           /\ todo' = <<item>> /\ item.id = req.fid
           /\ item.kind = "ok" => IsFilled(item.traj)
  \/ /\ req' = req /\ todo # <<>>
     /\ \E id \in Keys(Head(todo).id) : todo' = [todo EXCEPT ![1].id = id]

\* Every step is one of these.
LEMMA TodoStep ==
  ASSUME TypeInv, [Next]_vars
  PROVE  TodoMoves
<1> USE DEF At, Handles
<1>1. ASSUME todo' = todo, req' = req \/ pc = "idle" PROVE TodoMoves
  BY <1>1 DEF TodoMoves
<1>2. ASSUME todo # <<>>, todo' = Tail(todo), req' = req PROVE TodoMoves
  BY <1>2 DEF TodoMoves
<1>3. ASSUME req \in Requests, todo' = req.items, req' = req,
             req.op \in {"post_collection_items", "post_bulk"}
      PROVE  TodoMoves
  BY <1>3 DEF TodoMoves
<1>4. ASSUME NEW status,
             Answer(status) \/ AnswerInExcept(status) \/ Raise(status) \/ StatementFails(status)
      PROVE  TodoMoves
  BY <1>1, <1>4 DEF Answer, AnswerInExcept, Raise, StatementFails, loop, request
<1>5. ASSUME UNCHANGED <<loop, req>> \/ Leave PROVE TodoMoves
  BY <1>1, <1>5 DEF loop, Leave, TodoMoves
<1>6. ASSUME NEW db, NEW status, ExecuteLast(db, status) PROVE TodoMoves
  BY <1>5, <1>6 DEF ExecuteLast, Execute, request
<1>7. pc # "idle" => req \in Requests /\ req.items \in Seq(Items)
  BY RequestType DEF TypeInv, Request
<1>8. pc \in FeatureLabels \cup BatchLabels => todo # <<>> /\ todo \in Seq(Items)
  BY DEF TypeInv, TypeOK, Control
<1>9. CASE post_collection_items \/ post_bulk
  <2>1. CASE \E status : Answer(status) \/ Raise(status)
    BY <1>4, <2>1
  <2>2. CASE todo' = req.items /\ UNCHANGED request
    <3>1. pc # "idle" /\ req.op \in {"post_collection_items", "post_bulk"}
      BY <1>9 DEF post_collection_items, post_bulk
    <3>2. QED
      BY <1>3, <1>7, <2>2, <3>1 DEF request
  <2>3. QED
    BY ZenonT(60), <1>9, <2>1, <2>2 DEF post_collection_items, post_bulk
<1>10. CASE put_single_moving_feature
  <2>1. CASE Answer(404)
    BY <1>4, <2>1
  <2>2. CASE todo' = <<[req.items[1] EXCEPT !.id = req.fid]>> /\ req' = req
    <3>1. /\ req \in Requests /\ req.items \in Seq(Items)
          /\ req.op = "put_single_moving_feature" /\ pc = "check"
      BY <1>7, <1>10 DEF put_single_moving_feature
    <3>2. Len(req.items) = 1
      <4>1. req.form # "bad json"
        BY <3>1 DEF TypeInv, Control
      <4>2. \A r \in Requests :
              r.op = "put_single_moving_feature" /\ r.form # "bad json" => Len(r.items) = 1
        BY RequestsAssumption
      <4>3. QED
        BY <3>1, <4>1, <4>2
    <3>3. 1 \in DOMAIN req.items /\ req.items[1] \in Items
      BY <3>1, <3>2
    <3>4. req.items[1].kind = "ok" => IsFilled(req.items[1].traj)
      BY <3>1, <3>3, TrajectoriesAssumption DEF IsFilled
    <3> DEFINE item == [req.items[1] EXCEPT !.id = req.fid]
    <3>5. /\ item.kind = req.items[1].kind /\ item.traj = req.items[1].traj
          /\ item.id = req.fid /\ item \in Items
      BY <1>7, <3>1, <3>3, RequestType DEF Items, TypeInv, Request
    <3> HIDE DEF item
    <3>6. todo' = <<item>>
      BY <2>2 DEF item
    <3>7. QED
      BY <2>2, <3>1, <3>4, <3>5, <3>6 DEF TodoMoves
  <2>3. QED
    BY <1>10, <2>1, <2>2 DEF put_single_moving_feature, Execute, request
<1>11. CASE insert_feature_row
  <2>1. PICK id \in Keys(Head(todo).id) : \E fresh : AfterRow(id, fresh)
    BY <1>11 DEF insert_feature_row
  <2>2. req' = req /\ todo # <<>>
    BY <1>8, <1>11 DEF insert_feature_row, FeatureLabels, request
  <2>3. \/ todo' = todo \/ todo' = Tail(todo) \/ todo' = [todo EXCEPT ![1].id = id]
    BY <2>1 DEF AfterRow, loop
  <2>4. QED
    BY <2>1, <2>2, <2>3 DEF TodoMoves
<1>12. CASE insert_feature_tables
  BY <1>4, <1>5, <1>12 DEF insert_feature_tables, Execute, request
<1>13. CASE insert_feature_geometry
  BY <1>2, <1>4, <1>8, <1>13 DEF insert_feature_geometry, FeatureLabels, Execute, request
<1>14. CASE append_observations_row
  BY <1>1, <1>14 DEF append_observations_row, request
<1>15. CASE append_observations_instant
  BY <1>2, <1>4, <1>8, <1>15 DEF append_observations_instant, BatchLabels, Execute, request
<1>16. CASE post_collections \/ post_collections_insert \/ put_collection \/ delete_collection
            \/ delete_single_moving_feature
  <2>1. CASE post_collections
    BY <1>5, <2>1 DEF post_collections, Execute, request
  <2>2. CASE post_collections_insert \/ put_collection
    BY ZenonT(60), <1>4, <1>6, <2>2 DEF post_collections_insert, put_collection
  <2>3. CASE delete_collection \/ delete_single_moving_feature
    BY <1>4, <1>6, <2>3 DEF delete_collection, delete_single_moving_feature
  <2>4. QED
    BY <1>16, <2>1, <2>2, <2>3
<1>17. CASE post_tgsequence \/ delete_single_temporal_primitive_geo
  <2>1. CASE post_tgsequence
    BY ZenonT(60), <1>4, <1>5, <2>1 DEF post_tgsequence, Execute, request
  <2>2. CASE delete_single_temporal_primitive_geo
    BY <1>4, <1>6, <2>2 DEF delete_single_temporal_primitive_geo
  <2>3. QED
    BY <1>17, <2>1, <2>2
<1>18. CASE \/ NoSuchFeature \/ NoPropertyTables \/ post_tproperties
            \/ post_tproperties_values \/ post_temporal_property \/ delete_temporal_property
  <2>1. CASE NoSuchFeature \/ NoPropertyTables
    BY <1>4, <2>1 DEF NoSuchFeature, NoPropertyTables
  <2>2. CASE post_tproperties
    BY <1>4, <1>5, <2>2 DEF post_tproperties, Execute, request
  <2>3. CASE post_tproperties_values
    BY ZenonT(60), <1>4, <1>5, <2>3 DEF post_tproperties_values, Execute, request
  <2>4. CASE post_temporal_property
    BY <1>4, <1>5, <2>4 DEF post_temporal_property, Execute, request
  <2>5. CASE delete_temporal_property
    BY <1>4, <1>6, <2>5 DEF delete_temporal_property
  <2>6. QED
    BY <1>18, <2>1, <2>2, <2>3, <2>4, <2>5
<1>19. CASE ReadBody \/ Read \/ StatementError
  <2>1. CASE ReadBody
    BY ZenonT(60), <1>4, <1>5, <2>1 DEF ReadBody, Goto, request
  <2>2. CASE Read
    BY <1>4, <2>2 DEF Read
  <2>3. CASE StatementError
    BY <1>4, <2>3 DEF StatementError
  <2>4. QED
    BY <1>19, <2>1, <2>2, <2>3
<1>20. CASE Commit \/ Except \/ Respond \/ ClientGone \/ DatabaseRestart \/ Kill \/ Interrupt
  BY <1>5, <1>20 DEF Commit, Except, Respond, ClientGone, DatabaseRestart, Kill, Interrupt, request
<1>21. CASE Receive \/ UNCHANGED vars
  BY <1>1, <1>21 DEF Receive, vars, request, loop
<1>22. QED
  BY <1>9, <1>10, <1>11, <1>12, <1>13, <1>14, <1>15, <1>16, <1>17, <1>18, <1>19, <1>20, <1>21
  DEF Next, ServerStep, Environment

\* The items that are left are items of the request,
LEMMA FilledTodoStep ==
  ASSUME TypeInv, FilledTodo, [Next]_vars
  PROVE  FilledTodo'
<1>1. todo \in Seq(Items)
  BY DEF TypeInv, TypeOK
<1>2. CASE todo' = todo \/ todo' = <<>>
  BY <1>2 DEF FilledTodo
<1>3. CASE todo # <<>> /\ todo' = Tail(todo)
  <2>1. \A n \in DOMAIN Tail(todo) : Tail(todo)[n] = todo[n + 1] /\ n + 1 \in DOMAIN todo
    BY <1>1, <1>3
  <2>2. QED
    BY <1>3, <2>1 DEF FilledTodo
<1>4. CASE req \in Requests /\ todo' = req.items
  BY <1>4, TrajectoriesAssumption DEF FilledTodo, IsFilled
<1>5. CASE \E item \in Items : todo' = <<item>> /\ (item.kind = "ok" => IsFilled(item.traj))
  BY <1>5 DEF FilledTodo
<1>6. CASE \E id : todo' = [todo EXCEPT ![1].id = id]
  <2>1. PICK id : todo' = [todo EXCEPT ![1].id = id]
    BY <1>6
  <2>2. \A n \in DOMAIN todo : /\ todo'[n].kind = todo[n].kind /\ todo'[n].traj = todo[n].traj
    <3>1. \A n \in DOMAIN todo : todo[n] \in Items
      BY <1>1
    <3>2. \A n \in DOMAIN todo : todo'[n] = IF n = 1 THEN [todo[n] EXCEPT !.id = id] ELSE todo[n]
      BY <1>1, <2>1
    <3>3. QED
      BY <3>1, <3>2 DEF Items
  <2>3. DOMAIN todo' = DOMAIN todo
    BY <2>1
  <2>4. QED
    BY <2>2, <2>3 DEF FilledTodo
<1>7. QED
  BY <1>2, <1>3, <1>4, <1>5, <1>6, TodoStep DEF TodoMoves

\* under ids of the request.
LEMMA NamedTodoStep ==
  ASSUME TypeInv, NamedTodo, [Next]_vars
  PROVE  NamedTodo'
<1>1. todo \in Seq(Items)
  BY DEF TypeInv, TypeOK
<1>2. CASE todo' = <<>>
  BY <1>2 DEF NamedTodo
<1>3. CASE todo' = todo /\ (req' = req \/ pc = "idle")
  <2>1. CASE req' = req
    BY <1>3, <2>1 DEF NamedTodo
  <2>2. CASE pc = "idle"
    <3>1. req \notin Requests
      BY <2>2, RequestsAssumption DEF TypeInv, TypeOK
    <3>2. QED
      BY <1>3, <3>1 DEF NamedTodo
  <2>3. QED
    BY <1>3, <2>1, <2>2
<1>4. CASE req' = req /\ todo # <<>> /\ todo' = Tail(todo)
  <2>1. \A n \in DOMAIN Tail(todo) : Tail(todo)[n] = todo[n + 1] /\ n + 1 \in DOMAIN todo
    BY <1>1, <1>4
  <2>2. QED
    BY <1>4, <2>1 DEF NamedTodo
<1>5. CASE /\ req' = req /\ req \in Requests /\ todo' = req.items
           /\ req.op \in {"post_collection_items", "post_bulk"}
  BY <1>5 DEF NamedTodo, Creates, GivenIds
<1>6. CASE /\ req' = req /\ req \in Requests /\ req.op = "put_single_moving_feature"
           /\ \E item \in Items : todo' = <<item>> /\ item.id = req.fid
  BY <1>6 DEF NamedTodo, Creates
<1>7. CASE /\ req' = req /\ todo # <<>>
           /\ \E id \in Keys(Head(todo).id) : todo' = [todo EXCEPT ![1].id = id]
  <2>1. PICK id \in Keys(Head(todo).id) : todo' = [todo EXCEPT ![1].id = id]
    BY <1>7
  <2>2. req \in Requests /\ Creates(req, id)
    BY <1>1, <1>7, HeadNamed, FreshCreated
  <2>3. \A n \in DOMAIN todo : todo'[n].id = IF n = 1 THEN id ELSE todo[n].id
    <3>1. \A n \in DOMAIN todo : todo[n] \in Items
      BY <1>1
    <3>2. \A n \in DOMAIN todo : todo'[n] = IF n = 1 THEN [todo[n] EXCEPT !.id = id] ELSE todo[n]
      BY <1>1, <2>1
    <3>3. QED
      BY <3>1, <3>2 DEF Items
  <2>4. DOMAIN todo' = DOMAIN todo
    BY <2>1
  <2>5. QED
    BY <1>7, <2>2, <2>3, <2>4 DEF NamedTodo
<1>8. QED
  BY <1>2, <1>3, <1>4, <1>5, <1>6, <1>7, TodoStep DEF TodoMoves

\* The statements on geometries leave the collections alone.
LEMMA InsertGeometryRowCollections ==
  ASSUME NEW db, IsDatabase(db), NEW g, NEW f, NEW c, NEW traj, NEW new,
         \E geometry \in BOOLEAN : new = InsertGeometryRow(db, g, f, c, traj, geometry)
  PROVE  new.collections = db.collections
  BY DEF InsertGeometryRow, FireTrigger, IsDatabase

\* So does the UPDATE of trajectories.
LEMMA UpdateTrajectoriesCollections ==
  ASSUME NEW db, IsDatabase(db), NEW trajs, NEW new, new = UpdateTrajectories(db, trajs)
  PROVE  new.collections = db.collections
  BY DEF UpdateTrajectories, FireTrigger, IsDatabase

\* The labels at which a handler knows something of the tables.
Knowing == FeatureLabels \cup BatchLabels \cup {"property", "insert values"}

\* What a handler checked stays so: it is kept by its own statements, and the
\* steps that undo them close the session, abort the transaction or leave.
LEMMA CheckedStep ==
  ASSUME TypeInv, Located, ReferencesHold(work), KeysDrawn(work, serial), [Next]_vars
  PROVE  tx' = "ok" => Checked'
<1> USE DEF At, Handles
<1>1. ASSUME pc' \notin Knowing PROVE Checked'
  BY <1>1 DEF Checked, Knowing, FeatureLabels, BatchLabels
<1>2. ASSUME NEW status,
             Answer(status) \/ AnswerInExcept(status) \/ Raise(status) \/ StatementFails(status)
      PROVE  Checked'
  BY <1>1, <1>2
  DEF Answer, AnswerInExcept, Raise, StatementFails, Knowing, FeatureLabels, BatchLabels
<1>3. ASSUME NEW db, NEW status, ExecuteLast(db, status) PROVE Checked'
  BY <1>1, <1>3 DEF ExecuteLast, Execute, Knowing, FeatureLabels, BatchLabels
<1>4. ASSUME Leave PROVE Checked'
  BY <1>1, <1>4 DEF Leave, Knowing, FeatureLabels, BatchLabels
<1>5. ASSUME NEW db, Execute(db, "finish") \/ Execute(db, "tables") PROVE Checked'
  BY <1>1, <1>5 DEF Execute, Knowing, FeatureLabels, BatchLabels
\* A step of a loop goes on to an item, with the collection still there, or ends.
<1>6. ASSUME NEW l \in {"feature", "observe"}, pc' \in {l, "finish"},
             HasCollection(work', req'.cid)
      PROVE  Checked'
  BY <1>6 DEF Checked, Knowing, FeatureLabels, BatchLabels
<1>7. IsDatabase(work) /\ serial \in Nat
  BY DEF TypeInv, TypeOK
<1>8. pc # "idle" => /\ req \in Requests /\ req.cid \in CollectionIds /\ req.fid \in FeatureIds
                     /\ req.name \in PropertyNames
  BY RequestType DEF TypeInv, Request
<1>9. CASE post_collections \/ post_collections_insert \/ put_collection \/ delete_collection
           \/ delete_single_moving_feature
  <2>1. CASE post_collections
    BY <1>5, <2>1 DEF post_collections
  <2>2. CASE post_collections_insert \/ put_collection
    BY ZenonT(60), <1>2, <1>3, <2>2 DEF post_collections_insert, put_collection
  <2>3. CASE delete_collection \/ delete_single_moving_feature
    BY <1>2, <1>3, <2>3 DEF delete_collection, delete_single_moving_feature
  <2>4. QED
    BY <1>9, <2>1, <2>2, <2>3
<1>10. CASE post_collection_items \/ post_bulk
  <2>1. CASE \E status : Answer(status) \/ Raise(status)
    BY <1>2, <2>1
  <2>2. CASE /\ HasCollection(work, req.cid) /\ UNCHANGED <<store, request>>
             /\ \/ pc' = NextItem(req.items, "feature")
                \/ pc' = NextItem(req.items, "observe")
    <3>1. pc' \in {"feature", "finish"} \/ pc' \in {"observe", "finish"}
      BY <2>2, NextItemType
    <3>2. HasCollection(work', req'.cid)
      BY <2>2 DEF store, request
    <3>3. QED
      BY <1>6, <3>1, <3>2
  <2>3. QED
    BY <1>10, <2>1, <2>2 DEF post_collection_items, post_bulk
<1>11. CASE put_single_moving_feature
  <2>1. CASE Answer(404)
    BY <1>2, <2>1
  <2>2. CASE /\ HasFeature(work, req.cid, req.fid)
             /\ Execute(DeleteFeatures(work, {req.fid}), "feature")
    <3> DEFINE F == {req.fid}
    <3>1. work' = DeleteFeatures(work, F) /\ pc' = "feature" /\ req' = req
      BY <2>2 DEF Execute, request
    <3> HIDE DEF F
    <3>2. FeaturesDeleted(work, work', F)
      BY <1>7, <3>1, DeleteFeaturesFields
    <3>3. req.cid \in DOMAIN work.collections
      BY <2>2 DEF HasFeature, ReferencesHold
    <3>4. QED
      BY <1>6, <3>1, <3>2, <3>3 DEF FeaturesDeleted, HasCollection
  <2>3. QED
    BY <1>11, <2>1, <2>2 DEF put_single_moving_feature
<1>12. CASE insert_feature_tables
  <2>1. CASE Raise(ExceptStatus(req.op, "DataError"))
    BY <1>2, <2>1
  <2>2. CASE Usable /\ Execute(CreateTables(work, {"core", "features"}), "features")
    <3>1. HasCollection(work, req.cid)
      BY <1>12, <2>2 DEF insert_feature_tables, Usable, Located, Checked, FeatureLabels
    <3>2. work'.collections = work.collections /\ pc' = "features" /\ req' = req
      BY <1>7, <2>2, CreateTablesFields DEF Execute, request, TablesCreated
    <3>3. QED
      BY <3>1, <3>2 DEF Checked, HasCollection, FeatureLabels, BatchLabels
  <2>3. QED
    BY <1>12, <2>1, <2>2 DEF insert_feature_tables
<1>13. CASE insert_feature_row
  <2>1. /\ pc = "insert feature" /\ tx = "ok" /\ req' = req
        /\ HasCollection(work, req.cid)
    BY <1>13 DEF insert_feature_row, Usable, request, Located, Checked, FeatureLabels
  <2>2. PICK id \in Keys(Head(todo).id) :
          LET fresh == id \notin DOMAIN work.features
          IN  /\ work' = IF fresh THEN InsertFeatureRow(work, id, req.cid) ELSE work
              /\ AfterRow(id, fresh)
    BY <1>13 DEF insert_feature_row
  <2> DEFINE fresh == id \notin DOMAIN work.features
  <2>3. fresh => FeatureInserted(work, work', id, req.cid)
    BY <1>7, <2>2, InsertFeatureRowFields
  <2>4. HasCollection(work', req'.cid)
    BY <2>1, <2>2, <2>3 DEF FeatureInserted, HasCollection
  <2>5. CASE pc' = "except"
    BY <1>1, <2>5 DEF Knowing, FeatureLabels, BatchLabels
  <2>6. CASE fresh /\ pc' = "insert geometry" /\ todo' = [todo EXCEPT ![1].id = id]
    <3>1. todo \in Seq(Items) /\ todo # <<>>
      BY <2>1 DEF TypeInv, TypeOK, Control, FeatureLabels
    <3>2. Head(todo').id = id
      <4> DEFINE item == [todo[1] EXCEPT !.id = id]
      <4>1. 1 \in DOMAIN todo /\ todo[1] \in Items
        BY <3>1
      <4>2. item.id = id
        BY <4>1 DEF Items
      <4> HIDE DEF item
      <4>3. todo' = [todo EXCEPT ![1] = item]
        BY <2>6 DEF item
      <4>4. Head(todo') = item
        BY <3>1, <4>1, <4>3
      <4>5. QED
        BY <4>2, <4>4
    <3>3. id \in DOMAIN work'.features /\ work'.features[id] = [cid |-> req.cid, extent |-> {}]
      BY <2>3, <2>6 DEF FeatureInserted
    <3>4. HasFeature(work', req'.cid, id)
      <4>1. work'.features[id].cid = req.cid
        BY <3>3
      <4>2. QED
        BY <2>1, <3>3, <4>1 DEF HasFeature
    <3>5. QED
      BY <2>4, <2>6, <3>2, <3>4 DEF Checked, FeatureLabels, BatchLabels
  <2>7. CASE pc' = NextItem(Tail(todo), "feature")
    BY <1>6, <2>4, <2>7, NextItemType
  <2>8. QED
    BY <2>2, <2>5, <2>6, <2>7 DEF AfterRow
<1>14. CASE insert_feature_geometry
  <2>1. CASE \E kind \in {"does not exist", "other"} : StatementFails(ExceptStatus(req.op, kind))
    BY <1>2, <2>1
  <2>2. CASE Usable /\ \E traj : Execute(InsertGeometryRow(work, serial', Head(todo).id, req.cid, traj, TRUE),
                                         NextItem(Tail(todo), "feature"))
    <3>1. pc' = NextItem(Tail(todo), "feature") /\ req' = req /\ tx = "ok"
      BY <2>2 DEF Execute, request, Usable
    <3>2. HasCollection(work, req.cid)
      BY <1>14, <3>1 DEF insert_feature_geometry, Located, Checked, FeatureLabels
    <3>3. work'.collections = work.collections
      <4>1. PICK traj : work' = InsertGeometryRow(work, serial', Head(todo).id, req.cid, traj, TRUE)
        BY <2>2 DEF Execute
      <4> DEFINE g == serial'
                 f == Head(todo).id
                 c == req.cid
      <4>2. \E geometry \in BOOLEAN : work' = InsertGeometryRow(work, g, f, c, traj, geometry)
        BY <4>1
      <4> HIDE DEF g, f, c
      <4>3. QED
        BY <1>7, <4>2, InsertGeometryRowCollections
    <3>4. QED
      BY <1>6, <3>1, <3>2, <3>3, NextItemType DEF HasCollection
  <2>3. QED
    BY <1>14, <2>1, <2>2 DEF insert_feature_geometry
<1>15. CASE append_observations_row
  <2> DEFINE id == Head(todo).id
  <2>1. /\ pc' = "append instant" /\ tx = "ok" /\ UNCHANGED <<req, todo>>
        /\ HasCollection(work, req.cid)
    BY <1>15
    DEF append_observations_row, Usable, request, Located, Checked, BatchLabels
  <2>2. work'.collections = work.collections /\ id \in DOMAIN work'.features
    <3>1. CASE id \in DOMAIN work.features
      BY <1>15, <3>1 DEF append_observations_row
    <3>2. CASE id \notin DOMAIN work.features
      <4>1. work' = InsertFeatureRow(work, id, req.cid)
        BY <1>15, <3>2 DEF append_observations_row
      <4>2. FeatureInserted(work, work', id, req.cid)
        BY <1>7, <4>1, InsertFeatureRowFields
      <4>3. QED
        BY <4>2 DEF FeatureInserted
    <3>3. QED
      BY <3>1, <3>2
  <2>3. QED
    BY <2>1, <2>2 DEF Checked, HasCollection, FeatureLabels, BatchLabels
<1>16. CASE append_observations_instant
  <2> DEFINE id == Head(todo).id
             instant == Head(todo).traj[1]
             rows == GeometriesOf(work, id)
             new == [g \in rows |-> AppendInstant(work.geometries[g].traj, instant)]
  <2>1. CASE StatementFails(ExceptStatus(req.op, "not increasing"))
    BY <1>2, <2>1
  <2>2. ASSUME work'.collections = work.collections,
               NEW db, Execute(db, NextItem(Tail(todo), "observe"))
        PROVE  Checked'
    <3>1. pc' = NextItem(Tail(todo), "observe") /\ req' = req /\ tx = "ok"
      BY <1>16, <2>2 DEF append_observations_instant, Execute, request, Usable
    <3>2. HasCollection(work, req.cid)
      BY <1>16, <3>1 DEF append_observations_instant, Located, Checked, BatchLabels
    <3>3. QED
      BY <1>6, <2>2, <3>1, <3>2, NextItemType DEF HasCollection
  <2>3. CASE Execute(UpdateTrajectories(work, new), NextItem(Tail(todo), "observe"))
    <3> HIDE DEF new
    <3>1. work' = UpdateTrajectories(work, new)
      BY <2>3 DEF Execute
    <3>2. work'.collections = work.collections
      BY <1>7, <3>1, UpdateTrajectoriesCollections
    <3>3. QED
      BY <2>2, <2>3, <3>2
  <2>4. CASE Execute(InsertGeometryRow(work, serial', id, req.cid, Head(todo).traj, FALSE),
                     NextItem(Tail(todo), "observe"))
    <3> DEFINE g == serial'
               c == req.cid
               traj == Head(todo).traj
    <3>1. \E geometry \in BOOLEAN : work' = InsertGeometryRow(work, g, id, c, traj, geometry)
      BY <2>4 DEF Execute
    <3>2. work'.collections = work.collections
      <4> HIDE DEF g, id, c, traj
      <4>1. QED
        BY <1>7, <3>1, InsertGeometryRowCollections
    <3>3. QED
      BY <2>2, <2>4, <3>2
  <2>5. QED
    BY <1>16, <2>1, <2>3, <2>4 DEF append_observations_instant
<1>17. CASE post_tgsequence \/ delete_single_temporal_primitive_geo
  <2>1. CASE post_tgsequence
    BY ZenonT(60), <1>2, <1>5, <2>1 DEF post_tgsequence
  <2>2. CASE delete_single_temporal_primitive_geo
    BY <1>2, <1>3, <2>2 DEF delete_single_temporal_primitive_geo
  <2>3. QED
    BY <1>17, <2>1, <2>2
<1>18. CASE post_tproperties
  <2>1. CASE Leave \/ Answer(400) \/ Answer(409) \/ Raise(500)
    BY <1>2, <1>4, <2>1
  <2>2. CASE /\ Named = {} /\ Draw
             /\ Execute(InsertPropertyRow(work, serial', req.fid, req.name),
                        IF req.form = "ok" THEN "finish" ELSE "property")
    <3>1. CASE pc' = "finish"
      BY <1>1, <3>1 DEF Knowing, FeatureLabels, BatchLabels
    <3>2. CASE pc' = "property"
      <4>1. PropertyInserted(work, work', serial + 1, req.fid, req.name) /\ req' = req
        BY <1>7, <2>2, InsertPropertyRowFields DEF Execute, Draw, request
      <4>2. \A p \in DOMAIN work.properties : p # serial + 1
        BY <1>7 DEF KeysDrawn, IsDatabase, IsTable
      <4>3. \A p \in PropertiesNamed(work', req'.fid, req'.name) : p = serial + 1
        BY <2>2, <4>1, <4>2 DEF PropertyInserted, Named, PropertiesNamed, PropertiesOf
      <4>4. ValuesOf(work', serial + 1) = {}
        BY <4>1, <4>2 DEF PropertyInserted, ValuesOf, ReferencesHold
      <4>5. QED
        BY <3>2, <4>3, <4>4 DEF Checked, Named, FeatureLabels, BatchLabels
    <3>3. QED
      BY <2>2, <3>1, <3>2 DEF Execute
  <2>3. QED
    BY <1>18, <2>1, <2>2 DEF post_tproperties
<1>19. CASE \/ NoSuchFeature \/ NoPropertyTables
            \/ post_tproperties_values \/ post_temporal_property \/ delete_temporal_property
  <2>1. CASE NoSuchFeature \/ NoPropertyTables
    BY <1>2, <2>1 DEF NoSuchFeature, NoPropertyTables
  <2>2. CASE post_tproperties_values
    BY ZenonT(60), <1>2, <1>5, <2>2 DEF post_tproperties_values
  <2>3. CASE post_temporal_property
    BY <1>2, <1>5, <2>3 DEF post_temporal_property
  <2>4. CASE delete_temporal_property
    BY <1>2, <1>3, <2>4 DEF delete_temporal_property
  <2>5. QED
    BY <1>19, <2>1, <2>2, <2>3, <2>4
<1>20. CASE ReadBody \/ Read \/ StatementError
  <2>1. CASE ReadBody
    BY ZenonT(60), <1>1, <1>2, <2>1 DEF ReadBody, Goto, Knowing, FeatureLabels, BatchLabels
  <2>2. CASE Read
    BY <1>2, <2>2 DEF Read
  <2>3. CASE StatementError
    BY <1>2, <2>3 DEF StatementError
  <2>4. QED
    BY <1>20, <2>1, <2>2, <2>3
<1>21. CASE Commit
  <2>1. /\ pc \in {"tables", "features", "property", "finish"} /\ tx = "ok"
        /\ pc' = AfterCommit[pc] /\ UNCHANGED <<work, req, todo>>
    BY <1>21, LabelsType DEF Commit, request, loop
  <2>2. pc' = CASE pc = "tables" -> "insert collection" [] pc = "features" -> "insert feature"
                [] pc = "property" -> "insert values" [] pc = "finish" -> "respond"
    <3>1. /\ AfterCommit["tables"] = "insert collection"
          /\ AfterCommit["features"] = "insert feature"
          /\ AfterCommit["property"] = "insert values" /\ AfterCommit["finish"] = "respond"
      BY DEF AfterCommit
    <3>2. QED
      BY <2>1, <3>1
  <2>3. Checked
    BY <2>1 DEF Located
  <2>4. CASE pc \in {"tables", "finish"}
    BY <1>1, <2>2, <2>4 DEF Knowing, FeatureLabels, BatchLabels
  <2>5. CASE pc = "features"
    BY <2>1, <2>2, <2>3, <2>5 DEF Checked, FeatureLabels, BatchLabels
  <2>6. CASE pc = "property"
    BY <2>1, <2>2, <2>3, <2>6 DEF Checked, Named, FeatureLabels, BatchLabels
  <2>7. QED
    BY <2>1, <2>4, <2>5, <2>6
<1>22. CASE Except \/ Respond \/ ClientGone \/ Receive \/ Kill \/ Interrupt
  BY <1>1, <1>22
  DEF Except, Respond, ClientGone, Receive, Kill, Interrupt, Leave, Knowing, FeatureLabels,
      BatchLabels
<1>23. CASE DatabaseRestart
  BY <1>23 DEF DatabaseRestart
<1>24. CASE UNCHANGED vars
  BY <1>24 DEF vars, store, request, loop, Located, Checked, Named
<1>25. QED
  BY <1>9, <1>10, <1>11, <1>12, <1>13, <1>14, <1>15, <1>16, <1>17, <1>18, <1>19, <1>20,
     <1>21, <1>22, <1>23, <1>24
  DEF Next, ServerStep, Environment

-----------------------------------------------------------------------------
(* The foreign keys hold: what the handlers know, the references and the   *)
(* freshness of the SERIAL values carry each other.                        *)

TablesInv ==
  /\ Located
  /\ ReferencesHold(disk) /\ KeysDrawn(disk, serial)
  /\ ReferencesHold(work) /\ KeysDrawn(work, serial)

\* An executed statement had the effect of its kind.
LEMMA ExecutedStatement ==
  ASSUME TypeInv, TablesInv, Executes
  PROVE  /\ IsDatabase(work) /\ serial \in Nat /\ req \in Requests /\ req.cid \in CollectionIds
         /\ disk' = disk /\ req' = req /\ pc # "idle"
         /\ \/ serial' = serial /\ AlteredTables(work, work', req.cid)
            \/ serial' = serial + 1 /\ AddedTables(work, work', req.cid, serial + 1)
<1>1. IsDatabase(work) /\ serial \in Nat
  BY DEF TypeInv, TypeOK
<1>2. pc # "idle"
  BY DEF Executes, Executing
<1>3. req \in Requests /\ req.cid \in CollectionIds
  BY <1>2, RequestType DEF TypeInv, Request
<1>4. CASE serial' = serial /\ Alters(work, work', req.cid)
  BY <1>1, <1>2, <1>3, <1>4, Altered DEF Executes
<1>5. CASE serial' = serial + 1 /\ Adds(work, work', req.cid, serial')
  <2>1. Adds(work, work', req.cid, serial + 1)
    BY <1>5
  <2>2. AddedTables(work, work', req.cid, serial + 1)
    BY <1>1, <1>3, <2>1, Added DEF TablesInv
  <2>3. QED
    BY <1>1, <1>2, <1>3, <1>5, <2>2 DEF Executes
<1>6. QED
  BY <1>4, <1>5 DEF Executes

\* Every step keeps the invariant.
LEMMA TablesStep == TypeInv /\ TablesInv /\ [Next]_vars => TablesInv'
<1> SUFFICES ASSUME TypeInv, TablesInv, [Next]_vars PROVE TablesInv'
  OBVIOUS
<1>1. Located'
  BY FilledTodoStep, NamedTodoStep, CheckedStep DEF TablesInv, Located
<1>2. Effect
  BY StepEffect DEF TablesInv
<1>3. CASE serial' = serial /\ (UNCHANGED <<disk, work>> \/ Settles)
  BY <1>1, <1>3 DEF TablesInv, Settles
<1>4. CASE Executes
  <2>1. /\ IsDatabase(work) /\ serial \in Nat /\ req.cid \in CollectionIds /\ disk' = disk
        /\ \/ serial' = serial /\ AlteredTables(work, work', req.cid)
           \/ serial' = serial + 1 /\ AddedTables(work, work', req.cid, serial + 1)
    BY <1>4, ExecutedStatement
  <2>2. ReferencesHold(work') /\ KeysDrawn(work', serial')
    BY <2>1, ReferencesKept, ReferencesGrown DEF TablesInv
  <2>3. KeysDrawn(disk', serial')
    <3>1. IsDatabase(disk) /\ KeysDrawn(disk, serial)
      BY DEF TypeInv, TypeOK, TablesInv
    <3>2. \A k \in Nat : k <= serial => k <= serial'
      BY <2>1
    <3>3. QED
      BY <2>1, <3>1, <3>2 DEF KeysDrawn, IsDatabase, IsTable
  <2>4. QED
    BY <1>1, <2>1, <2>2, <2>3 DEF TablesInv
<1>5. QED
  BY <1>2, <1>3, <1>4 DEF Effect

\* The invariant holds in every reachable state.
LEMMA TablesAlways == Spec => []TablesInv
<1>1. Init => TablesInv
  BY DEF Init, TablesInv, Located, FilledTodo, NamedTodo, Checked, FeatureLabels, BatchLabels,
         EmptyDatabase, NoRows, ReferencesHold, KeysDrawn
<1>2. QED
  BY <1>1, TablesStep, TypeInvariant, PTL DEF Spec

\* No order of requests, deletes and failures makes a handler insert a row
\* whose parent it checked earlier and that is gone by then: the foreign keys
\* resolve in the committed database and in the open transaction.
THEOREM ForeignKeysHold == Spec => []References
<1>1. TablesInv => References
  BY DEF TablesInv, References
<1>2. QED
  BY <1>1, TablesAlways, PTL

\* What a step does to the two copies of the database: it leaves or exchanges
\* them, or one statement changes the open transaction's.
OneStatement ==
  /\ IsDatabase(work) /\ serial \in Nat /\ req \in Requests /\ req.cid \in CollectionIds
  /\ disk' = disk /\ req' = req /\ pc # "idle"
  /\ \/ AlteredTables(work, work', req.cid)
     \/ AddedTables(work, work', req.cid, serial + 1)

\* Every step is one or the other.
LEMMA StepKinds ==
  ASSUME TypeInv, TablesInv, [Next]_vars
  PROVE  (disk' \in {disk, work} /\ work' \in {disk, work}) \/ OneStatement
<1>1. Effect
  BY StepEffect DEF TablesInv
<1>2. CASE UNCHANGED <<disk, work>> \/ Settles
  BY <1>2 DEF Settles
<1>3. CASE Executes
  BY <1>3, ExecutedStatement DEF OneStatement
<1>4. QED
  BY <1>1, <1>2, <1>3 DEF Effect

-----------------------------------------------------------------------------
(* Names of properties.                                                    *)

NamesUnique(db) ==
  \A p, q \in DOMAIN db.properties : db.properties[p] = db.properties[q] => p = q

\* The one INSERT of a property looked for the name first.
LEMMA NamesKept ==
  ASSUME NEW db, NamesUnique(db), NEW new, NEW c, NEW n,
         AlteredTables(db, new, c) \/ AddedTables(db, new, c, n)
  PROVE  NamesUnique(new)
<1> USE DEF NamesUnique
<1>1. CASE new.properties = db.properties
  BY <1>1
<1>2. CASE DOMAIN new.properties \subseteq DOMAIN db.properties
           /\ SubTable(new.properties, db.properties)
  BY <1>2 DEF SubTable
<1>3. CASE \E f, name : PropertiesNamed(db, f, name) = {} /\ PropertyInserted(db, new, n, f, name)
  <2>1. PICK f, name : PropertiesNamed(db, f, name) = {} /\ PropertyInserted(db, new, n, f, name)
    BY <1>3
  <2> DEFINE row == [fid |-> f, name |-> name]
  <2>2. row.fid = f /\ row.name = name
    OBVIOUS
  <2> HIDE DEF row
  <2>3. /\ DOMAIN new.properties = DOMAIN db.properties \cup {n} /\ new.properties[n] = row
        /\ \A q \in DOMAIN db.properties \ {n} : new.properties[q] = db.properties[q]
    BY <2>1 DEF PropertyInserted, row
  <2>4. \A q \in DOMAIN db.properties : db.properties[q] # row
    BY <2>1, <2>2 DEF PropertiesNamed, PropertiesOf
  <2>5. QED
    BY <2>3, <2>4
<1>4. CASE AlteredTables(db, new, c)
  <2>1. CASE \E f : FeaturesDeleted(db, new, {f})
    BY <1>2, <2>1 DEF FeaturesDeleted, SubTable
  <2>2. CASE CollectionDeleted(db, new, c)
    BY <1>2, <2>2 DEF CollectionDeleted, SubTable
  <2>3. CASE \E P : PropertiesDeleted(db, new, P)
    BY <1>2, <2>3 DEF PropertiesDeleted, SubTable
  <2>4. QED
    BY <1>1, <1>4, <2>1, <2>2, <2>3
    DEF AlteredTables, TablesCreated, CollectionPut, FeatureInserted, FewTables, RowsUpdated
<1>5. QED
  BY <1>1, <1>3, <1>4 DEF AddedTables, GeometryInserted, ValuesInserted

\* A property's name stays unique within its feature, in the committed database
\* and in the open transaction: check-then-insert does what the constraint would
\* that the table lacks, because one thread runs both.
THEOREM NamesStayUnique == Spec => []PropertyNamesUnique
<1> DEFINE Unique == NamesUnique(disk) /\ NamesUnique(work)
<1>1. Init => Unique
  BY DEF Init, EmptyDatabase, NoRows, NamesUnique
<1>2. TypeInv /\ TablesInv /\ Unique /\ [Next]_vars => Unique'
  <2> SUFFICES ASSUME TypeInv, TablesInv, Unique, [Next]_vars PROVE Unique'
    OBVIOUS
  <2>1. CASE disk' \in {disk, work} /\ work' \in {disk, work}
    BY <2>1
  <2>2. CASE OneStatement
    BY <2>2, NamesKept DEF OneStatement
  <2>3. QED
    BY <2>1, <2>2, StepKinds
<1>3. Unique => PropertyNamesUnique
  BY DEF NamesUnique, PropertyNamesUnique
<1>4. QED
  BY <1>1, <1>2, <1>3, TypeInvariant, TablesAlways, PTL DEF Spec

-----------------------------------------------------------------------------
(* Extents.                                                                *)

ExtentsKept(db) ==
  \A f \in DOMAIN db.features :
    /\ db.features[f].extent \in {{}, ExtentOf(db, f)}
    /\ "features" \notin db.ddl => db.features[f].extent = {}

\* A feature keeps its extent when it and its geometries stay as they are,
LEMMA ExtentOfKept ==
  ASSUME NEW db, NEW new, NEW f, new.features[f] = db.features[f],
         GeometriesIn(new, db.features[f].cid, f) = GeometriesIn(db, db.features[f].cid, f),
         \A g \in GeometriesIn(db, db.features[f].cid, f) :
           new.geometries[g].traj = db.geometries[g].traj
  PROVE  ExtentOf(new, f) = ExtentOf(db, f)
<1> DEFINE cid == db.features[f].cid
           Members(d) == {InstantsOf(d.geometries[g].traj) : g \in GeometriesIn(d, cid, f)}
<1>1. Members(new) = Members(db)
  OBVIOUS
<1>2. ExtentOf(new, f) = Hull(UNION Members(new)) /\ ExtentOf(db, f) = Hull(UNION Members(db))
  BY DEF ExtentOf
<1>3. QED
  BY <1>1, <1>2

\* so every statement that leaves it and them alone keeps its extent current,
LEMMA ExtentKept ==
  ASSUME NEW db, ExtentsKept(db), NEW new, NEW f \in DOMAIN db.features,
         new.features[f] = db.features[f],
         \A g : g \in GeometriesIn(new, db.features[f].cid, f)
                <=> g \in GeometriesIn(db, db.features[f].cid, f),
         \A g \in GeometriesIn(db, db.features[f].cid, f) :
           new.geometries[g].traj = db.geometries[g].traj,
         db.ddl \subseteq new.ddl
  PROVE  /\ new.features[f].extent \in {{}, ExtentOf(new, f)}
         /\ "features" \notin new.ddl => new.features[f].extent = {}
<1>1. GeometriesIn(new, db.features[f].cid, f) = GeometriesIn(db, db.features[f].cid, f)
  OBVIOUS
<1>2. ExtentOf(new, f) = ExtentOf(db, f)
  BY <1>1, ExtentOfKept
<1>3. QED
  BY <1>2 DEF ExtentsKept

\* and the trigger refreshes it after the statements that do not.
LEMMA ExtentsStay ==
  ASSUME NEW db, IsDatabase(db), ExtentsKept(db), NEW new, NEW c, NEW n \in Nat,
         \A g \in DOMAIN db.geometries : g # n,
         AlteredTables(db, new, c) \/ AddedTables(db, new, c, n)
  PROVE  ExtentsKept(new)
<1> USE DEF GeometriesIn, GeometriesOf
<1>1. CASE /\ new.features = db.features /\ new.geometries = db.geometries
           /\ db.ddl \subseteq new.ddl
  <2>1. ASSUME NEW f \in DOMAIN db.features
        PROVE  /\ new.features[f].extent \in {{}, ExtentOf(new, f)}
               /\ "features" \notin new.ddl => new.features[f].extent = {}
    BY <1>1, ExtentKept
  <2>2. QED
    BY <1>1, <2>1 DEF ExtentsKept
<1>2. CASE CollectionDeleted(db, new, c)
  <2>1. ASSUME NEW f \in DOMAIN new.features
        PROVE  /\ new.features[f].extent \in {{}, ExtentOf(new, f)}
               /\ "features" \notin new.ddl => new.features[f].extent = {}
    <3>1. /\ f \in DOMAIN db.features /\ db.features[f].cid # c
          /\ new.features[f] = db.features[f]
      BY <1>2 DEF CollectionDeleted, SubTable
    <3>2. \A g : g \in GeometriesIn(new, db.features[f].cid, f)
                 <=> g \in GeometriesIn(db, db.features[f].cid, f)
      BY <1>2, <3>1 DEF CollectionDeleted, SubTable
    <3>3. \A g \in GeometriesIn(db, db.features[f].cid, f) :
            new.geometries[g].traj = db.geometries[g].traj
      BY <1>2, <3>2 DEF CollectionDeleted, SubTable
    <3>4. QED
      BY <1>2, <3>1, <3>2, <3>3, ExtentKept DEF CollectionDeleted
  <2>2. QED
    BY <2>1 DEF ExtentsKept
<1>3. CASE \E f : FeaturesDeleted(db, new, {f})
  <2>1. PICK e : FeaturesDeleted(db, new, {e})
    BY <1>3
  <2>2. ASSUME NEW f \in DOMAIN new.features
        PROVE  /\ new.features[f].extent \in {{}, ExtentOf(new, f)}
               /\ "features" \notin new.ddl => new.features[f].extent = {}
    <3>1. f \in DOMAIN db.features /\ f # e /\ new.features[f] = db.features[f]
      BY <2>1 DEF FeaturesDeleted, SubTable
    <3>2. \A g : g \in GeometriesIn(new, db.features[f].cid, f)
                 <=> g \in GeometriesIn(db, db.features[f].cid, f)
      BY <2>1, <3>1 DEF FeaturesDeleted, SubTable
    <3>3. \A g \in GeometriesIn(db, db.features[f].cid, f) :
            new.geometries[g].traj = db.geometries[g].traj
      BY <2>1, <3>2 DEF FeaturesDeleted, SubTable
    <3>4. QED
      BY <2>1, <3>1, <3>2, <3>3, ExtentKept DEF FeaturesDeleted
  <2>3. QED
    BY <2>2 DEF ExtentsKept
<1>4. CASE \E f \in FeatureIds \ DOMAIN db.features : FeatureInserted(db, new, f, c)
  <2>1. PICK e \in FeatureIds \ DOMAIN db.features : FeatureInserted(db, new, e, c)
    BY <1>4
  <2>2. ASSUME NEW f \in DOMAIN db.features
        PROVE  /\ new.features[f].extent \in {{}, ExtentOf(new, f)}
               /\ "features" \notin new.ddl => new.features[f].extent = {}
    <3>1. new.features[f] = db.features[f] /\ new.geometries = db.geometries /\ new.ddl = db.ddl
      BY <2>1 DEF FeatureInserted, FewTables
    <3>2. QED
      BY <3>1, ExtentKept
  <2>3. new.features[e].extent = {} /\ DOMAIN new.features = DOMAIN db.features \cup {e}
    BY <2>1 DEF FeatureInserted
  <2>4. QED
    BY <2>2, <2>3 DEF ExtentsKept
<1>5. CASE AppendsInstant(db, new, c) \/ RemovesMember(db, new, c)
  <2>1. PICK trajs : /\ \A g \in DOMAIN trajs : trajs[g] \in Trajectories
                     /\ new = UpdateTrajectories(db, trajs)
    BY <1>5, UpdatedTrajectories
  <2>2. TrajectoriesUpdated(db, new, trajs)
    BY <2>1, UpdateTrajectoriesFields
  <2>3. ASSUME NEW f \in DOMAIN db.features
        PROVE  /\ new.features[f].extent \in {{}, ExtentOf(new, f)}
               /\ "features" \notin new.ddl => new.features[f].extent = {}
    <3> DEFINE fired == /\ "features" \in db.ddl
                        /\ DOMAIN trajs \cap GeometriesIn(db, db.features[f].cid, f) # {}
    <3>1. CASE fired
      <4>1. /\ new.features[f] = [db.features[f] EXCEPT !.extent = ExtentOf(new, f)]
            /\ new.ddl = db.ddl
        BY <2>2, <3>1 DEF TrajectoriesUpdated
      <4>2. new.features[f].extent = ExtentOf(new, f)
        BY <4>1 DEF IsDatabase, IsTable, FeatureRow
      <4>3. QED
        BY <3>1, <4>1, <4>2
    <3>2. CASE "features" \notin db.ddl
      BY <2>2, <3>2 DEF TrajectoriesUpdated, ExtentsKept
    <3>3. CASE DOMAIN trajs \cap GeometriesIn(db, db.features[f].cid, f) = {}
      <4>1. new.features[f] = db.features[f] /\ new.ddl = db.ddl
        BY <2>2, <3>3 DEF TrajectoriesUpdated
      <4>2. \A g : g \in GeometriesIn(new, db.features[f].cid, f)
                   <=> g \in GeometriesIn(db, db.features[f].cid, f)
        BY <2>2 DEF TrajectoriesUpdated
      <4>3. \A g \in GeometriesIn(db, db.features[f].cid, f) :
              new.geometries[g].traj = db.geometries[g].traj
        BY <2>2, <3>3 DEF TrajectoriesUpdated
      <4>4. QED
        BY <4>1, <4>2, <4>3, ExtentKept
    <3>4. QED
      BY <3>1, <3>2, <3>3
  <2>4. QED
    BY <2>2, <2>3 DEF ExtentsKept, TrajectoriesUpdated
<1>6. CASE \E f \in DOMAIN db.features, traj \in Trajectories, geometry \in BOOLEAN : GeometryInserted(db, new, n, f, c, traj, geometry)
  <2>1. PICK e \in DOMAIN db.features, traj \in Trajectories, geometry \in BOOLEAN : GeometryInserted(db, new, n, e, c, traj, geometry)
    BY <1>6
  <2>2. ASSUME NEW f \in DOMAIN db.features
        PROVE  /\ new.features[f].extent \in {{}, ExtentOf(new, f)}
               /\ "features" \notin new.ddl => new.features[f].extent = {}
    <3>1. CASE "features" \in db.ddl /\ f = e /\ db.features[f].cid = c
      <4>1. /\ new.features[f] = [db.features[f] EXCEPT !.extent = ExtentOf(new, f)]
            /\ new.ddl = db.ddl
        BY <2>1, <3>1 DEF GeometryInserted
      <4>2. new.features[f].extent = ExtentOf(new, f)
        BY <4>1 DEF IsDatabase, IsTable, FeatureRow
      <4>3. QED
        BY <3>1, <4>1, <4>2
    <3>2. CASE "features" \notin db.ddl
      BY <2>1, <3>2 DEF GeometryInserted, ExtentsKept
    <3>3. CASE ~(f = e /\ db.features[f].cid = c)
      <4>1. new.features[f] = db.features[f] /\ new.ddl = db.ddl
        BY <2>1, <3>3 DEF GeometryInserted
      <4>2. new.geometries[n].fid = e /\ new.geometries[n].cid = c
        BY <2>1 DEF GeometryInserted
      <4>3. \A g : g \in GeometriesIn(new, db.features[f].cid, f)
                   <=> g \in GeometriesIn(db, db.features[f].cid, f)
        BY <2>1, <3>3, <4>2 DEF GeometryInserted
      <4>4. \A g \in GeometriesIn(db, db.features[f].cid, f) :
              new.geometries[g].traj = db.geometries[g].traj
        BY <2>1 DEF GeometryInserted
      <4>5. QED
        BY <4>1, <4>3, <4>4, ExtentKept
    <3>4. QED
      BY <3>1, <3>2, <3>3
  <2>3. QED
    BY <2>1, <2>2 DEF ExtentsKept, GeometryInserted
<1>7. CASE \/ \E group : TablesCreated(db, new, group)
           \/ CollectionPut(db, new, c)
           \/ \E P : PropertiesDeleted(db, new, P)
           \/ \E f, name : PropertyInserted(db, new, n, f, name)
           \/ \E p, body : ValuesInserted(db, new, n, p, body)
  BY <1>1, <1>7
  DEF TablesCreated, CollectionPut, PropertiesDeleted, PropertyInserted, ValuesInserted, FewTables
<1>8. CASE AlteredTables(db, new, c)
  BY <1>2, <1>3, <1>4, <1>5, <1>7, <1>8 DEF AlteredTables
<1>9. CASE AddedTables(db, new, c, n)
  BY <1>6, <1>7, <1>9 DEF AddedTables
<1>10. QED
  BY <1>8, <1>9

\* The bbox and time columns of a committed feature agree with its geometries
\* or were never set, although a transaction that inserts geometries may run
\* before the trigger exists.
THEOREM ExtentsStayCurrent == Spec => []ExtentsCurrentOrUnset
<1> DEFINE Kept == ExtentsKept(disk) /\ ExtentsKept(work)
<1>1. Init => Kept
  BY DEF Init, EmptyDatabase, NoRows, ExtentsKept
<1>2. TypeInv /\ TablesInv /\ Kept /\ [Next]_vars => Kept'
  <2> SUFFICES ASSUME TypeInv, TablesInv, Kept, [Next]_vars PROVE Kept'
    OBVIOUS
  <2>1. CASE disk' \in {disk, work} /\ work' \in {disk, work}
    BY <2>1
  <2>2. CASE OneStatement
    <3>1. serial + 1 \in Nat /\ \A g \in DOMAIN work.geometries : g # serial + 1
      BY <2>2 DEF OneStatement, TablesInv, KeysDrawn, IsDatabase, IsTable
    <3> DEFINE n == serial + 1
    <3>2. /\ IsDatabase(work) /\ disk' = disk
          /\ AlteredTables(work, work', req.cid) \/ AddedTables(work, work', req.cid, n)
      BY <2>2 DEF OneStatement
    <3> HIDE DEF n
    <3>3. ExtentsKept(work')
      BY <3>1, <3>2, ExtentsStay DEF n
    <3>4. QED
      BY <3>2, <3>3
  <2>3. QED
    BY <2>1, <2>2, StepKinds
<1>3. Kept => ExtentsCurrentOrUnset
  BY DEF ExtentsKept, ExtentsCurrentOrUnset
<1>4. QED
  BY <1>1, <1>2, <1>3, TypeInvariant, TablesAlways, PTL DEF Spec

-----------------------------------------------------------------------------
(* The two columns that tell a geometry's collection.                      *)

\* A batch stays home if the features it names are created in its collection
\* only.  (A row that a batch writes carries the collection of the batch, and
\* a feature that is there already may be another one's.)
BatchesStayHome ==
  \A r, s \in Requests : \A f \in FeatureIds :
     r.op = "post_bulk" /\ Creates(r, f) /\ Creates(s, f) => r.cid = s.cid

\* Then whatever a batch names is in its collection,
AtHome(db) ==
  \A f \in DOMAIN db.features : \A c : Batched(c, f) => db.features[f].cid = c

\* and the two columns agree.
ColumnsAgree(db) ==
  \A g \in DOMAIN db.geometries :
     db.geometries[g].cid = db.features[db.geometries[g].fid].cid
Tagged(db) == AtHome(db) /\ ColumnsAgree(db)

\* A feature is inserted where it belongs, and never moves.
LEMMA AtHomeKept ==
  ASSUME BatchesStayHome, NEW db, IsDatabase(db), AtHome(db), NEW new, NEW c, NEW n,
         AlteredTables(db, new, c) \/ AddedTables(db, new, c, n)
  PROVE  AtHome(new)
<1>1. ASSUME SubTable(new.features, db.features)
      PROVE  AtHome(new)
  BY <1>1 DEF AtHome, SubTable
<1>2. ASSUME DOMAIN new.features = DOMAIN db.features,
             \A f \in DOMAIN db.features : new.features[f].cid = db.features[f].cid
      PROVE  AtHome(new)
  BY <1>2 DEF AtHome
<1>3. CASE \E f \in FeatureIds \ DOMAIN db.features :
             Created(c, f) /\ FeatureInserted(db, new, f, c)
  <2>1. PICK f \in FeatureIds \ DOMAIN db.features :
          Created(c, f) /\ FeatureInserted(db, new, f, c)
    BY <1>3
  <2>2. new.features[f].cid = c
    BY <2>1 DEF FeatureInserted
  <2>3. \A d : Batched(d, f) => d = c
    BY <2>1 DEF Batched, Created, BatchesStayHome
  <2>4. QED
    BY <2>1, <2>2, <2>3 DEF AtHome, FeatureInserted
<1>4. CASE \E f \in DOMAIN db.features, traj \in Trajectories, geometry \in BOOLEAN :
             GeometryInserted(db, new, n, f, c, traj, geometry)
  <2>1. PICK f \in DOMAIN db.features, traj \in Trajectories, geometry \in BOOLEAN :
          GeometryInserted(db, new, n, f, c, traj, geometry)
    BY <1>4
  <2>2. \A e \in DOMAIN db.features :
          [db.features[e] EXCEPT !.extent = ExtentOf(new, e)].cid = db.features[e].cid
    BY DEF IsDatabase, IsTable, FeatureRow
  <2>3. QED
    BY <1>2, <2>1, <2>2 DEF GeometryInserted
<1>5. CASE AlteredTables(db, new, c)
  BY <1>1, <1>2, <1>3, <1>5
  DEF AlteredTables, TablesCreated, CollectionPut, CollectionDeleted, FeaturesDeleted,
      PropertiesDeleted, FewTables, RowsUpdated
<1>6. CASE AddedTables(db, new, c, n)
  BY <1>2, <1>4, <1>6 DEF AddedTables, PropertyInserted, ValuesInserted
<1>7. QED
  BY <1>5, <1>6

\* insert_feature and post_tgsequence fill both columns from one path, and the
\* geometries of a feature that is deleted go with it.
LEMMA ColumnsAgreeStill ==
  ASSUME NEW db, IsDatabase(db), ReferencesHold(db), AtHome(db),
         ColumnsAgree(db), NEW new, NEW c, NEW n,
         AlteredTables(db, new, c) \/ AddedTables(db, new, c, n)
  PROVE  ColumnsAgree(new)
<1> DEFINE Row(d, g) == d.geometries[g].cid = d.features[d.geometries[g].fid].cid
<1>1. \A g \in DOMAIN db.geometries : Row(db, g) /\ db.geometries[g].fid \in DOMAIN db.features
  BY DEF ColumnsAgree, ReferencesHold
<1>2. ASSUME SubTable(new.geometries, db.geometries), SubTable(new.features, db.features),
             \A g \in DOMAIN new.geometries : new.geometries[g].fid \in DOMAIN new.features
      PROVE  ColumnsAgree(new)
  BY <1>1, <1>2 DEF ColumnsAgree, SubTable
<1>3. CASE \E f \in DOMAIN db.features, traj \in Trajectories, geometry \in BOOLEAN :
             /\ IF geometry THEN HasFeature(db, c, f) ELSE Batched(c, f)
             /\ GeometryInserted(db, new, n, f, c, traj, geometry)
  <2>1. PICK f \in DOMAIN db.features, traj \in Trajectories, geometry \in BOOLEAN :
          /\ IF geometry THEN HasFeature(db, c, f) ELSE Batched(c, f)
          /\ GeometryInserted(db, new, n, f, c, traj, geometry)
    BY <1>3
  <2>2. \A e \in DOMAIN db.features :
          [db.features[e] EXCEPT !.extent = ExtentOf(new, e)].cid = db.features[e].cid
    BY DEF IsDatabase, IsTable, FeatureRow
  <2>3. \A e \in DOMAIN db.features : new.features[e].cid = db.features[e].cid
    BY <2>1, <2>2 DEF GeometryInserted
  <2> DEFINE row == [fid |-> f, cid |-> c, traj |-> traj, geometry |-> geometry]
  <2>4. row.fid = f /\ row.cid = c /\ row.geometry = geometry
    OBVIOUS
  <2> HIDE DEF row
  <2>5. new.geometries[n] = row
    BY <2>1 DEF GeometryInserted, row
  <2>6. db.features[f].cid = c
    BY <2>1 DEF HasFeature, AtHome
  <2>7. Row(new, n)
    BY <2>1, <2>3, <2>4, <2>5, <2>6
  <2>8. \A g \in DOMAIN db.geometries : Row(new, g)
    BY <1>1, <2>1, <2>3 DEF GeometryInserted
  <2>9. QED
    BY <2>1, <2>7, <2>8 DEF ColumnsAgree, GeometryInserted
<1>4. CASE RowsUpdated(db, new)
  BY <1>1, <1>4 DEF ColumnsAgree, RowsUpdated
<1>5. CASE \E f \in FeatureIds \ DOMAIN db.features : FeatureInserted(db, new, f, c)
  BY <1>1, <1>5 DEF ColumnsAgree, FeatureInserted, FewTables
<1>6. CASE CollectionDeleted(db, new, c)
  <2>1. \A g \in DOMAIN new.geometries : new.geometries[g].fid \in DOMAIN new.features
    BY <1>1, <1>6 DEF CollectionDeleted, SubTable
  <2>2. QED
    BY <1>2, <1>6, <2>1 DEF CollectionDeleted
<1>7. CASE \E f : FeaturesDeleted(db, new, {f})
  <2>1. \A g \in DOMAIN new.geometries : new.geometries[g].fid \in DOMAIN new.features
    BY <1>1, <1>7 DEF FeaturesDeleted, SubTable
  <2>2. QED
    BY <1>2, <1>7, <2>1 DEF FeaturesDeleted
<1>8. CASE new.features = db.features /\ new.geometries = db.geometries
  BY <1>1, <1>8 DEF ColumnsAgree
<1>9. CASE AlteredTables(db, new, c)
  BY <1>4, <1>5, <1>6, <1>7, <1>8, <1>9
  DEF AlteredTables, TablesCreated, CollectionPut, PropertiesDeleted, FewTables
<1>10. CASE AddedTables(db, new, c, n)
  <2>1. CASE \/ \E f, name : PropertyInserted(db, new, n, f, name)
             \/ \E p, body : ValuesInserted(db, new, n, p, body)
    BY <1>8, <2>1 DEF PropertyInserted, ValuesInserted
  <2>2. CASE \E f \in DOMAIN db.features, traj \in Trajectories, geometry \in BOOLEAN :
               /\ IF geometry THEN HasFeature(db, c, f) ELSE Batched(c, f)
               /\ GeometryInserted(db, new, n, f, c, traj, geometry)
    BY <1>3, <2>2
  <2>3. QED
    BY <1>10, <2>1, <2>2 DEF AddedTables
<1>11. QED
  BY <1>9, <1>10

\* In every reachable state, of both copies of the database.
LEMMA TaggedAlways ==
  ASSUME BatchesStayHome PROVE Spec => [](Tagged(disk) /\ Tagged(work))
<1> USE DEF Tagged
<1> DEFINE Kept == Tagged(disk) /\ Tagged(work)
<1>1. Init => Kept
  BY DEF Init, EmptyDatabase, NoRows, AtHome, ColumnsAgree
<1>2. TypeInv /\ TablesInv /\ Kept /\ [Next]_vars => Kept'
  <2> SUFFICES ASSUME TypeInv, TablesInv, Kept, [Next]_vars PROVE Kept'
    OBVIOUS
  <2>1. CASE disk' \in {disk, work} /\ work' \in {disk, work}
    BY <2>1
  <2>2. CASE OneStatement
    BY <2>2, AtHomeKept, ColumnsAgreeStill DEF OneStatement, TablesInv
  <2>3. QED
    BY <2>1, <2>2, StepKinds
<1> HIDE DEF Tagged
<1>3. QED
  BY <1>1, <1>2, TypeInvariant, TablesAlways, PTL DEF Spec

\* While the features that batches name are created in the collection of the
\* batch only, every geometry carries the collection of its feature.
THEOREM GeometriesStayInTheirCollection ==
  ASSUME BatchesStayHome PROVE Spec => []GeometriesInTheirCollection
<1>1. Tagged(disk) => GeometriesInTheirCollection
  BY DEF Tagged, ColumnsAgree, GeometriesInTheirCollection
<1>2. QED
  BY <1>1, TaggedAlways, PTL

-----------------------------------------------------------------------------
(* The order of a property's values.                                       *)

\* Timestamps of a body ascend, as MF-JSON requires of datetimes.
TimesAscend == \A r \in Requests : \A i, j \in DOMAIN r.times : i < j => r.times[i] < r.times[j]


InOrder(db) ==
  /\ \A v \in DOMAIN db.values : LET times == db.values[v].times IN
        \A i, j \in DOMAIN times : i < j => times[i] < times[j]
  /\ \A v, w \in DOMAIN db.values :
        v < w /\ db.values[v].pid = db.values[w].pid =>
          \A i \in DOMAIN db.values[v].times, j \in DOMAIN db.values[w].times :
             db.values[v].times[i] < db.values[w].times[j]

\* Values that start after the last one of every row start after all of them.
LEMMA ValuesContinue ==
  ASSUME NEW db, IsDatabase(db), InOrder(db), NEW p, NEW times \in Seq(Instants),
         \A i, j \in DOMAIN times : i < j => times[i] < times[j],
         times # <<>> => Continues(db, p, Head(times)),
         NEW v \in DOMAIN db.values, db.values[v].pid = p
  PROVE  \A i \in DOMAIN db.values[v].times, j \in DOMAIN times :
            db.values[v].times[i] < times[j]
<1> DEFINE old == db.values[v].times
<1>1. old \in Seq(Instants) /\ Instants \subseteq Int
  BY InstantsAssumption DEF IsDatabase, IsTable, ValuesRow
<1>2. \A i, j \in DOMAIN old : i < j => old[i] < old[j]
  BY DEF InOrder
<1>3. ASSUME NEW i \in DOMAIN old, NEW j \in DOMAIN times PROVE old[i] < times[j]
  <2>1. times # <<>> /\ old # <<>>
    BY <1>1, <1>3
  <2>2. Continues(db, p, times[1])
    BY <2>1
  <2>3. v \in ValuesOf(db, p)
    BY DEF ValuesOf
  <2> HIDE DEF old
  <2>4. old[Len(old)] < times[1]
    <3>1. Last(old) < times[1]
      BY <2>1, <2>2, <2>3 DEF Continues, old
    <3>2. QED
      BY <3>1 DEF Last
  <2>5. /\ i \in 1..Len(old) /\ Len(old) \in DOMAIN old /\ j \in 1..Len(times)
        /\ 1 \in DOMAIN times /\ Len(old) \in Nat /\ Len(times) \in Nat
    BY <1>1, <1>3, <2>1
  <2>6. old[i] \in Int /\ old[Len(old)] \in Int /\ times[1] \in Int /\ times[j] \in Int
    <3>1. /\ old[i] \in Instants /\ old[Len(old)] \in Instants
          /\ times[1] \in Instants /\ times[j] \in Instants
      BY <1>1, <2>5
    <3>2. QED
      BY <1>1, <3>1
  <2>7. i = Len(old) \/ old[i] < old[Len(old)]
    BY <1>2, <2>5
  <2>8. j = 1 \/ times[1] < times[j]
    BY <2>5
  <2>9. QED
    BY <2>4, <2>6, <2>7, <2>8
<1>4. QED
  BY <1>3 DEF old

\* The one INSERT of values into rows that are there looked at all of them, and
\* draws a later key.
LEMMA ValuesStayOrdered ==
  ASSUME TimesAscend, NEW db, IsDatabase(db), InOrder(db), NEW n \in Nat, KeysDrawn(db, n),
         NEW new, NEW c, AlteredTables(db, new, c) \/ AddedTables(db, new, c, n + 1)
  PROVE  InOrder(new)
<1>1. CASE /\ DOMAIN new.values \subseteq DOMAIN db.values
           /\ SubTable(new.values, db.values)
  BY <1>1 DEF InOrder, SubTable
<1>2. CASE new.values = db.values
  BY <1>2 DEF InOrder
<1>3. ASSUME NEW p, NEW r \in Requests,
             r.times # <<>> => Continues(db, p, Head(r.times)),
             ValuesInserted(db, new, n + 1, p, r)
      PROVE  InOrder(new)
  <2> DEFINE times == r.times
             k == n + 1
             row == [pid |-> p, times |-> times, values |-> r.values]
  <2>1. times \in Seq(Instants) /\ \A i, j \in DOMAIN times : i < j => times[i] < times[j]
    BY RequestsAssumption DEF Request, TimesAscend
  <2>2. row.pid = p /\ row.times = times
    OBVIOUS
  <2>3. \A v \in DOMAIN db.values : v \in Nat /\ v < k
    BY DEF KeysDrawn, IsDatabase, IsTable
  <2> HIDE DEF row
  <2>4. /\ DOMAIN new.values = DOMAIN db.values \cup {k} /\ new.values[k] = row
        /\ \A v \in DOMAIN db.values : new.values[v] = db.values[v]
    BY <1>3, <2>3 DEF ValuesInserted, row
  <2>5. \A v \in DOMAIN db.values : db.values[v].pid = p =>
           \A i \in DOMAIN db.values[v].times, j \in DOMAIN times :
             db.values[v].times[i] < times[j]
    BY <1>3, <2>1, ValuesContinue
  <2>6. k \in Nat /\ ~(k < k)
    OBVIOUS
  <2> HIDE DEF times, k
  <2>7. \A v \in DOMAIN new.values :
           \A i, j \in DOMAIN new.values[v].times :
             i < j => new.values[v].times[i] < new.values[v].times[j]
    BY <2>1, <2>2, <2>4 DEF InOrder
  <2>8. ASSUME NEW v \in DOMAIN new.values, NEW w \in DOMAIN new.values,
               v < w, new.values[v].pid = new.values[w].pid
        PROVE  \A i \in DOMAIN new.values[v].times, j \in DOMAIN new.values[w].times :
                  new.values[v].times[i] < new.values[w].times[j]
    <3>1. v \in DOMAIN db.values
      BY <2>3, <2>4, <2>6, <2>8
    <3>2. CASE w = k
      BY <2>2, <2>4, <2>5, <2>8, <3>1, <3>2
    <3>3. CASE w \in DOMAIN db.values
      BY <2>4, <2>8, <3>1, <3>3 DEF InOrder
    <3>4. QED
      BY <2>4, <3>2, <3>3
  <2>9. QED
    BY <2>7, <2>8 DEF InOrder
<1>4. CASE AddedTables(db, new, c, n + 1)
  BY <1>2, <1>3, <1>4 DEF AddedTables, GeometryInserted, PropertyInserted
<1>5. CASE AlteredTables(db, new, c)
  <2>1. CASE \/ CollectionDeleted(db, new, c)
             \/ \E f : FeaturesDeleted(db, new, {f})
             \/ \E P : PropertiesDeleted(db, new, P)
    BY <1>1, <2>1 DEF CollectionDeleted, FeaturesDeleted, PropertiesDeleted, SubTable
  <2>2. QED
    BY <1>2, <1>5, <2>1
    DEF AlteredTables, TablesCreated, CollectionPut, FeatureInserted, FewTables, RowsUpdated
<1>6. QED
  BY <1>4, <1>5

\* While the timestamps of each body ascend, the rows of values are in order.
LEMMA OrderAlways == ASSUME TimesAscend PROVE Spec => []InOrder(disk)
<1> DEFINE Kept == InOrder(disk) /\ InOrder(work)
<1>1. Init => Kept
  BY DEF Init, EmptyDatabase, NoRows, InOrder
<1>2. TypeInv /\ TablesInv /\ Kept /\ [Next]_vars => Kept'
  <2> SUFFICES ASSUME TypeInv, TablesInv, Kept, [Next]_vars PROVE Kept'
    OBVIOUS
  <2>1. CASE disk' \in {disk, work} /\ work' \in {disk, work}
    BY <2>1
  <2>2. CASE OneStatement
    BY <2>2, ValuesStayOrdered DEF OneStatement, TablesInv
  <2>3. QED
    BY <2>1, <2>2, StepKinds
<1>3. Kept => InOrder(disk)
  OBVIOUS
<1>4. QED
  BY <1>1, <1>2, <1>3, TypeInvariant, TablesAlways, PTL DEF Spec

-----------------------------------------------------------------------------
(* The values of the timestamps.                                           *)

\* A row inserted after another one of the same property has a value for every
\* timestamp.
Paired(db) ==
  \A v, w \in DOMAIN db.values :
    v < w /\ db.values[v].pid = db.values[w].pid =>
      Len(db.values[w].times) = Len(db.values[w].values)

\* The INSERT that looks at no lengths finds no row of the property.
LEMMA ValuesStayPaired ==
  ASSUME NEW db, IsDatabase(db), Paired(db), NEW n \in Nat, KeysDrawn(db, n),
         NEW new, NEW c, AlteredTables(db, new, c) \/ AddedTables(db, new, c, n + 1)
  PROVE  Paired(new)
<1>1. CASE /\ DOMAIN new.values \subseteq DOMAIN db.values
           /\ SubTable(new.values, db.values)
  BY <1>1 DEF Paired, SubTable
<1>2. CASE new.values = db.values
  BY <1>2 DEF Paired
<1>3. ASSUME NEW p, NEW r \in Requests,
             ValuesOf(db, p) = {} \/ Len(r.times) = Len(r.values),
             ValuesInserted(db, new, n + 1, p, r)
      PROVE  Paired(new)
  <2> DEFINE k == n + 1
             row == [pid |-> p, times |-> r.times, values |-> r.values]
  <2>1. row.pid = p /\ row.times = r.times /\ row.values = r.values
    OBVIOUS
  <2>2. \A v \in DOMAIN db.values : v \in Nat /\ v < k
    BY DEF KeysDrawn, IsDatabase, IsTable
  <2> HIDE DEF row
  <2>3. /\ DOMAIN new.values = DOMAIN db.values \cup {k} /\ new.values[k] = row
        /\ \A v \in DOMAIN db.values : new.values[v] = db.values[v]
    BY <1>3, <2>2 DEF ValuesInserted, row
  <2>4. k \in Nat /\ ~(k < k)
    OBVIOUS
  <2> HIDE DEF k
  <2>5. ASSUME NEW v \in DOMAIN new.values, NEW w \in DOMAIN new.values,
               v < w, new.values[v].pid = new.values[w].pid
        PROVE  Len(new.values[w].times) = Len(new.values[w].values)
    <3>1. v \in DOMAIN db.values
      BY <2>2, <2>3, <2>4, <2>5
    <3>2. CASE w = k
      <4>1. v \in ValuesOf(db, p)
        BY <2>1, <2>3, <2>5, <3>1, <3>2 DEF ValuesOf
      <4>2. QED
        BY <1>3, <2>1, <2>3, <3>2, <4>1
    <3>3. CASE w \in DOMAIN db.values
      BY <2>3, <2>5, <3>1, <3>3 DEF Paired
    <3>4. QED
      BY <2>3, <3>2, <3>3
  <2>6. QED
    BY <2>5 DEF Paired
<1>4. CASE AddedTables(db, new, c, n + 1)
  BY <1>2, <1>3, <1>4 DEF AddedTables, GeometryInserted, PropertyInserted
<1>5. CASE AlteredTables(db, new, c)
  <2>1. CASE \/ CollectionDeleted(db, new, c)
             \/ \E f : FeaturesDeleted(db, new, {f})
             \/ \E P : PropertiesDeleted(db, new, P)
    BY <1>1, <2>1 DEF CollectionDeleted, FeaturesDeleted, PropertiesDeleted, SubTable
  <2>2. QED
    BY <1>2, <1>5, <2>1
    DEF AlteredTables, TablesCreated, CollectionPut, FeatureInserted, FewTables, RowsUpdated
<1>6. QED
  BY <1>4, <1>5

\* So only the rows that properties are created with can lack values.
LEMMA PairedAlways == Spec => []Paired(disk)
<1> DEFINE Kept == Paired(disk) /\ Paired(work)
<1>1. Init => Kept
  BY DEF Init, EmptyDatabase, NoRows, Paired
<1>2. TypeInv /\ TablesInv /\ Kept /\ [Next]_vars => Kept'
  <2> SUFFICES ASSUME TypeInv, TablesInv, Kept, [Next]_vars PROVE Kept'
    OBVIOUS
  <2>1. CASE disk' \in {disk, work} /\ work' \in {disk, work}
    BY <2>1
  <2>2. CASE OneStatement
    BY <2>2, ValuesStayPaired DEF OneStatement, TablesInv
  <2>3. QED
    BY <2>1, <2>2, StepKinds
<1>3. Kept => Paired(disk)
  OBVIOUS
<1>4. QED
  BY <1>1, <1>2, <1>3, TypeInvariant, TablesAlways, PTL DEF Spec

\* While the timestamps of each body ascend, a property's values do: of two of
\* its rows the one inserted later holds later timestamps only.
THEOREM ValuesStayInOrder == ASSUME TimesAscend PROVE Spec => []ValuesInOrder
<1>1. InOrder(disk) => ValuesInOrder
  <2> SUFFICES ASSUME InOrder(disk) PROVE ValuesInOrder
    OBVIOUS
  <2>1. ASSUME NEW v \in DOMAIN disk.values, NEW w \in DOMAIN disk.values,
               v < w, disk.values[v].pid = disk.values[w].pid,
               NEW t \in ToSet(disk.values[v].times), NEW u \in ToSet(disk.values[w].times)
        PROVE  t < u
    <3>1. /\ \E i \in DOMAIN disk.values[v].times : t = disk.values[v].times[i]
          /\ \E j \in DOMAIN disk.values[w].times : u = disk.values[w].times[j]
      BY <2>1 DEF ToSet
    <3>2. QED
      BY <2>1, <3>1 DEF InOrder
  <2>2. QED
    BY <2>1 DEF ValuesInOrder
<1>2. QED
  BY <1>1, OrderAlways, PTL
=============================================================================
