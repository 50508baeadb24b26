---------------------------- MODULE MobilityAPI ----------------------------
(***************************************************************************)
(* The server: the handlers of every resource over the one session they    *)
(* share, the requests of its clients, and the failures around it.         *)
(***************************************************************************)
EXTENDS Collections, MovingFeatures, Bulk, TemporalGeometries, TemporalProperties

\* How each handler refuses a request before its first statement: a body that
\* is not JSON, in an except clause of its own or in the general one; a body or
\* query string that does not validate.
DecodeErrorAnswered == {"post_collections", "put_collection", "post_tproperties",
                        "post_temporal_property"}
DecodeErrorRaised   == {"post_collection_items", "put_single_moving_feature",
                        "post_tgsequence"}
ValidatedFirst      == {"post_collections", "post_temporal_property",
                        "get_collection_items", "get_tproperties",
                        "get_temporal_property"}

FaultyLengthsDiffer_unchecked == FALSE
\* validate_value_data compares the two arrays; no other handler does.
LengthsDiffer ==
  req.op = "post_temporal_property" /\ req.form # "bad json" /\ Len(req.times) # Len(req.values)

ReadBody ==
  /\ pc = "start"
  /\ \/ req.form = "bad json" /\ req.op \in DecodeErrorAnswered /\ AnswerInExcept(400)
     \/ /\ req.form = "bad json" /\ req.op \in DecodeErrorRaised
        /\ Raise(ExceptStatus(req.op, "other"))
     \/ req.form = "invalid" /\ req.op \in ValidatedFirst /\ Answer(400)
     \/ LengthsDiffer /\ Answer(400)
     \/ /\ req.form = "invalid" /\ req.op = "post_collection_items"
        /\ Raise(ExceptStatus(req.op, "DataError"))
     \/ req.op = "get_acceleration" /\ Answer(501)
     \/ /\ req.form = "bad json" => req.op \notin DecodeErrorAnswered \cup DecodeErrorRaised
        /\ req.form = "invalid" => req.op \notin ValidatedFirst
        /\ ~LengthsDiffer /\ req.op # "get_acceleration"
        /\ Goto("check")

\* The handlers that only query.
NeedsCollection == Reads \ {"get_collections"}
NeedsFeature == {"get_movement_single_moving_feature", "get_tgsequence",
                 "get_tproperties", "get_temporal_property",
                 "get_distance", "get_velocity"}
NeedsMember == {"get_distance", "get_velocity"}
NeedsTables == {"get_tproperties", "get_temporal_property"}

Counting == NeedsMember \cup {"get_tgsequence"}

HasMember ==
  \E g \in GeometriesIn(work, req.cid, req.fid) : req.n \in DOMAIN work.geometries[g].traj

\* The speed over a member that is a single instant is NULL.
HasSpeed ==
  \E g \in GeometriesIn(work, req.cid, req.fid) : LET traj == work.geometries[g].traj IN
     req.n \in DOMAIN traj /\ Cardinality(traj[req.n]) > 1

Found ==
  /\ req.op \in NeedsCollection => HasCollection(work, req.cid)
  /\ req.op \in NeedsFeature => HasFeature(work, req.cid, req.fid)

\* The list of items parses the geometry column of every row with a trajectory.
\* A filter or a limit may leave the row out, subTrajectory does not need it.
HasUnlistable ==
  \E g \in DOMAIN work.geometries : LET row == work.geometries[g] IN
     work.features[row.fid].cid = req.cid /\ row.traj # Null /\ ~row.geometry

Read ==
  /\ pc = "check" /\ req.op \in Reads /\ Usable
  /\ \/ ~Found /\ Answer(404)
     \/ Found /\ req.op \in NeedsMember /\ req.form = "invalid" /\ Answer(400)
     \/ /\ Found /\ req.op \in NeedsMember /\ req.form # "invalid" /\ ~HasMember
        /\ Answer(404)
     \/ /\ Found /\ req.op = "get_velocity" /\ req.form # "invalid" /\ ~HasSpeed
        /\ Answer(404)
     \/ Found /\ req.op \in NeedsTables /\ ~HasPropertyTables /\ StatementFails(500)
     \/ /\ Found /\ req.op = "get_temporal_property" /\ HasPropertyTables
        /\ Named = {} /\ Answer(404)
     \/ Found /\ req.op \in Counting /\ req.form # "invalid" /\ CountingMayFail
          /\ StatementFails(500)
     \/ Found /\ req.op = "get_collection_items" /\ HasUnlistable /\ Raise(500)
     \/ /\ Found
        /\ req.op = "get_collection_items" /\ HasUnlistable => req.form = "filtered"
        /\ req.op \in NeedsMember => req.form # "invalid" /\ HasMember
        /\ req.op = "get_velocity" => HasSpeed
        /\ req.op \in NeedsTables => HasPropertyTables
        /\ req.op = "get_temporal_property" => Named # {}
        /\ Answer(200)

Init ==
  /\ disk = EmptyDatabase /\ work = EmptyDatabase /\ tx = "ok" /\ serial = 0
  /\ req = NoRequest /\ before = Blank
  /\ pc = "idle" /\ code = 0 /\ todo = <<>> /\ made = {}

\* The steps the server's one thread takes by itself once it has a request.
ServerStep ==
  \/ ReadBody \/ Read
  \/ post_collections \/ post_collections_insert \/ put_collection \/ delete_collection
  \/ post_collection_items \/ put_single_moving_feature
  \/ delete_single_moving_feature
  \/ insert_feature_tables \/ insert_feature_row \/ insert_feature_geometry
  \/ post_bulk \/ append_observations_row \/ append_observations_instant
  \/ post_tgsequence \/ delete_single_temporal_primitive_geo
  \/ NoSuchFeature \/ NoPropertyTables
  \/ post_tproperties \/ post_tproperties_values
  \/ post_temporal_property \/ delete_temporal_property
  \/ StatementError \/ Commit \/ Except \/ Respond

Environment == Receive \/ ClientGone \/ DatabaseRestart \/ Kill \/ Interrupt

Next == ServerStep \/ Environment

Spec == Init /\ [][Next]_vars

\* The thread keeps running the handler it is in; nothing makes clients send
\* requests, and no failure has to happen.
FairSpec == Spec /\ WF_vars(ServerStep)

-----------------------------------------------------------------------------
(* Properties.                                                             *)

Answering == pc \in {"respond", "respond in except"}
Refused   == Answering /\ code >= 400
Accepted  == pc = "respond" /\ code < 400
Rows(db)  == [db EXCEPT !.ddl = {}]

TypeOK ==
  /\ IsDatabase(disk) /\ IsDatabase(work)
  /\ tx \in {"ok", "inerror", "closed"} /\ serial \in Nat
  /\ req \in Requests \cup {NoRequest} /\ (req = NoRequest <=> pc = "idle")
  /\ IsDatabase(before.db) /\ before.tx \in {"ok", "inerror", "closed"}
  /\ pc \in Labels /\ code \in Nat
  /\ todo \in Seq(Items) /\ made \subseteq FeatureIds

\* Every foreign key resolves, in the committed database and in the open
\* transaction: no order of requests, deletes and failures makes a handler
\* insert a row whose parent it checked earlier and that is gone by then.
References == ReferencesHold(disk) /\ ReferencesHold(work)

\* Nothing uncommitted outlives the request that wrote it: when the handler
\* answers, and while the server waits for the next request, the session holds
\* no write that a later rollback could undo or a later commit publish.
NothingPending ==
  pc \in {"idle", "start", "check", "respond", "respond in except"} => work = disk

\* A request that is refused left the committed rows as it found them.  The
\* handlers that commit in their middle are the exception; see the next three.
RefusedLeavesNoTrace ==
  /\ Refused
  /\ req.op \notin {"post_collection_items", "put_single_moving_feature",
                    "post_tproperties"}
  => Rows(disk) = Rows(before.db)

\* A refused POST of features keeps those before the failing one, the last of
\* them possibly excepted, and adds nothing else.
RefusedBatchKeepsPrefix ==
  Refused /\ req.op = "post_collection_items" =>
    LET new == DOMAIN disk.features \ DOMAIN before.db.features
    IN  /\ DOMAIN before.db.features \subseteq DOMAIN disk.features
        /\ new \subseteq made /\ Cardinality(made \ new) <= 1

\* A refused PUT of a feature can lose that feature, and nothing else.
RefusedReplaceLosesAtMostItsFeature ==
  Refused /\ req.op = "put_single_moving_feature" =>
    Rows(disk) \in {Rows(before.db), Rows(DeleteFeatures(before.db, {req.fid}))}

\* A refused POST of a property with values can leave the property behind,
\* without values.
RefusedPropertyHasNoValues ==
  Refused /\ req.op = "post_tproperties" =>
    \/ Rows(disk) = Rows(before.db)
    \/ /\ req.form \in {"with values", "with bad values"}
       /\ Rows(disk) = Rows(InsertPropertyRow(before.db, serial, req.fid, req.name))

\* A PUT of a feature is "in one transaction": refused, it changed nothing.
ReplaceIsOneTransaction ==
  Refused /\ req.op = "put_single_moving_feature" => Rows(disk) = Rows(before.db)

TrajectoriesOf(db, f) == {db.geometries[g].traj : g \in GeometriesOf(db, f)}
InstantsIn(db, f) == UNION {InstantsOf(traj) : traj \in TrajectoriesOf(db, f)}

\* The trajectories a posted Feature asks for.
Posted(item) == IF item.kind = "ok" THEN {item.traj} ELSE {}

\* Every observation of the batch is in a trajectory of its feature, and no
\* trajectory lost an instant it had in old.
BatchApplied(items, old, new) ==
  /\ \A n \in DOMAIN items :
        /\ items[n].id \in DOMAIN new.features
        /\ items[n].traj[1] \subseteq InstantsIn(new, items[n].id)
  /\ \A g \in DOMAIN old.geometries :
        /\ g \in DOMAIN new.geometries
        /\ InstantsOf(old.geometries[g].traj) \subseteq InstantsOf(new.geometries[g].traj)

\* What the success of each handler says of the committed databases before and
\* after it; ids are the features it created, key the last SERIAL value drawn.
CollectionIsPut(r, old, new) == Rows(new) = Rows(PutCollectionRow(old, r.cid, r.title))

CollectionIsGone(r, old, new) ==
  /\ r.cid \notin DOMAIN new.collections
  /\ \A f \in DOMAIN new.features : new.features[f].cid # r.cid
  /\ \A g \in DOMAIN new.geometries : new.geometries[g].cid # r.cid
  /\ DOMAIN new.collections = DOMAIN old.collections \ {r.cid}

\* A Feature whose id was taken is passed over.
FeaturesArePosted(r, old, new, ids) ==
  /\ DOMAIN new.features = DOMAIN old.features \cup ids
  /\ \A f \in ids : new.features[f].cid = r.cid
  /\ \A f \in DOMAIN old.features : new.features[f] = old.features[f]
  /\ \A n \in DOMAIN r.items : LET item == r.items[n] IN
       /\ item.id \in DOMAIN new.features \cup {NoId}
       /\ item.id \in ids /\ (\A m \in 1..n-1 : r.items[m].id # item.id)
            => TrajectoriesOf(new, item.id) = Posted(item)

FeatureIsReplaced(r, old, new) ==
  /\ DOMAIN new.features = DOMAIN old.features
  /\ new.features[r.fid].cid = r.cid
  /\ TrajectoriesOf(new, r.fid) = Posted(r.items[1])
  /\ PropertiesOf(new, r.fid) = {}

GeometryIsAdded(r, old, new, key) ==
  Rows(new) = Rows(InsertGeometryRow(old, key, r.fid, r.cid, r.items[1].traj, TRUE))

PropertyIsAdded(r, old, new) ==
  /\ DOMAIN new.geometries = DOMAIN old.geometries
  /\ \E p \in PropertiesNamed(new, r.fid, r.name) :
       /\ new.properties = InsertPropertyRow(old, p, r.fid, r.name).properties
       /\ {new.values[v] : v \in ValuesOf(new, p)} =
            IF r.form = "with values"
            THEN {[pid |-> p, times |-> r.times, values |-> r.values]} ELSE {}

ValuesAreAdded(r, old, new, key) ==
  \E p \in PropertiesNamed(old, r.fid, r.name) :
    Rows(new) = Rows(InsertValuesRow(old, key, p, r))

PropertyIsGone(r, old, new) ==
  Rows(new) = Rows(DeleteProperties(old, PropertiesNamed(old, r.fid, r.name)))

MemberIsGone(r, old, new) ==
  \A g \in GeometriesOf(old, r.fid) :
    GeometriesOf(old, r.fid) = {g} =>
      new.geometries[g].traj = RemoveAt(old.geometries[g].traj, r.n)

TookEffect(r, old, new, ids, key) ==
  CASE r.op \in {"post_collections", "put_collection"} -> CollectionIsPut(r, old, new)
    [] r.op = "delete_collection" -> CollectionIsGone(r, old, new)
    [] r.op = "post_collection_items" -> FeaturesArePosted(r, old, new, ids)
    [] r.op = "put_single_moving_feature" -> FeatureIsReplaced(r, old, new)
    [] r.op = "delete_single_moving_feature" -> Rows(new) = Rows(DeleteFeatures(old, {r.fid}))
    [] r.op = "post_bulk" -> BatchApplied(r.items, old, new)
    [] r.op = "post_tgsequence" -> GeometryIsAdded(r, old, new, key)
    [] r.op = "post_tproperties" -> PropertyIsAdded(r, old, new)
    [] r.op = "post_temporal_property" -> ValuesAreAdded(r, old, new, key)
    [] r.op = "delete_temporal_property" -> PropertyIsGone(r, old, new)
    [] r.op = "delete_single_temporal_primitive_geo" -> MemberIsGone(r, old, new)
    [] OTHER -> Rows(new) = Rows(old)

\* What a client was told is so is committed: each handler's success status
\* goes out only after the database holds exactly what the request asks for.
AcceptedTookEffect == Accepted => TookEffect(req, before.db, disk, made, serial)

\* "The whole batch commits atomically": a commit made while a bulk request is
\* served contains the whole batch.
BulkIsAtomic ==
  [][req # NoRequest /\ req.op = "post_bulk" /\ disk' # disk
       => BatchApplied(req.items, disk, disk')]_vars

\* Serving a request addressed to one collection leaves the collections,
\* features and geometries of the others as they are.
OtherCollectionsUntouched ==
  [][req # NoRequest =>
       /\ \A c \in DOMAIN disk.collections \ {req.cid} :
             /\ c \in DOMAIN disk'.collections
             /\ disk'.collections[c] = disk.collections[c]
       /\ \A f \in DOMAIN disk.features : disk.features[f].cid # req.cid =>
             /\ f \in DOMAIN disk'.features
             /\ disk'.features[f] = disk.features[f]
             /\ TrajectoriesOf(disk', f) = TrajectoriesOf(disk, f)]_vars

\* A geometry carries the collection of its feature, although the table keeps
\* the two apart and insert_feature and append_observations fill them.
GeometriesInTheirCollection ==
  \A g \in DOMAIN disk.geometries : LET row == disk.geometries[g] IN
     row.cid = disk.features[row.fid].cid

\* "201 success + Location": the tGeometryId of the Location, as every other
\* handler reads it, is that of the geometry that was created.
LocationNamesTheGeometry ==
  Accepted /\ req.op = "post_tgsequence" =>
    \E g \in GeometriesIn(disk, req.cid, req.fid) :
       LET traj == disk.geometries[g].traj IN
         serial \in DOMAIN traj /\ traj[serial] = req.items[1].traj[1]

\* Deleting a member "keeps the other members distinct": one trajectory loses
\* that member, and the feature's others are as they were.
DeleteKeepsOtherMembers ==
  Accepted /\ req.op = "delete_single_temporal_primitive_geo" =>
    \E g \in GeometriesIn(disk, req.cid, req.fid) :
       LET Old(h) == before.db.geometries[h].traj
           New(h) == disk.geometries[h].traj
       IN  /\ New(g) = RemoveAt(Old(g), req.n)
           /\ \A h \in DOMAIN disk.geometries \ {g} : New(h) = Old(h)

\* However many rows a feature has, deleting members one after the other never
\* leaves it without a geometry: the last one answers 409.
DeleteLeavesAMember ==
  Accepted /\ req.op = "delete_single_temporal_primitive_geo" =>
    InstantsIn(disk, req.fid) # {}

\* The items of a collection that is there can be listed, whatever handler wrote
\* them: a plain GET on a sound session answers 200.
ListingAnswers ==
  /\ Answering /\ req.op = "get_collection_items" /\ req.form = "ok"
  /\ before.tx = "ok" /\ HasCollection(before.db, req.cid)
  => code = 200

\* A property name is unique within its feature: the table has no such
\* constraint, the check-then-insert of post_tproperties stands in for it.
PropertyNamesUnique ==
  \A p, q \in DOMAIN disk.properties :
     disk.properties[p] = disk.properties[q] => p = q

\* "New values must start after existing data": of two rows of one property,
\* the one inserted later holds later timestamps only.
ValuesInOrder ==
  \A v, w \in DOMAIN disk.values :
     v < w /\ disk.values[v].pid = disk.values[w].pid =>
       \A t \in ToSet(disk.values[v].times), u \in ToSet(disk.values[w].times) : t < u

\* The bbox and time columns agree with the geometries, or were never set:
\* the trigger starts to exist with the first call of insert_feature, and is
\* the only writer of the two columns.
ExtentsCurrentOrUnset ==
  \A f \in DOMAIN disk.features :
     disk.features[f].extent \in {{}, ExtentOf(disk, f)}

\* Only the handlers that do not roll back hand an aborted transaction on to
\* the next request.
OnlyUnguardedReadsPoison ==
  [][pc # "idle" /\ pc' = "idle" /\ tx' = "inerror" /\ before.tx = "ok"
       => req.op \in SilentReads \cup {"export_collection"}]_vars

\* An aborted transaction ends, provided requests whose handlers roll back
\* keep reaching the database.
PoisonIsCleared ==
  []<>(pc = "check" /\ req.op \in RollsBack) => []<>(tx # "inerror")

\* The handler of every request ends: no batch, failure or lost connection
\* keeps the server's only thread.
RequestsEnd == (pc # "idle") ~> (pc = "idle")
=============================================================================
