--------------------------- MODULE AnswersProofs ---------------------------
(***************************************************************************)
(* What MobilityAPI's handlers leave behind when they answer, for every    *)
(* set of identifiers, requests and faults: what a request does to the     *)
(* collections it does not name, to a feature's last member, to a batch,   *)
(* and what a refusal leaves of the three handlers that commit in their    *)
(* middle.  And what they answer: the values of a property that its reads  *)
(* show.                                                                   *)
(***************************************************************************)
EXTENDS TablesProofs, PropertyReads, FiniteSetTheorems, WellFoundedInduction

-----------------------------------------------------------------------------
(* The collections that a request does not name.                           *)

\* What two databases have in common outside collection c.
OthersSame(a, b, c) ==
  /\ \A d \in DOMAIN a.collections \ {c} :
        d \in DOMAIN b.collections /\ b.collections[d] = a.collections[d]
  /\ \A f \in DOMAIN a.features : a.features[f].cid # c =>
        /\ f \in DOMAIN b.features /\ b.features[f] = a.features[f]
        /\ TrajectoriesOf(b, f) = TrajectoriesOf(a, f)

\* It is common to three when it is to each two.
LEMMA OthersSameTransitive ==
  ASSUME NEW x, NEW y, NEW z, NEW c, OthersSame(x, y, c), OthersSame(y, z, c)
  PROVE  OthersSame(x, z, c)
  BY DEF OthersSame

\* The trajectories of a feature are read off its geometries.
LEMMA TrajectoriesSame ==
  ASSUME NEW db, NEW new, NEW f,
         \A g : g \in GeometriesOf(new, f) <=> g \in GeometriesOf(db, f),
         \A g \in GeometriesOf(db, f) : new.geometries[g].traj = db.geometries[g].traj
  PROVE  TrajectoriesOf(new, f) = TrajectoriesOf(db, f)
<1>1. GeometriesOf(new, f) = GeometriesOf(db, f)
  OBVIOUS
<1>2. QED
  BY <1>1 DEF TrajectoriesOf

\* A statement of a handler touches the collection of its path only, a batch
\* the features of its own while batches stay home.
LEMMA OthersKept ==
  ASSUME NEW db, IsDatabase(db), Tagged(db), ReferencesHold(db), NEW new, NEW c,
         NEW n \in Nat, \A g \in DOMAIN db.geometries : g # n,
         AlteredTables(db, new, c) \/ AddedTables(db, new, c, n)
  PROVE  OthersSame(db, new, c)
<1> USE DEF GeometriesOf
<1>1. ASSUME new.collections = db.collections, new.features = db.features,
             new.geometries = db.geometries
      PROVE  OthersSame(db, new, c)
  BY <1>1, TrajectoriesSame DEF OthersSame
<1>2. ASSUME \A d \in DOMAIN db.collections \ {c} :
               d \in DOMAIN new.collections /\ new.collections[d] = db.collections[d],
             \A f \in DOMAIN db.features : db.features[f].cid # c =>
               /\ f \in DOMAIN new.features /\ new.features[f] = db.features[f]
               /\ \A g : g \in GeometriesOf(new, f) <=> g \in GeometriesOf(db, f)
               /\ \A g \in GeometriesOf(db, f) : new.geometries[g].traj = db.geometries[g].traj
      PROVE  OthersSame(db, new, c)
  BY <1>2, TrajectoriesSame DEF OthersSame
<1>3. CASE CollectionPut(db, new, c)
  BY <1>2, <1>3 DEF CollectionPut, FewTables
<1>4. CASE CollectionDeleted(db, new, c)
  <2>1. \A g \in DOMAIN db.geometries :
          db.geometries[g].cid = db.features[db.geometries[g].fid].cid
    BY DEF Tagged, ColumnsAgree
  <2>2. \A g \in DOMAIN new.geometries : new.geometries[g] = db.geometries[g]
    BY <1>4 DEF CollectionDeleted, SubTable
  <2>3. ASSUME NEW f \in DOMAIN db.features, db.features[f].cid # c
        PROVE  /\ f \in DOMAIN new.features /\ new.features[f] = db.features[f]
               /\ \A g : g \in GeometriesOf(new, f) <=> g \in GeometriesOf(db, f)
               /\ \A g \in GeometriesOf(db, f) : new.geometries[g].traj = db.geometries[g].traj
    <3>1. f \in DOMAIN new.features /\ new.features[f] = db.features[f]
      BY <1>4, <2>3 DEF CollectionDeleted, SubTable
    <3>2. \A g : g \in DOMAIN new.geometries <=>
            /\ g \in DOMAIN db.geometries /\ db.geometries[g].cid # c
            /\ ~(/\ db.geometries[g].fid \in DOMAIN db.features
                 /\ db.features[db.geometries[g].fid].cid = c)
      BY <1>4 DEF CollectionDeleted
    <3>3. \A g : g \in GeometriesOf(new, f) <=> g \in GeometriesOf(db, f)
      BY <2>1, <2>2, <2>3, <3>2
    <3>4. QED
      BY <2>2, <3>1, <3>3
  <2>4. \A d \in DOMAIN db.collections \ {c} :
          d \in DOMAIN new.collections /\ new.collections[d] = db.collections[d]
    BY <1>4 DEF CollectionDeleted, SubTable
  <2>5. QED
    BY <1>2, <2>3, <2>4
<1>5. CASE \E f \in FeatureIds \ DOMAIN db.features : FeatureInserted(db, new, f, c)
  BY <1>2, <1>5 DEF FeatureInserted, FewTables
<1>6. CASE \E f : HasFeature(db, c, f) /\ FeaturesDeleted(db, new, {f})
  <2>1. PICK e : HasFeature(db, c, e) /\ FeaturesDeleted(db, new, {e})
    BY <1>6
  <2>2. \A g \in DOMAIN new.geometries : new.geometries[g] = db.geometries[g]
    BY <2>1 DEF FeaturesDeleted, SubTable
  <2>3. ASSUME NEW f \in DOMAIN db.features, db.features[f].cid # c
        PROVE  /\ f \in DOMAIN new.features /\ new.features[f] = db.features[f]
               /\ \A g : g \in GeometriesOf(new, f) <=> g \in GeometriesOf(db, f)
               /\ \A g \in GeometriesOf(db, f) : new.geometries[g].traj = db.geometries[g].traj
    <3>1. f # e
      BY <2>1, <2>3 DEF HasFeature
    <3>2. QED
      BY <2>1, <2>2, <3>1 DEF FeaturesDeleted, SubTable
  <2>4. new.collections = db.collections
    BY <2>1 DEF FeaturesDeleted
  <2>5. QED
    BY <1>2, <2>3, <2>4
<1>7. CASE RemovesMember(db, new, c)
  <2>1. PICK e \in FeatureIds, k \in Int :
          /\ HasFeature(db, c, e)
          /\ new = UpdateTrajectories(db,
                     [g \in GeometriesIn(db, c, e) |-> RemoveMember(db.geometries[g].traj, k)])
    BY <1>7 DEF RemovesMember
  <2> DEFINE trajs == [g \in GeometriesIn(db, c, e) |-> RemoveMember(db.geometries[g].traj, k)]
  <2>2. \A g \in DOMAIN trajs : trajs[g] \in Trajectories
    <3>1. \A g \in DOMAIN db.geometries : db.geometries[g].traj \in Trajectories
      BY DEF IsDatabase, IsTable, GeometryRow
    <3>2. QED
      BY <3>1, RemoveMemberType DEF GeometriesIn
  <2>3. DOMAIN trajs = GeometriesIn(db, c, e) /\ new = UpdateTrajectories(db, trajs)
    BY <2>1
  <2> HIDE DEF trajs
  <2>4. TrajectoriesUpdated(db, new, trajs)
    BY <2>2, <2>3, UpdateTrajectoriesFields
  <2>5. ASSUME NEW f \in DOMAIN db.features, db.features[f].cid # c
        PROVE  /\ f \in DOMAIN new.features /\ new.features[f] = db.features[f]
               /\ \A g : g \in GeometriesOf(new, f) <=> g \in GeometriesOf(db, f)
               /\ \A g \in GeometriesOf(db, f) : new.geometries[g].traj = db.geometries[g].traj
    <3>1. f # e
      BY <2>1, <2>5 DEF HasFeature
    <3>2. \A g \in GeometriesOf(db, f) : g \notin DOMAIN trajs
      BY <2>3, <3>1 DEF GeometriesIn
    <3>3. DOMAIN trajs \cap GeometriesIn(db, db.features[f].cid, f) = {}
      BY <3>2 DEF GeometriesIn
    <3>4. QED
      BY <2>4, <3>2, <3>3 DEF TrajectoriesUpdated
  <2>6. new.collections = db.collections
    BY <2>4 DEF TrajectoriesUpdated
  <2>7. QED
    BY <1>2, <2>5, <2>6
<1>8. CASE AppendsInstant(db, new, c)
  <2>1. PICK e \in FeatureIds, instant \in SUBSET Instants :
          /\ e \in DOMAIN db.features /\ Batched(c, e)
          /\ new = UpdateTrajectories(db,
                     [g \in GeometriesOf(db, e) |-> AppendInstant(db.geometries[g].traj, instant)])
    BY <1>8 DEF AppendsInstant
  <2> DEFINE rows == GeometriesOf(db, e)
             trajs == [g \in rows |-> AppendInstant(db.geometries[g].traj, instant)]
  <2>2. \A g \in DOMAIN trajs : trajs[g] \in Trajectories
    <3>1. \A g \in DOMAIN db.geometries : db.geometries[g].traj \in Trajectories
      BY DEF IsDatabase, IsTable, GeometryRow
    <3>2. QED
      BY <3>1, AppendInstantType
  <2>3. DOMAIN trajs = GeometriesOf(db, e) /\ new = UpdateTrajectories(db, trajs)
    BY <2>1
  <2>4. db.features[e].cid = c
    BY <2>1 DEF Tagged, AtHome
  <2> HIDE DEF trajs, rows
  <2>5. TrajectoriesUpdated(db, new, trajs)
    BY <2>2, <2>3, UpdateTrajectoriesFields
  <2>6. ASSUME NEW f \in DOMAIN db.features, db.features[f].cid # c
        PROVE  /\ f \in DOMAIN new.features /\ new.features[f] = db.features[f]
               /\ \A g : g \in GeometriesOf(new, f) <=> g \in GeometriesOf(db, f)
               /\ \A g \in GeometriesOf(db, f) : new.geometries[g].traj = db.geometries[g].traj
    <3>1. f # e
      BY <2>4, <2>6
    <3>2. \A g \in GeometriesOf(db, f) : g \notin DOMAIN trajs
      BY <2>3, <3>1
    <3>3. DOMAIN trajs \cap GeometriesIn(db, db.features[f].cid, f) = {}
      BY <3>2 DEF GeometriesIn
    <3>4. QED
      BY <2>5, <3>2, <3>3 DEF TrajectoriesUpdated
  <2>7. new.collections = db.collections
    BY <2>5 DEF TrajectoriesUpdated
  <2>8. QED
    BY <1>2, <2>6, <2>7
<1>9. CASE \E f \in DOMAIN db.features, traj \in Trajectories, geometry \in BOOLEAN :
             /\ IF geometry THEN HasFeature(db, c, f) ELSE Batched(c, f)
             /\ GeometryInserted(db, new, n, f, c, traj, geometry)
  <2>1. PICK e \in DOMAIN db.features, traj \in Trajectories, geometry \in BOOLEAN :
          HasFeature(db, c, e) /\ GeometryInserted(db, new, n, e, c, traj, geometry)
    BY <1>9 DEF Tagged, AtHome, HasFeature
  <2>2. ASSUME NEW f \in DOMAIN db.features, db.features[f].cid # c
        PROVE  /\ f \in DOMAIN new.features /\ new.features[f] = db.features[f]
               /\ \A g : g \in GeometriesOf(new, f) <=> g \in GeometriesOf(db, f)
               /\ \A g \in GeometriesOf(db, f) : new.geometries[g].traj = db.geometries[g].traj
    <3>1. f # e
      BY <2>1, <2>2 DEF HasFeature
    <3>2. new.geometries[n].fid = e
      BY <2>1 DEF GeometryInserted
    <3>3. QED
      BY <2>1, <3>1, <3>2 DEF GeometryInserted
  <2>3. new.collections = db.collections
    BY <2>1 DEF GeometryInserted
  <2>4. QED
    BY <1>2, <2>2, <2>3
<1>10. CASE AlteredTables(db, new, c)
  BY <1>1, <1>3, <1>4, <1>5, <1>6, <1>7, <1>8, <1>10
  DEF AlteredTables, TablesCreated, PropertiesDeleted, FewTables
<1>11. CASE AddedTables(db, new, c, n)
  <2>1. CASE \/ \E f \in DOMAIN db.features, name \in PropertyNames : PropertyInserted(db, new, n, f, name)
             \/ \E p \in DOMAIN db.properties, r \in Requests : ValuesInserted(db, new, n, p, r)
    BY <1>1, <2>1 DEF PropertyInserted, ValuesInserted
  <2>2. CASE \E f \in DOMAIN db.features, traj \in Trajectories, geometry \in BOOLEAN :
               /\ IF geometry THEN HasFeature(db, c, f) ELSE Batched(c, f)
               /\ GeometryInserted(db, new, n, f, c, traj, geometry)
    BY <1>9, <2>2
  <2>3. QED
    BY <1>11, <2>1, <2>2 DEF AddedTables
<1>12. QED
  BY <1>10, <1>11

\* While the features that batches name are created in the collection of the
\* batch only, serving a request addressed to one collection never changes what
\* is committed of the others.
THEOREM OthersStayUntouched == ASSUME BatchesStayHome PROVE Spec => OtherCollectionsUntouched
<1> DEFINE Same == req # NoRequest => OthersSame(disk, work, req.cid)
           Sound == Tagged(disk) /\ Tagged(work)
           Untouched == req # NoRequest => OthersSame(disk, disk', req.cid)
<1>1. Init => Same
  BY DEF Init
<1>2. TypeInv /\ TablesInv /\ Sound /\ NothingPending /\ Same /\ [Next]_vars => Same' /\ Untouched
  <2> SUFFICES ASSUME TypeInv, TablesInv, Sound, NothingPending, Same, [Next]_vars
               PROVE  Same' /\ Untouched
    OBVIOUS
  <2>1. \A db, c : OthersSame(db, db, c)
    BY DEF OthersSame
  <2>2. CASE Effect /\ ~Executes
    <3>1. work' = disk' \/ UNCHANGED <<disk, work>>
      BY <2>2 DEF Effect, Settles
    <3>2. disk' \in {disk, work}
      BY <2>2 DEF Effect, Settles
    <3>3. Untouched
      BY <2>1, <3>2
    <3>4. CASE work' = disk'
      BY <2>1, <3>3, <3>4
    <3>5. CASE UNCHANGED <<disk, work>>
      <4>1. CASE req' = req \/ req' = NoRequest
        BY <3>3, <3>5, <4>1
      <4>2. CASE pc = "idle"
        BY <2>1, <3>3, <3>5, <4>2 DEF NothingPending
      <4>3. QED
        BY <4>1, <4>2, RequestStep
    <3>6. QED
      BY <3>1, <3>4, <3>5
  <2>3. CASE Executes
    <3>1. /\ IsDatabase(work) /\ serial \in Nat /\ disk' = disk /\ req' = req /\ pc # "idle"
          /\ AlteredTables(work, work', req.cid) \/ AddedTables(work, work', req.cid, serial + 1)
      BY <2>3, ExecutedStatement
    <3>2. serial + 1 \in Nat /\ \A g \in DOMAIN work.geometries : g # serial + 1
      BY <3>1 DEF TablesInv, KeysDrawn, IsDatabase, IsTable
    <3> DEFINE n == serial + 1
    <3> HIDE DEF n
    <3>3. OthersSame(work, work', req.cid)
      BY <3>1, <3>2, OthersKept DEF n, TablesInv
    <3>4. req # NoRequest => OthersSame(disk, work', req.cid)
      BY <3>3, OthersSameTransitive
    <3>5. QED
      BY <2>1, <3>1, <3>4
  <2>4. QED
    BY <2>2, <2>3, StepEffect DEF TablesInv
<1>3. Untouched => (req # NoRequest =>
       /\ \A c \in DOMAIN disk.collections \ {req.cid} :
             /\ c \in DOMAIN disk'.collections
             /\ disk'.collections[c] = disk.collections[c]
       /\ \A f \in DOMAIN disk.features : disk.features[f].cid # req.cid =>
             /\ f \in DOMAIN disk'.features
             /\ disk'.features[f] = disk.features[f]
             /\ TrajectoriesOf(disk', f) = TrajectoriesOf(disk, f))
  BY DEF OthersSame
<1>4. QED
  BY <1>1, <1>2, <1>3, TypeInvariant, TablesAlways, TaggedAlways, NothingLeftPending, PTL
  DEF Spec, OtherCollectionsUntouched

-----------------------------------------------------------------------------
(* The course of a request.                                                *)

\* The steps that execute statements, or begin a loop that will.
Statements ==
  \/ post_collections \/ post_collections_insert \/ put_collection \/ delete_collection
  \/ post_collection_items \/ put_single_moving_feature \/ delete_single_moving_feature
  \/ insert_feature_tables \/ insert_feature_row \/ insert_feature_geometry
  \/ post_bulk \/ append_observations_row \/ append_observations_instant
  \/ post_tgsequence \/ delete_single_temporal_primitive_geo
  \/ post_tproperties \/ post_tproperties_values
  \/ post_temporal_property \/ delete_temporal_property

Outcomes == {"idle", "start", "check", "except", "respond", "respond in except"}

Kept == UNCHANGED <<req, before>>

\* A request arrives, or its body was read.
Arrives ==
  /\ UNCHANGED <<disk, work, tx, serial, made>>
  /\ \/ pc = "idle" /\ pc' = "start" /\ before'.db = disk
     \/ /\ pc = "start" /\ pc' = "check" /\ Kept
        /\ req.form = "bad json" => req.op \notin DecodeErrorAnswered \cup DecodeErrorRaised

\* The handler is on its way to a refusal, and commits no more.
Refuses ==
  /\ Kept /\ UNCHANGED <<disk, serial, made>> /\ (tx' = "closed" <=> tx = "closed")
  /\ \/ /\ pc' = "except"
        /\ pc \in Executing \cup {"start"} \/ (pc \in DOMAIN AfterCommit /\ tx = "closed")
     \/ pc' = "respond in except" /\ pc = "start"
     \/ pc' = "respond in except" /\ pc = "except" /\ (req.op \in SilentReads \/ tx # "closed")
     \/ pc' = "respond" /\ code' >= 400 /\ pc \in {"start", "check", "insert collection"}

\* A handler that only queries answers with success.
Shows ==
  /\ Kept /\ UNCHANGED <<disk, work, tx, serial, made>> /\ tx = "ok"
  /\ pc' = "respond" /\ code' = 200 /\ pc = "check" /\ req.op \in Reads

\* Nothing happens, or the database goes: a commit may then have taken effect.
Waits ==
  /\ Kept /\ UNCHANGED <<pc, code, serial, todo, made>>
  /\ \/ UNCHANGED <<disk, work, tx>>
     \/ /\ tx' = "closed" /\ work' = disk'
        /\ disk' = disk \/ (pc \in DOMAIN AfterCommit /\ tx = "ok" /\ disk' = work)

\* The handler executes a statement and has more to do, or to commit.
Works ==
  /\ Kept /\ disk' = disk /\ tx = "ok" /\ tx' = "ok"
  /\ pc \in Executing /\ pc' \notin Outcomes
  /\ Statements

\* Every step is one of these, or leaves the handler.
Course ==
  Leave \/ Arrives \/ Refuses \/ Shows \/ Waits \/ Works \/ (pc # "idle" /\ Commit)

\* Every step is one of the course.
LEMMA EveryStep ==
  ASSUME TypeInv, [Next]_vars
  PROVE  Course
<1> USE DEF At, Handles
<1> DEFINE Early == pc \in {"start", "check", "insert collection"}
           Running == pc \in Executing
           Raising == \/ pc \in Executing \cup {"start"}
                      \/ pc \in DOMAIN AfterCommit /\ tx = "closed"
<1>a. /\ pc = "start" => Early /\ Raising
      /\ pc = "check" => Early /\ Running /\ Raising
      /\ pc = "insert collection" => Early /\ Running /\ Raising
      /\ pc \in Executing => Running /\ Raising
      /\ pc \in DOMAIN AfterCommit /\ tx = "closed" => Raising
  BY DEF Executing
<1>b. /\ pc = "feature" => Running /\ Raising
      /\ pc = "insert feature" => Running /\ Raising
      /\ pc = "insert geometry" => Running /\ Raising
      /\ pc = "observe" => Running /\ Raising
      /\ pc = "append instant" => Running /\ Raising
      /\ pc = "insert values" => Running /\ Raising
  BY DEF Executing
<1>1. ASSUME Early, NEW status \in Nat, status >= 400, Answer(status) PROVE Course
  <2>1. /\ pc' = "respond" /\ code' >= 400 /\ Kept /\ UNCHANGED <<disk, serial, made, tx>>
    BY <1>1 DEF Answer, store, request, loop, Kept
  <2>2. Refuses
    BY <1>1, <2>1 DEF Refuses
  <2>3. QED
    BY <2>2 DEF Course
<1>2. ASSUME Raising, NEW status, Raise(status) \/ StatementFails(status) PROVE Course
  <2>1. /\ pc' = "except" /\ Kept /\ UNCHANGED <<disk, serial, made>>
        /\ tx' = "closed" <=> tx = "closed"
    <3>1. CASE Raise(status)
      BY <3>1 DEF Raise, store, request, loop, Kept
    <3>2. CASE StatementFails(status)
      BY <3>2 DEF StatementFails, request, loop, Kept
    <3>3. QED
      BY <1>2, <3>1, <3>2
  <2>2. Refuses
    BY <1>2, <2>1 DEF Refuses
  <2>3. QED
    BY <2>2 DEF Course
<1>3. ASSUME NEW db, NEW l, l \notin Outcomes, Usable, Running, Execute(db, l), Statements
      PROVE  Course
  BY <1>3 DEF Execute, Usable, request, Kept, Works, Course
<1>4. ASSUME NEW db, NEW status, Usable, Running, ExecuteLast(db, status), Statements
      PROVE  Course
  <2>1. "finish" \notin Outcomes
    BY DEF Outcomes
  <2>2. QED
    BY <1>3, <1>4, <2>1 DEF ExecuteLast
<1>5. ASSUME Leave PROVE Course
  BY <1>5 DEF Course
<1> HIDE DEF Early, Running, Raising
<1>6. \A status : status \in {400, 404, 409, 415, 501} => status \in Nat /\ status >= 400
  OBVIOUS
<1>c. \A status : status \in {400, 404, 409, 415, 501} /\ Early /\ Answer(status) => Course
  BY <1>1, <1>6
<1>7. CASE ReadBody
  <2>1. pc = "start" /\ Early /\ Raising
    BY <1>7, <1>a DEF ReadBody
  <2>2. CASE AnswerInExcept(400)
    BY <2>1, <2>2 DEF AnswerInExcept, store, request, loop, Kept, Refuses, Course
  <2>3. CASE /\ Goto("check")
             /\ req.form = "bad json" => req.op \notin DecodeErrorAnswered \cup DecodeErrorRaised
    BY <2>1, <2>3 DEF Goto, store, request, loop, Kept, Arrives, Course
  <2>4. CASE Answer(400) \/ Answer(501)
    BY <1>c, <2>1, <2>4
  <2>5. CASE \/ Raise(ExceptStatus(req.op, "other"))
             \/ Raise(ExceptStatus(req.op, "DataError"))
    BY <1>2, <2>1, <2>5
  <2>6. QED
    BY ZenonT(60), <1>7, <2>2, <2>3, <2>4, <2>5 DEF ReadBody
<1>8. CASE StatementError
  <2>1. Raising
    BY <1>8, <1>a DEF StatementError
  <2>2. QED
    BY <1>2, <1>8, <2>1 DEF StatementError
<1>9. CASE Read
  <2>1. pc = "check" /\ req.op \in Reads /\ Early /\ Raising
    BY <1>9, <1>a DEF Read
  <2>2. CASE Answer(200)
    BY <1>9, <2>1, <2>2 DEF Read, Usable, Answer, store, request, loop, Kept, Shows, Course
  <2>3. CASE Answer(400) \/ Answer(404)
    BY <1>c, <2>1, <2>3
  <2>4. CASE Raise(500) \/ StatementFails(500)
    BY <1>2, <2>1, <2>4
  <2>5. QED
    BY <1>9, <2>2, <2>3, <2>4 DEF Read
<1>10. CASE Statements
  <2>1. ASSUME UNCHANGED <<store, request>>, pc' \notin Outcomes, Usable, Running PROVE Course
    BY <1>10, <2>1 DEF Usable, store, request, Kept, Works, Course, Running
  <2>2. /\ "tables" \notin Outcomes /\ "feature" \notin Outcomes /\ "features" \notin Outcomes
        /\ "finish" \notin Outcomes /\ "property" \notin Outcomes
        /\ "append instant" \notin Outcomes /\ "observe" \notin Outcomes
        /\ "insert geometry" \notin Outcomes
    BY DEF Outcomes
  <2>3. \A rest : NextItem(rest, "feature") \notin Outcomes /\ NextItem(rest, "observe") \notin Outcomes
    BY <2>2 DEF NextItem
  <2>x. \A db, l : l \notin Outcomes /\ Usable /\ Running /\ Execute(db, l) => Course
    BY <1>3, <1>10
  <2>y. \A db, status : Usable /\ Running /\ ExecuteLast(db, status) => Course
    BY <1>4, <1>10
  <2>z. \A status : Raising /\ (Raise(status) \/ StatementFails(status)) => Course
    BY <1>2
  <2>4. CASE post_collections
    BY <1>a, <2>x, <2>2, <2>4 DEF post_collections
  <2>5. CASE post_collections_insert
    BY ZenonT(60), <1>a, <1>c, <2>y, <2>5 DEF post_collections_insert
  <2>6. CASE put_collection
    BY <1>a, <1>c, <2>y, <2>6 DEF put_collection
  <2>7. CASE delete_collection
    BY <1>a, <1>c, <2>y, <2>7 DEF delete_collection
  <2>8. CASE post_collection_items
    <3>1. CASE \/ Raise(ExceptStatus(req.op, "does not exist"))
               \/ Raise(ExceptStatus(req.op, "DataError"))
      BY <1>a, <2>z, <2>8, <3>1 DEF post_collection_items
    <3>2. CASE pc' = NextItem(req.items, "feature") /\ UNCHANGED <<store, request>>
      BY <1>a, <2>1, <2>3, <2>8, <3>2 DEF post_collection_items
    <3>3. QED
      BY <2>8, <3>1, <3>2 DEF post_collection_items
  <2>9. CASE put_single_moving_feature
    <3>1. pc = "check" /\ Usable
      BY <2>9 DEF put_single_moving_feature
    <3>2. Answer(404) \/ \E db : Execute(db, "feature")
      BY <2>9 DEF put_single_moving_feature
    <3>3. CASE Answer(404)
      BY <1>a, <1>c, <3>1, <3>3
    <3>4. CASE \E db : Execute(db, "feature")
      BY <1>a, <2>x, <2>2, <3>1, <3>4
    <3>5. QED
      BY <3>2, <3>3, <3>4
  <2>10. CASE delete_single_moving_feature
    BY <1>a, <1>c, <2>y, <2>10 DEF delete_single_moving_feature
  <2>12. CASE insert_feature_tables
    BY <1>b, <2>x, <2>z, <2>2, <2>12 DEF insert_feature_tables
  <2>13. CASE insert_feature_row
    <3>1. Running /\ Raising /\ tx = "ok" /\ tx' = "ok" /\ UNCHANGED <<disk, serial, req, before>>
      BY <1>b, <2>13 DEF insert_feature_row, Usable, request
    <3>2. PICK id, fresh : AfterRow(id, fresh)
      BY <2>13 DEF insert_feature_row
    <3>3. CASE pc' = "except" /\ UNCHANGED made
      BY <3>1, <3>3 DEF Kept, Refuses, Course, Raising
    <3>4. CASE pc' \notin Outcomes
      BY <1>10, <3>1, <3>4 DEF Kept, Works, Course, Running
    <3>5. QED
      BY <2>2, <2>3, <3>2, <3>3, <3>4 DEF AfterRow, loop
  <2>14. CASE insert_feature_geometry
    BY <1>b, <2>x, <2>z, <2>3, <2>14 DEF insert_feature_geometry
  <2>15. CASE post_bulk
    <3>1. CASE Answer(404) \/ Answer(415)
      <4>1. Early
        BY <1>a, <2>15 DEF post_bulk
      <4>2. QED
        BY <1>c, <3>1, <4>1
    <3>2. CASE \/ Raise(ExceptStatus(req.op, "ValueError"))
               \/ Raise(ExceptStatus(req.op, "other"))
      BY <1>a, <2>z, <2>15, <3>2 DEF post_bulk
    <3>3. CASE pc' = NextItem(req.items, "observe") /\ UNCHANGED <<store, request>>
      BY <1>a, <2>1, <2>3, <2>15, <3>3 DEF post_bulk
    <3>4. QED
      BY <2>15, <3>1, <3>2, <3>3 DEF post_bulk
  <2>16. CASE append_observations_row
    <3>1. /\ Running /\ tx = "ok" /\ UNCHANGED <<disk, tx, req, before>>
          /\ pc' = "append instant"
      BY <1>b, <2>16 DEF append_observations_row, Usable, request
    <3>2. QED
      BY <1>10, <2>2, <3>1 DEF Kept, Works, Course, Running
  <2>17. CASE append_observations_instant
    BY <1>b, <2>x, <2>z, <2>3, <2>17 DEF append_observations_instant
  <2>18. CASE post_tgsequence
    <3>1. pc = "check" /\ Usable
      BY <2>18 DEF post_tgsequence
    <3>2. Answer(404) \/ StatementFails(500) \/ \E db : Execute(db, "finish")
      BY <2>18 DEF post_tgsequence
    <3>3. CASE Answer(404)
      BY <1>a, <1>c, <3>1, <3>3
    <3>4. CASE StatementFails(500)
      BY <1>a, <2>z, <3>1, <3>4
    <3>5. CASE \E db : Execute(db, "finish")
      BY <1>a, <2>x, <2>2, <3>1, <3>5
    <3>6. QED
      BY <3>2, <3>3, <3>4, <3>5
  <2>19. CASE delete_single_temporal_primitive_geo
    <3>1. pc = "check" /\ Usable
      BY <2>19 DEF delete_single_temporal_primitive_geo
    <3>2. \/ Answer(404) \/ Answer(400) \/ Answer(409) \/ StatementFails(500)
          \/ \E db : ExecuteLast(db, 204)
      BY <2>19 DEF delete_single_temporal_primitive_geo
    <3>3. QED
      BY <1>a, <1>c, <2>y, <2>z, <3>1, <3>2
  <2>20. CASE post_tproperties
    <3>1. pc = "check" /\ Usable
      BY <2>20 DEF post_tproperties
    <3>2. \/ Leave \/ Answer(400) \/ Answer(409) \/ Raise(500)
          \/ \E db : Execute(db, IF req.form = "ok" THEN "finish" ELSE "property")
      BY <2>20 DEF post_tproperties
    <3>3. CASE \E db : Execute(db, IF req.form = "ok" THEN "finish" ELSE "property")
      BY <1>a, <2>x, <2>2, <3>1, <3>3
    <3>4. QED
      BY <1>a, <1>c, <1>5, <2>z, <3>1, <3>2, <3>3
  <2>21. CASE post_tproperties_values
    BY ZenonT(60), <1>b, <2>x, <2>z, <2>2, <2>21 DEF post_tproperties_values
  <2>22. CASE post_temporal_property
    <3>1. pc = "check" /\ Usable
      BY <2>22 DEF post_temporal_property
    <3>2. \/ Answer(400) \/ Answer(404) \/ Raise(500) \/ \E db : Execute(db, "finish")
      BY <2>22 DEF post_temporal_property
    <3>3. CASE Answer(400) \/ Answer(404)
      BY <1>a, <1>c, <3>1, <3>3
    <3>4. CASE Raise(500)
      BY <1>a, <2>z, <3>1, <3>4
    <3>5. CASE \E db : Execute(db, "finish")
      BY <1>a, <2>x, <2>2, <3>1, <3>5
    <3>6. QED
      BY <3>2, <3>3, <3>4, <3>5
  <2>23. CASE delete_temporal_property
    BY <1>a, <1>c, <2>y, <2>23 DEF delete_temporal_property
  <2>24. QED
    BY <1>10, <2>4, <2>5, <2>6, <2>7, <2>8, <2>9, <2>10, <2>12, <2>13, <2>14, <2>15, <2>16,
       <2>17, <2>18, <2>19, <2>20, <2>21, <2>22, <2>23
    DEF Statements
<1>11. CASE NoSuchFeature
  BY <1>a, <1>c, <1>11 DEF NoSuchFeature
<1>11a. CASE NoPropertyTables
  BY <1>a, <1>2, <1>11a DEF NoPropertyTables
<1>12. CASE Commit
  <2>1. pc # "idle"
    BY <1>12, LabelsType DEF Commit
  <2>2. QED
    BY <1>12, <2>1 DEF Course
<1>13. CASE Receive
  <2>1. pc = "idle" /\ pc' = "start" /\ before' = [db |-> disk, tx |-> tx]
        /\ UNCHANGED <<disk, work, tx, serial, made>>
    BY <1>13 DEF Receive, store, loop
  <2>2. before'.db = disk
    BY <2>1
  <2>3. QED
    BY <2>1, <2>2 DEF Arrives, Course
<1>14. CASE DatabaseRestart
  BY <1>14 DEF DatabaseRestart, Waits, Kept, request, loop, Course
<1>15. CASE Except
  <2>1. CASE pc' = "respond in except"
    BY <1>15, <2>1
    DEF Except, Leave, Rollback, store, request, loop, Kept, Refuses, Course
  <2>2. QED
    BY <1>5, <1>15, <2>1 DEF Except
<1>16. CASE Respond \/ ClientGone \/ Kill \/ Interrupt
  BY <1>5, <1>16 DEF Respond, ClientGone, Kill, Interrupt
<1>17. CASE UNCHANGED vars
  BY <1>17 DEF vars, store, request, loop, Kept, Waits, Course
<1>18. QED
  BY <1>7, <1>8, <1>9, <1>10, <1>11, <1>11a, <1>12, <1>13, <1>14, <1>15, <1>16, <1>17
  DEF Next, ServerStep, Environment, Statements

\* A statement belongs to the handler of the request.
LEMMA OwnStatements ==
  ASSUME TypeInv, Statements
  PROVE  /\ req.op = "post_collections" => post_collections \/ post_collections_insert
         /\ req.op = "put_collection" => put_collection
         /\ req.op = "delete_collection" => delete_collection
         /\ req.op = "post_collection_items" =>
              \/ post_collection_items \/ insert_feature_tables
              \/ insert_feature_row \/ insert_feature_geometry
         /\ req.op = "put_single_moving_feature" =>
              \/ put_single_moving_feature \/ insert_feature_tables
              \/ insert_feature_row \/ insert_feature_geometry
         /\ req.op = "delete_single_moving_feature" => delete_single_moving_feature
         /\ req.op = "post_bulk" =>
              post_bulk \/ append_observations_row \/ append_observations_instant
         /\ req.op = "post_tgsequence" => post_tgsequence
         /\ req.op = "delete_single_temporal_primitive_geo" => delete_single_temporal_primitive_geo
         /\ req.op = "post_tproperties" => post_tproperties \/ post_tproperties_values
         /\ req.op = "post_temporal_property" => post_temporal_property
         /\ req.op = "delete_temporal_property" => delete_temporal_property
         /\ req.op \in Writes
<1> USE DEF At, Handles
<1>1. post_collections \/ post_collections_insert => req.op = "post_collections"
  BY DEF post_collections, post_collections_insert
<1>2. put_collection => req.op = "put_collection"
  BY DEF put_collection
<1>3. delete_collection => req.op = "delete_collection"
  BY DEF delete_collection
<1>4. post_collection_items => req.op = "post_collection_items"
  BY DEF post_collection_items
<1>5. put_single_moving_feature => req.op = "put_single_moving_feature"
  BY DEF put_single_moving_feature
<1>6. insert_feature_tables \/ insert_feature_row \/ insert_feature_geometry =>
        req.op \in {"post_collection_items", "put_single_moving_feature"}
  BY DEF insert_feature_tables, insert_feature_row, insert_feature_geometry,
         TypeInv, Control, FeatureLabels
<1>7. delete_single_moving_feature => req.op = "delete_single_moving_feature"
  BY DEF delete_single_moving_feature
<1>8. post_bulk \/ append_observations_row \/ append_observations_instant => req.op = "post_bulk"
  BY DEF post_bulk, append_observations_row, append_observations_instant,
         TypeInv, Control, BatchLabels
<1>9. post_tgsequence => req.op = "post_tgsequence"
  BY DEF post_tgsequence
<1>10. delete_single_temporal_primitive_geo => req.op = "delete_single_temporal_primitive_geo"
  BY DEF delete_single_temporal_primitive_geo
<1>11. post_tproperties \/ post_tproperties_values => req.op = "post_tproperties"
  BY DEF post_tproperties, post_tproperties_values
<1>12. post_temporal_property => req.op = "post_temporal_property"
  BY DEF post_temporal_property
<1>13. delete_temporal_property => req.op = "delete_temporal_property"
  BY DEF delete_temporal_property
<1>14. QED
  BY <1>1, <1>2, <1>3, <1>4, <1>5, <1>6, <1>7, <1>8, <1>9, <1>10, <1>11, <1>12, <1>13
  DEF Statements, Writes

-----------------------------------------------------------------------------
(* A feature's last member.  delete_single_temporal_primitive_geo removes  *)
(* the member of one index from every geometry of the feature, and makes   *)
(* NULL of those that have none of that index.                             *)

\* Members have instants, and every feature with geometries has one with a
\* trajectory under each collection that its geometries carry.
Filled(db) ==
  /\ \A g \in DOMAIN db.geometries :
        \A m \in DOMAIN db.geometries[g].traj : db.geometries[g].traj[m] # {}
  /\ \A g \in DOMAIN db.geometries : \E h \in DOMAIN db.geometries :
        /\ db.geometries[h].fid = db.geometries[g].fid
        /\ db.geometries[h].cid = db.geometries[g].cid
        /\ db.geometries[h].traj # Null

\* What is left of a trajectory has the members it had,
LEMMA RemoveMemberFilled ==
  ASSUME NEW traj \in Trajectories, \A m \in DOMAIN traj : traj[m] # {}, NEW n \in Int
  PROVE  /\ \A m \in DOMAIN RemoveMember(traj, n) : RemoveMember(traj, n)[m] # {}
         /\ n \in DOMAIN traj /\ Len(traj) > 1 => RemoveMember(traj, n) # Null
<1>1. CASE n \notin DOMAIN traj
  <2>1. RemoveMember(traj, n) = Null /\ DOMAIN Null = {}
    BY <1>1 DEF RemoveMember, Null
  <2>2. QED
    BY <1>1, <2>1
<1>2. CASE n \in DOMAIN traj
  <2> DEFINE left == SubSeq(traj, 1, n - 1)
             right == SubSeq(traj, n + 1, Len(traj))
  <2>1. RemoveMember(traj, n) = left \o right
    BY <1>2 DEF RemoveMember, RemoveAt
  <2>2. traj \in Seq(SUBSET Instants) /\ n \in 1..Len(traj) /\ Len(traj) \in Nat
    BY <1>2 DEF Trajectories
  <2>3. /\ left \in Seq(SUBSET Instants) /\ Len(left) = n - 1
        /\ \A m \in 1..n - 1 : left[m] = traj[m]
    BY <2>2
  <2>4. /\ right \in Seq(SUBSET Instants) /\ Len(right) = Len(traj) - n
        /\ \A m \in 1..Len(traj) - n : right[m] = traj[n + m]
    BY <2>2
  <2> HIDE DEF left, right
  <2>5. Len(left \o right) = Len(traj) - 1 /\ DOMAIN (left \o right) = 1..Len(traj) - 1
    <3>1. left \o right \in Seq(SUBSET Instants) /\ Len(left \o right) = Len(left) + Len(right)
      BY <2>3, <2>4, ConcatProperties
    <3>2. Len(left \o right) = Len(traj) - 1
      BY <2>2, <2>3, <2>4, <3>1
    <3>3. DOMAIN (left \o right) = 1..Len(left \o right)
      BY <3>1, LenProperties
    <3>4. QED
      BY <3>2, <3>3
  <2>6. ASSUME NEW m \in 1..Len(traj) - 1
        PROVE  (left \o right)[m] # {}
    <3>1. CASE m <= n - 1
      <4>1. (left \o right)[m] = left[m] /\ m \in 1..n - 1 /\ m \in 1..Len(traj)
        BY <2>2, <2>3, <2>4, <3>1
      <4>2. QED
        BY <2>3, <4>1
    <3>2. CASE ~(m <= n - 1)
      <4>1. /\ (left \o right)[m] = right[m - (n - 1)] /\ m - (n - 1) \in 1..Len(traj) - n
            /\ n + (m - (n - 1)) \in 1..Len(traj)
        BY <2>2, <2>3, <2>4, <3>2
      <4>2. QED
        BY SMTT(30), <2>4, <4>1
    <3>3. QED
      BY <3>1, <3>2
  <2>7. Len(traj) > 1 => left \o right # <<>>
    <3>1. Len(traj) > 1 => Len(left \o right) # 0
      BY <2>2, <2>5
    <3>2. Len(<<>>) = 0
      OBVIOUS
    <3>3. QED
      BY <3>1, <3>2
  <2>8. QED
    BY <1>2, <2>1, <2>5, <2>6, <2>7 DEF Null
<1>3. QED
  BY <1>1, <1>2

\* and so does one that grew.
LEMMA AppendInstantFilled ==
  ASSUME NEW traj \in Trajectories, \A m \in DOMAIN traj : traj[m] # {}, NEW instant
  PROVE  /\ \A m \in DOMAIN AppendInstant(traj, instant) : AppendInstant(traj, instant)[m] # {}
         /\ traj # Null => AppendInstant(traj, instant) # Null
<1>1. CASE traj = Null
  BY <1>1 DEF AppendInstant
<1>2. CASE traj # Null
  <2> DEFINE new == [traj EXCEPT ![Len(traj)] = @ \cup instant]
  <2>1. AppendInstant(traj, instant) = new
    BY <1>2 DEF AppendInstant
  <2>2. DOMAIN new = DOMAIN traj /\ \A m \in DOMAIN traj : traj[m] \subseteq new[m]
    OBVIOUS
  <2>3. DOMAIN traj # {}
    BY <1>2 DEF Null, Trajectories
  <2>4. new # Null
    BY <2>2, <2>3 DEF Null
  <2> HIDE DEF new
  <2>5. QED
    BY <2>1, <2>2, <2>4
<1>3. QED
  BY <1>1, <1>2

\* The statement that removes members leaves the feature one.
LEMMA MembersRemoved ==
  ASSUME NEW db, IsDatabase(db), Filled(db), NEW c, NEW f, NEW n \in Int,
         \E g \in GeometriesIn(db, c, f) :
            n \in DOMAIN db.geometries[g].traj /\ Len(db.geometries[g].traj) > 1,
         NEW new, new = UpdateTrajectories(db,
           [g \in GeometriesIn(db, c, f) |-> RemoveMember(db.geometries[g].traj, n)])
  PROVE  Filled(new) /\ InstantsIn(new, f) # {}
<1> DEFINE rows == GeometriesIn(db, c, f)
           trajs == [g \in rows |-> RemoveMember(db.geometries[g].traj, n)]
<1>1. \A g \in DOMAIN db.geometries : db.geometries[g].traj \in Trajectories
  BY DEF IsDatabase, IsTable, GeometryRow
<1>2. \A g : g \in rows <=> /\ g \in DOMAIN db.geometries /\ db.geometries[g].fid = f
                            /\ db.geometries[g].cid = c
  BY DEF GeometriesIn, GeometriesOf
<1>3. DOMAIN trajs = rows /\ \A g \in rows : trajs[g] = RemoveMember(db.geometries[g].traj, n)
  OBVIOUS
<1>4. \A g \in rows : trajs[g] \in Trajectories
  BY <1>1, <1>2, <1>3, RemoveMemberType
<1>5. new = UpdateTrajectories(db, trajs)
  OBVIOUS
<1> HIDE DEF trajs, rows
<1>6. TrajectoriesUpdated(db, new, trajs)
  BY <1>3, <1>4, <1>5, UpdateTrajectoriesFields
<1>7. \A g \in rows : \A m \in DOMAIN trajs[g] : trajs[g][m] # {}
  <2>1. ASSUME NEW g \in rows PROVE \A m \in DOMAIN trajs[g] : trajs[g][m] # {}
    <3>1. db.geometries[g].traj \in Trajectories
      BY <1>1, <1>2
    <3>2. \A m \in DOMAIN db.geometries[g].traj : db.geometries[g].traj[m] # {}
      BY <1>2 DEF Filled
    <3>3. QED
      BY <1>3, <3>1, <3>2, RemoveMemberFilled
  <2>2. QED
    BY <2>1
<1>8. PICK k \in rows : trajs[k] # Null
  <2>1. PICK k \in rows : n \in DOMAIN db.geometries[k].traj /\ Len(db.geometries[k].traj) > 1
    BY DEF rows
  <2>2. db.geometries[k].traj \in Trajectories
    BY <1>1, <1>2
  <2>3. \A m \in DOMAIN db.geometries[k].traj : db.geometries[k].traj[m] # {}
    BY <1>2 DEF Filled
  <2>4. trajs[k] # Null
    BY <1>3, <2>1, <2>2, <2>3, RemoveMemberFilled
  <2>5. QED
    BY <2>4
<1>9. /\ k \in DOMAIN new.geometries /\ new.geometries[k].fid = f /\ new.geometries[k].cid = c
      /\ new.geometries[k].traj = trajs[k]
  BY <1>2, <1>3, <1>6 DEF TrajectoriesUpdated
<1>10. \A g \in DOMAIN new.geometries :
          \A m \in DOMAIN new.geometries[g].traj : new.geometries[g].traj[m] # {}
  <2>1. \A g \in DOMAIN new.geometries :
           /\ g \in DOMAIN db.geometries
           /\ new.geometries[g].traj = IF g \in rows THEN trajs[g] ELSE db.geometries[g].traj
    BY <1>3, <1>6 DEF TrajectoriesUpdated
  <2>2. \A g \in DOMAIN db.geometries :
           \A m \in DOMAIN db.geometries[g].traj : db.geometries[g].traj[m] # {}
    BY DEF Filled
  <2>3. ASSUME NEW g \in DOMAIN new.geometries
        PROVE  \A m \in DOMAIN new.geometries[g].traj : new.geometries[g].traj[m] # {}
    <3>1. CASE g \in rows
      BY <1>7, <2>1, <3>1
    <3>2. CASE g \notin rows
      BY <2>1, <2>2, <3>2
    <3>3. QED
      BY <3>1, <3>2
  <2>4. QED
    BY <2>3
<1>11. ASSUME NEW g \in DOMAIN new.geometries
       PROVE  \E h \in DOMAIN new.geometries :
                /\ new.geometries[h].fid = new.geometries[g].fid
                /\ new.geometries[h].cid = new.geometries[g].cid
                /\ new.geometries[h].traj # Null
  <2>1. g \in DOMAIN db.geometries
    BY <1>6 DEF TrajectoriesUpdated
  <2>2. CASE g \in rows
    <3>1. /\ new.geometries[g].fid = db.geometries[g].fid
          /\ new.geometries[g].cid = db.geometries[g].cid
      BY <1>6, <2>1, ZenonT(60) DEF TrajectoriesUpdated
    <3>2. new.geometries[g].fid = f /\ new.geometries[g].cid = c
      BY <1>2, <2>2, <3>1
    <3>3. new.geometries[k].traj # Null
      BY <1>8, <1>9
    <3>4. QED
      BY <1>9, <3>2, <3>3
  <2>3. CASE g \notin rows
    <3>1. PICK h \in DOMAIN db.geometries :
            /\ db.geometries[h].fid = db.geometries[g].fid
            /\ db.geometries[h].cid = db.geometries[g].cid
            /\ db.geometries[h].traj # Null
      BY <2>1 DEF Filled
    <3>2. h \notin rows
      BY <1>2, <2>1, <2>3, <3>1
    <3>3. QED
      BY ZenonT(60), <1>3, <1>6, <2>1, <3>1, <3>2 DEF TrajectoriesUpdated
  <2>4. QED
    BY <2>2, <2>3
<1>12. InstantsIn(new, f) # {}
  <2>1. 1 \in DOMAIN trajs[k]
    BY <1>4, <1>8 DEF Trajectories, Null
  <2>2. trajs[k][1] # {} /\ trajs[k][1] \subseteq InstantsOf(trajs[k])
    BY <1>7, <2>1 DEF InstantsOf
  <2>3. trajs[k] \in TrajectoriesOf(new, f)
    BY <1>9 DEF TrajectoriesOf, GeometriesOf
  <2>4. InstantsOf(trajs[k]) \subseteq InstantsIn(new, f)
    BY <2>3 DEF InstantsIn
  <2>5. QED
    BY <2>2, <2>4
<1>13. QED
  BY <1>10, <1>11, <1>12 DEF Filled

\* Every statement keeps members filled.
LEMMA FilledKept ==
  ASSUME NEW db, IsDatabase(db), ReferencesHold(db), Filled(db), NEW new, NEW c,
         NEW n \in Nat, \A g \in DOMAIN db.geometries : g # n,
         AlteredTables(db, new, c) \/ AddedTables(db, new, c, n)
  PROVE  Filled(new)
<1>1. CASE new.geometries = db.geometries
  BY <1>1 DEF Filled
<1>2. ASSUME SubTable(new.geometries, db.geometries),
             \A g \in DOMAIN new.geometries, h \in DOMAIN db.geometries :
               /\ db.geometries[h].fid = db.geometries[g].fid
               /\ db.geometries[h].cid = db.geometries[g].cid
               => h \in DOMAIN new.geometries
      PROVE  Filled(new)
  BY <1>2 DEF Filled, SubTable
<1>3. CASE CollectionDeleted(db, new, c)
  <2>1. \A g \in DOMAIN new.geometries, h \in DOMAIN db.geometries :
               /\ db.geometries[h].fid = db.geometries[g].fid
               /\ db.geometries[h].cid = db.geometries[g].cid
               => h \in DOMAIN new.geometries
    BY <1>3 DEF CollectionDeleted
  <2>2. QED
    BY <1>2, <1>3, <2>1 DEF CollectionDeleted
<1>4. CASE \E f : FeaturesDeleted(db, new, {f})
  <2>1. PICK f : FeaturesDeleted(db, new, {f})
    BY <1>4
  <2>2. \A g \in DOMAIN new.geometries, h \in DOMAIN db.geometries :
               /\ db.geometries[h].fid = db.geometries[g].fid
               /\ db.geometries[h].cid = db.geometries[g].cid
               => h \in DOMAIN new.geometries
    BY <2>1 DEF FeaturesDeleted
  <2>3. QED
    BY <1>2, <2>1, <2>2 DEF FeaturesDeleted
<1>5. CASE AppendsInstant(db, new, c)
  <2>1. PICK f \in FeatureIds, instant \in SUBSET Instants :
          new = UpdateTrajectories(db,
                  [g \in GeometriesOf(db, f) |-> AppendInstant(db.geometries[g].traj, instant)])
    BY <1>5 DEF AppendsInstant
  <2> DEFINE rows == GeometriesOf(db, f)
             trajs == [g \in rows |-> AppendInstant(db.geometries[g].traj, instant)]
  <2>2. \A g \in DOMAIN db.geometries : db.geometries[g].traj \in Trajectories
    BY DEF IsDatabase, IsTable, GeometryRow
  <2>3. rows \subseteq DOMAIN db.geometries
    BY DEF GeometriesOf
  <2>4. /\ DOMAIN trajs = rows /\ new = UpdateTrajectories(db, trajs)
        /\ \A g \in rows : trajs[g] = AppendInstant(db.geometries[g].traj, instant)
    BY <2>1
  <2> HIDE DEF trajs, rows
  <2>5. \A g \in rows : trajs[g] \in Trajectories
    BY <2>2, <2>3, <2>4, AppendInstantType
  <2>6. TrajectoriesUpdated(db, new, trajs)
    BY <2>4, <2>5, UpdateTrajectoriesFields
  <2>7. ASSUME NEW g \in rows
        PROVE  /\ \A m \in DOMAIN trajs[g] : trajs[g][m] # {}
               /\ db.geometries[g].traj # Null => trajs[g] # Null
    <3>1. \A m \in DOMAIN db.geometries[g].traj : db.geometries[g].traj[m] # {}
      BY <2>3 DEF Filled
    <3>2. db.geometries[g].traj \in Trajectories
      BY <2>2, <2>3
    <3>3. QED
      BY <2>4, <3>1, <3>2, AppendInstantFilled
  <2>8. \A g \in DOMAIN db.geometries :
          /\ \A m \in DOMAIN new.geometries[g].traj : new.geometries[g].traj[m] # {}
          /\ db.geometries[g].traj # Null => new.geometries[g].traj # Null
    BY <2>4, <2>6, <2>7 DEF TrajectoriesUpdated, Filled
  <2>9. QED
    BY <2>6, <2>8 DEF TrajectoriesUpdated, Filled
<1>6. CASE RemovesMember(db, new, c)
  <2>1. PICK f \in FeatureIds, k \in Int :
          /\ \E g \in GeometriesIn(db, c, f) :
               k \in DOMAIN db.geometries[g].traj /\ Len(db.geometries[g].traj) > 1
          /\ new = UpdateTrajectories(db,
                     [g \in GeometriesIn(db, c, f) |-> RemoveMember(db.geometries[g].traj, k)])
    BY <1>6 DEF RemovesMember
  <2>2. QED
    BY <2>1, MembersRemoved
<1>7. CASE \E f \in DOMAIN db.features, traj \in Trajectories, geometry \in BOOLEAN :
             IsFilled(traj) /\ GeometryInserted(db, new, n, f, c, traj, geometry)
  <2>1. PICK f \in DOMAIN db.features, traj \in Trajectories, geometry \in BOOLEAN :
             IsFilled(traj) /\ GeometryInserted(db, new, n, f, c, traj, geometry)
    BY <1>7
  <2>2. /\ n \in DOMAIN new.geometries /\ new.geometries[n].traj = traj
        /\ DOMAIN new.geometries = DOMAIN db.geometries \cup {n}
        /\ \A g \in DOMAIN db.geometries : new.geometries[g] = db.geometries[g]
    BY <2>1 DEF GeometryInserted
  <2>3. traj # Null /\ \A m \in DOMAIN traj : traj[m] # {}
    BY <2>1 DEF IsFilled
  <2>4. QED
    BY <2>2, <2>3 DEF Filled
<1>8. CASE AlteredTables(db, new, c)
  BY <1>1, <1>3, <1>4, <1>5, <1>6, <1>8
  DEF AlteredTables, TablesCreated, CollectionPut, PropertiesDeleted, FeatureInserted, FewTables
<1>9. CASE AddedTables(db, new, c, n)
  <2>1. CASE \/ \E f \in DOMAIN db.features, name \in PropertyNames : PropertyInserted(db, new, n, f, name)
             \/ \E p \in DOMAIN db.properties, r \in Requests : ValuesInserted(db, new, n, p, r)
    BY <1>1, <2>1 DEF PropertyInserted, ValuesInserted
  <2>2. CASE \E f \in DOMAIN db.features, traj \in Trajectories, geometry \in BOOLEAN :
               IsFilled(traj) /\ GeometryInserted(db, new, n, f, c, traj, geometry)
    BY <1>7, <2>2
  <2>3. QED
    BY <1>9, <2>1, <2>2 DEF AddedTables
<1>10. QED
  BY <1>8, <1>9

\* In every reachable state, of both copies of the database.
LEMMA FilledAlways == Spec => [](Filled(disk) /\ Filled(work))
<1> DEFINE Both == Filled(disk) /\ Filled(work)
<1>1. Init => Both
  BY DEF Init, EmptyDatabase, NoRows, Filled
<1>2. TypeInv /\ TablesInv /\ Both /\ [Next]_vars => Both'
  <2> SUFFICES ASSUME TypeInv, TablesInv, Both, [Next]_vars PROVE Both'
    OBVIOUS
  <2>1. CASE disk' \in {disk, work} /\ work' \in {disk, work}
    BY <2>1
  <2>2. CASE OneStatement
    <3>1. serial + 1 \in Nat /\ \A g \in DOMAIN work.geometries : g # serial + 1
      BY <2>2 DEF OneStatement, TablesInv, KeysDrawn, IsDatabase, IsTable
    <3> DEFINE n == serial + 1
    <3>2. /\ IsDatabase(work) /\ disk' = disk
          /\ AlteredTables(work, work', req.cid) \/ AddedTables(work, work', req.cid, n)
      BY <2>2 DEF OneStatement
    <3> HIDE DEF n
    <3>3. Filled(work')
      BY <3>1, <3>2, FilledKept DEF n, TablesInv
    <3>4. QED
      BY <3>2, <3>3
  <2>3. QED
    BY <2>1, <2>2, StepKinds
<1>3. QED
  BY <1>1, <1>2, TypeInvariant, TablesAlways, PTL DEF Spec

MemberInv ==
  req # NoRequest /\ req.op = "delete_single_temporal_primitive_geo" =>
    /\ pc = "finish" /\ tx = "ok" => InstantsIn(work, req.fid) # {}
    /\ pc = "respond" /\ code < 400 => InstantsIn(disk, req.fid) # {}

\* Deleting the members of a feature one after the other, whatever rows they are
\* in, never leaves it without a geometry.
THEOREM DeletesLeaveAMember == Spec => []DeleteLeavesAMember
<1>1. Init => MemberInv
  BY DEF Init, MemberInv
<1>2. TypeInv /\ Filled(work) /\ MemberInv /\ [Next]_vars => MemberInv'
  <2> SUFFICES ASSUME TypeInv, Filled(work), MemberInv, [Next]_vars,
                      pc' \in {"finish", "respond"},
                      req'.op = "delete_single_temporal_primitive_geo"
               PROVE  MemberInv'
    BY DEF MemberInv
  <2>1. \A db, new, f : new = db => InstantsIn(new, f) = InstantsIn(db, f)
    OBVIOUS
  <2>2. CASE Refuses
    <3>1. code' \in Nat
      BY TypeStep DEF TypeInv, TypeOK
    <3>2. pc' # "finish" /\ (pc' = "respond" => code' >= 400)
      BY <2>2 DEF Refuses
    <3>3. ~(code' >= 400 /\ code' < 400)
      BY <3>1
    <3>4. QED
      BY <3>2, <3>3 DEF MemberInv
  <2>3. CASE Shows
    BY <2>3 DEF Shows, Kept, Reads, SilentReads, GuardedReads, BareReads
  <2>4. CASE pc # "idle" /\ Commit
    <3>1. pc = "finish" /\ tx = "ok" /\ disk' = work /\ pc' = "respond" /\ UNCHANGED <<work, req>>
      BY <2>4, LabelsType DEF Commit, request, AfterCommit
    <3>2. req # NoRequest
      BY <2>4 DEF TypeInv, TypeOK
    <3>3. InstantsIn(disk, req.fid)' # {}
      BY <2>1, <3>1, <3>2 DEF MemberInv
    <3>4. QED
      BY <3>1, <3>3 DEF MemberInv
  <2>5. CASE Waits
    <3>1. UNCHANGED <<pc, code, req>>
      BY <2>5 DEF Waits, Kept
    <3>2. CASE UNCHANGED <<disk, work, tx>>
      BY <3>1, <3>2 DEF MemberInv, InstantsIn, TrajectoriesOf, GeometriesOf
    <3>3. CASE tx' = "closed" /\ (pc \in DOMAIN AfterCommit \/ disk' = disk)
      <4>1. pc = "respond" => disk' = disk
        BY <3>3, LabelsType
      <4>2. QED
        BY <3>1, <3>3, <4>1 DEF MemberInv, InstantsIn, TrajectoriesOf, GeometriesOf
    <3>4. QED
      BY <2>5, <3>2, <3>3 DEF Waits
  <2>6. CASE Works
    <3>1. req' = req /\ pc' = "finish" /\ pc # "idle"
      BY <2>6 DEF Works, Kept, Outcomes, Executing
    <3>2. delete_single_temporal_primitive_geo
      BY <2>6, <3>1, OwnStatements DEF Works
    <3> DEFINE new == UpdateTrajectories(work,
                        [g \in GeometriesIn(work, req.cid, req.fid) |->
                           RemoveMember(work.geometries[g].traj, req.n)])
    <3>3. /\ \E g \in GeometriesIn(work, req.cid, req.fid) :
               /\ req.n \in DOMAIN work.geometries[g].traj
               /\ Len(work.geometries[g].traj) > 1
          /\ work' = new
      BY <3>1, <3>2
      DEF delete_single_temporal_primitive_geo, Answer, StatementFails, ExecuteLast, Execute
    <3>4. IsDatabase(work) /\ req.n \in Int
      BY <3>1, RequestType DEF TypeInv, TypeOK, Request
    <3>5. InstantsIn(work', req.fid) # {}
      BY <3>3, <3>4, MembersRemoved
    <3>6. QED
      BY <3>1, <3>5 DEF MemberInv, InstantsIn, TrajectoriesOf, GeometriesOf
  <2>7. QED
    BY <2>2, <2>3, <2>4, <2>5, <2>6, EveryStep DEF Course, Arrives, Leave
<1>3. MemberInv /\ TypeInv => DeleteLeavesAMember
  BY DEF MemberInv, DeleteLeavesAMember, Accepted, TypeInv, TypeOK
<1>4. QED
  BY <1>1, <1>2, <1>3, FilledAlways, TypeInvariant, PTL DEF Spec

-----------------------------------------------------------------------------
(* The handlers that commit in their middle.  What a refusal of theirs can *)
(* leave behind is what the commits on the way to it made: each invariant  *)
(* follows the committed database, and the transaction while it is open,   *)
(* from label to label.                                                    *)

\* Until the first statement, what is committed is what the request found.
EntryInv ==
  /\ pc \in {"idle", "start", "check"} => made = {}
  /\ pc \in {"start", "check"} => disk = before.db

\* Every step keeps that.
LEMMA EntryStep == EntryInv /\ Course => EntryInv'
<1> SUFFICES ASSUME EntryInv, Course PROVE EntryInv'
  OBVIOUS
<1>1. CASE Leave
  BY <1>1 DEF Leave, EntryInv
<1>2. CASE Arrives
  <2>1. CASE pc = "idle" /\ pc' = "start" /\ before'.db = disk
    BY <1>2, <2>1 DEF Arrives, EntryInv
  <2>2. CASE pc = "start" /\ pc' = "check" /\ Kept
    BY <1>2, <2>2 DEF Arrives, Kept, EntryInv
  <2>3. QED
    BY <1>2, <2>1, <2>2 DEF Arrives
<1>3. CASE Refuses \/ Shows
  BY <1>3 DEF Refuses, Shows, EntryInv
<1>4. CASE Waits
  <2>1. pc \in {"start", "check"} => disk' = disk
    BY <1>4, LabelsType DEF Waits
  <2>2. UNCHANGED <<pc, made, before>>
    BY <1>4 DEF Waits, Kept
  <2>3. QED
    BY <2>1, <2>2 DEF EntryInv
<1>5. CASE Works
  BY <1>5 DEF Works, Outcomes, EntryInv
<1>6. CASE Commit
  BY <1>6, LabelsType DEF Commit, EntryInv
<1>7. QED
  BY <1>1, <1>2, <1>3, <1>4, <1>5, <1>6 DEF Course

\* It always holds.
LEMMA EntryAlways == Spec => []EntryInv
<1>1. Init => EntryInv
  BY DEF Init, EntryInv
<1>2. QED
  BY <1>1, EntryStep, EveryStep, TypeInvariant, PTL DEF Spec

\* A PUT of a feature: the feature is gone from the first commit on, and what
\* is put in its place is committed only with the success.
Gone == Rows(DeleteFeatures(before.db, {req.fid}))
Lost(db) == Rows(db) = Rows(before.db) \/ Rows(db) = Gone

ReplaceInv ==
  req # NoRequest /\ req.op = "put_single_moving_feature" =>
    /\ pc \in FeatureLabels \cup {"start", "check", "finish", "except", "respond",
                                  "respond in except"}
    /\ pc \notin {"finish", "except", "respond"} => Lost(disk)
    /\ pc \in {"finish", "except"} /\ tx # "closed" => Lost(disk)
    /\ pc = "respond" => code < 400 \/ Lost(disk)
    /\ pc \in FeatureLabels \cup {"finish"} => code = 200
    /\ pc \in FeatureLabels => Len(todo) = 1
    /\ pc \in {"feature", "features"} /\ tx = "ok" => Rows(work) = Gone

\* The statements of PUT keep that.
LEMMA ReplaceWorks ==
  ASSUME TypeInv, NothingPending, EntryInv, ReplaceInv, Works,
         req.op = "put_single_moving_feature"
  PROVE  ReplaceInv'
<1>1. /\ UNCHANGED <<disk, req, before>> /\ tx = "ok" /\ tx' = "ok" /\ pc # "idle" /\ pc # "respond"
      /\ pc' \notin {"except", "respond"}
  BY DEF Works, Kept, Executing, Outcomes
<1>2. /\ req # NoRequest /\ IsDatabase(work) /\ IsDatabase(disk) /\ todo \in Seq(Items)
      /\ Lost(disk)
  BY <1>1 DEF TypeInv, TypeOK, ReplaceInv
<1>3. Lost(disk)' /\ Gone' = Gone
  BY <1>1, <1>2 DEF Lost, Gone
<1>4. CASE put_single_moving_feature
  <2>1. /\ pc = "check" /\ pc' = "feature" /\ work' = DeleteFeatures(work, {req.fid})
        /\ Len(todo') = 1 /\ code' = 200
    BY <1>1, <1>4 DEF put_single_moving_feature, At, Answer, Execute
  <2>2. work' = DeleteFeatures(before.db, {req.fid})
    BY <2>1 DEF NothingPending, EntryInv
  <2>3. (Rows(work) = Gone)'
    BY <1>3, <2>2 DEF Gone
  <2>4. QED
    BY <1>1, <1>3, <2>1, <2>3 DEF ReplaceInv, FeatureLabels
<1>5. CASE insert_feature_tables
  <2>1. /\ pc = "feature" /\ pc' = "features" /\ UNCHANGED <<code, todo>>
        /\ work' = CreateTables(work, {"core", "features"})
    BY <1>1, <1>5 DEF insert_feature_tables, Raise, Execute, loop
  <2>2. Rows(work') = Rows(work)
    BY <1>2, <2>1, CreateTablesRows
  <2>3. code = 200 /\ Len(todo) = 1 /\ Rows(work) = Gone
    BY <1>1, <1>2, <2>1 DEF ReplaceInv, FeatureLabels
  <2>4. (Rows(work) = Gone)'
    BY <1>3, <2>2, <2>3
  <2>5. QED
    BY <1>1, <1>3, <2>1, <2>3, <2>4 DEF ReplaceInv, FeatureLabels
<1>6. ASSUME insert_feature_row \/ insert_feature_geometry
      PROVE  /\ code' = 200
             /\ pc' = "finish" \/ (pc' = "insert geometry" /\ Len(todo') = 1)
  <2>1. pc \in {"insert feature", "insert geometry"}
    BY <1>6 DEF insert_feature_row, insert_feature_geometry
  <2>2. code = 200 /\ Len(todo) = 1 /\ req # NoRequest
    BY <1>2, <2>1 DEF ReplaceInv, FeatureLabels
  <2>3. Tail(todo) = <<>>
    <3>1. todo # <<>>
      BY <2>2, EmptySeq
    <3>2. Tail(todo) \in Seq(Items) /\ Len(Tail(todo)) = Len(todo) - 1
      BY <1>2, <3>1, HeadTailProperties
    <3>3. Tail(todo) # <<>> => Len(Tail(todo)) \in Nat \ {0}
      BY <3>2, EmptySeq
    <3>4. QED
      BY <2>2, <3>2, <3>3
  <2>4. NextItem(Tail(todo), "feature") = "finish"
    BY <2>3 DEF NextItem
  <2>5. CASE insert_feature_row
    <3>1. PICK id, fresh : AfterRow(id, fresh)
      BY <2>5 DEF insert_feature_row
    <3>2. CASE pc' = "insert geometry"
      <4>1. code' = code /\ todo' = [todo EXCEPT ![1].id = id]
        BY <2>4, <3>1, <3>2 DEF AfterRow
      <4>2. Len(todo') = Len(todo)
        BY <1>2, <4>1
      <4>3. QED
        BY <2>2, <3>2, <4>1, <4>2
    <3>3. QED
      BY <1>1, <2>2, <2>4, <3>1, <3>2 DEF AfterRow
  <2>6. CASE insert_feature_geometry
    BY <1>1, <2>2, <2>4, <2>6 DEF insert_feature_geometry, StatementFails, Execute
  <2>7. QED
    BY <1>6, <2>5, <2>6
<1>7. CASE insert_feature_row \/ insert_feature_geometry
  BY <1>1, <1>3, <1>6, <1>7 DEF ReplaceInv, FeatureLabels
<1>8. QED
  BY <1>4, <1>5, <1>7, OwnStatements DEF Works

\* So does every step.
LEMMA ReplaceStep ==
  TypeInv /\ NothingPending /\ EntryInv /\ ReplaceInv /\ [Next]_vars => ReplaceInv'
<1> SUFFICES ASSUME TypeInv, NothingPending, EntryInv, ReplaceInv, [Next]_vars,
                    req' # NoRequest, req'.op = "put_single_moving_feature"
             PROVE  ReplaceInv'
  BY DEF ReplaceInv
<1>1. Course
  BY EveryStep
<1>2. ASSUME Kept PROVE req # NoRequest /\ req.op = "put_single_moving_feature" /\ Gone' = Gone
  BY <1>2 DEF Kept, Gone
<1>3. CASE Leave
  BY <1>3 DEF Leave
<1>4. CASE Arrives
  <2>1. pc' \in {"start", "check"} /\ disk' = before'.db
    BY <1>4 DEF Arrives, Kept, EntryInv
  <2>2. Lost(disk)'
    BY <2>1 DEF Lost
  <2>3. QED
    BY <2>1, <2>2 DEF ReplaceInv, FeatureLabels
<1>5. CASE Refuses
  <2>1. Kept /\ disk' = disk /\ pc' \in {"except", "respond", "respond in except"}
    BY <1>5 DEF Refuses
  <2>2. Lost(disk)' <=> Lost(disk)
    BY <2>1 DEF Kept, Lost, Gone
  <2>3. pc' = "except" /\ tx' # "closed" => Lost(disk)
    BY <1>2, <1>5, <2>1, LabelsType DEF Refuses, ReplaceInv, Executing
  <2>4. pc' # "except" => Lost(disk)
    BY <1>2, <1>5, <2>1 DEF Refuses, ReplaceInv, SilentReads
  <2>5. QED
    BY <2>1, <2>2, <2>3, <2>4 DEF ReplaceInv, FeatureLabels
<1>6. CASE Shows
  BY <1>2, <1>6 DEF Shows, Reads, SilentReads, GuardedReads, BareReads
<1>7. CASE Waits
  <2>1. Kept /\ UNCHANGED <<pc, code, todo>>
    BY <1>7 DEF Waits
  <2>2. CASE UNCHANGED <<disk, work, tx>>
    BY <1>2, <2>1, <2>2 DEF ReplaceInv, Kept, Lost, Gone
  <2>3. CASE tx' = "closed" /\ disk' = disk
    BY <1>2, <2>1, <2>3 DEF ReplaceInv, Kept, Lost, Gone
  <2>4. CASE tx' = "closed" /\ pc \in DOMAIN AfterCommit /\ tx = "ok" /\ disk' = work
    <3>1. pc = "features" \/ pc = "finish"
      BY <1>2, <2>1, <2>4, LabelsType DEF ReplaceInv, FeatureLabels
    <3>2. pc = "features" => Lost(disk)'
      BY <1>2, <2>1, <2>4 DEF ReplaceInv, Lost
    <3>3. QED
      BY <1>2, <2>1, <2>4, <3>1, <3>2 DEF ReplaceInv, FeatureLabels
  <2>5. QED
    BY <1>7, <2>2, <2>3, <2>4 DEF Waits
<1>8. CASE Works
  BY <1>2, <1>8, ReplaceWorks DEF Works
<1>9. CASE Commit
  <2>1. /\ Kept /\ disk' = work /\ tx = "ok" /\ pc \in DOMAIN AfterCommit /\ pc' = AfterCommit[pc]
        /\ UNCHANGED <<code, todo>>
    BY <1>9 DEF Commit, request, loop, Kept
  <2>2. CASE pc = "features"
    <3>1. pc' = "insert feature"
      BY <2>1, <2>2 DEF AfterCommit
    <3>2. Rows(work) = Gone /\ code = 200 /\ Len(todo) = 1
      BY <1>2, <2>1, <2>2 DEF ReplaceInv, FeatureLabels
    <3>3. Lost(disk)'
      BY <1>2, <2>1, <3>2 DEF Lost
    <3>4. QED
      BY <2>1, <3>1, <3>2, <3>3 DEF ReplaceInv, FeatureLabels
  <2>3. CASE pc = "finish"
    <3>1. pc' = "respond" /\ code' = 200
      BY <1>2, <2>1, <2>3 DEF AfterCommit, ReplaceInv
    <3>2. code' < 400
      BY <3>1
    <3>3. QED
      BY <3>1, <3>2 DEF ReplaceInv, FeatureLabels
  <2>4. QED
    BY <1>2, <2>1, <2>2, <2>3, LabelsType DEF ReplaceInv, FeatureLabels
<1>10. QED
  BY <1>1, <1>3, <1>4, <1>5, <1>6, <1>7, <1>8, <1>9 DEF Course

\* A refused PUT of a feature can lose that feature, and nothing else.
THEOREM ReplacesLoseAtMostTheirFeature == Spec => []RefusedReplaceLosesAtMostItsFeature
<1>1. Init => ReplaceInv
  BY DEF Init, ReplaceInv
<1>2. TypeInv /\ ReplaceInv => RefusedReplaceLosesAtMostItsFeature
  <2> SUFFICES ASSUME TypeInv, ReplaceInv, Refused, req.op = "put_single_moving_feature"
               PROVE  Lost(disk)
    BY DEF RefusedReplaceLosesAtMostItsFeature, Lost, Gone
  <2>1. req # NoRequest /\ code \in Nat /\ code >= 400 /\ pc \in {"respond", "respond in except"}
    BY DEF Refused, Answering, TypeInv, TypeOK
  <2>2. \A n \in Nat : n >= 400 => ~(n < 400)
    OBVIOUS
  <2>3. QED
    BY <2>1, <2>2 DEF ReplaceInv
<1>3. QED
  BY <1>1, <1>2, ReplaceStep, EntryAlways, NothingLeftPending, TypeInvariant, PTL DEF Spec

\* A POST of a property with values: the property is committed before them.
PropertyOnly(db) ==
  /\ req.form \in {"with values", "with bad values"}
  /\ Rows(db) = Rows(InsertPropertyRow(before.db, serial, req.fid, req.name))
Left(db) == Rows(db) = Rows(before.db) \/ PropertyOnly(db)

PropertyInv ==
  req # NoRequest /\ req.op = "post_tproperties" =>
    /\ pc \in {"start", "check", "property", "insert values", "finish", "except", "respond",
               "respond in except"}
    /\ pc \notin {"finish", "except", "respond"} => Left(disk)
    /\ pc = "except" /\ tx # "closed" => Left(disk)
    /\ pc = "respond" => code < 400 \/ Left(disk)
    /\ pc \in {"property", "insert values", "finish"} => code = 201
    /\ pc = "check" => req.form # "bad json"
    /\ pc = "property" /\ tx = "ok" => PropertyOnly(work)
    /\ pc = "insert values" => PropertyOnly(disk)

\* The statements of that POST keep that.
LEMMA PropertyWorks ==
  ASSUME TypeInv, NothingPending, EntryInv, PropertyInv, Works, req.op = "post_tproperties"
  PROVE  PropertyInv'
<1>1. /\ UNCHANGED <<disk, req, before>> /\ tx = "ok" /\ tx' = "ok" /\ pc # "idle" /\ pc # "respond"
      /\ pc' \notin {"idle", "except", "respond"}
  BY DEF Works, Kept, Executing, Outcomes
<1>2. req # NoRequest /\ req \in Requests
  BY <1>1, RequestType DEF TypeInv, TypeOK
<1>3. CASE post_tproperties
  <2>1. /\ pc = "check"
        /\ work' = InsertPropertyRow(work, serial', req.fid, req.name)
        /\ pc' = IF req.form = "ok" THEN "finish" ELSE "property"
        /\ code' = 201 /\ req.form \notin {"neither", "invalid"}
    <3>1. /\ pc = "check" /\ ~Leave /\ ~Answer(400) /\ ~Answer(409) /\ ~Raise(500)
      BY <1>1, <1>3 DEF post_tproperties, Handles, At, Answer, Raise, Leave
    <3>2. QED
      BY <1>3, <3>1 DEF post_tproperties, Execute
  <2>2. work' = InsertPropertyRow(before.db, serial', req.fid, req.name) /\ disk = before.db
    BY <2>1 DEF NothingPending, EntryInv
  <2>3. pc' = "property" => req.form \in {"with values", "with bad values"}
    <3>1. req.form \in {"ok", "with values", "with bad values"}
      BY <1>2, <2>1, FormsAssumption DEF PropertyInv
    <3>2. QED
      BY <2>1, <3>1
  <2>4. pc' = "property" => PropertyOnly(work)'
    BY <1>1, <2>2, <2>3 DEF PropertyOnly
  <2>5. Left(disk)'
    BY <1>1, <2>2 DEF Left
  <2>6. QED
    BY <1>1, <2>1, <2>4, <2>5 DEF PropertyInv
<1>4. CASE post_tproperties_values
  <2>1. pc = "insert values" /\ pc' = "finish" /\ code' = code
    BY <1>1, <1>4 DEF post_tproperties_values, At, Raise, StatementFails, Execute
  <2>2. code = 201
    BY <1>2, <2>1 DEF PropertyInv
  <2>3. QED
    BY <2>1, <2>2 DEF PropertyInv
<1>5. QED
  BY <1>3, <1>4, OwnStatements DEF Works

\* So does every step.
LEMMA PropertyStep ==
  TypeInv /\ NothingPending /\ EntryInv /\ PropertyInv /\ [Next]_vars => PropertyInv'
<1> SUFFICES ASSUME TypeInv, NothingPending, EntryInv, PropertyInv, [Next]_vars,
                    req' # NoRequest, req'.op = "post_tproperties"
             PROVE  PropertyInv'
  BY DEF PropertyInv
<1>1. Course
  BY EveryStep
<1>2. ASSUME Kept PROVE req # NoRequest /\ req.op = "post_tproperties"
  BY <1>2 DEF Kept
<1>3. CASE Leave
  BY <1>3 DEF Leave
<1>4. CASE Arrives
  <2>1. pc' \in {"start", "check"} /\ disk' = before'.db
    BY <1>4 DEF Arrives, Kept, EntryInv
  <2>2. Left(disk)'
    BY <2>1 DEF Left
  <2>3. pc' = "check" => req'.form # "bad json"
    BY <1>4 DEF Arrives, Kept, DecodeErrorAnswered
  <2>4. QED
    BY <2>1, <2>2, <2>3 DEF PropertyInv
<1>5. CASE Refuses
  <2>1. /\ Kept /\ UNCHANGED <<disk, serial>>
        /\ pc' \in {"except", "respond", "respond in except"}
    BY <1>5 DEF Refuses
  <2>2. Left(disk)' <=> Left(disk)
    BY <2>1 DEF Kept, Left, PropertyOnly
  <2>3. pc' = "except" /\ tx' # "closed" => Left(disk)
    BY <1>2, <1>5, <2>1, LabelsType DEF Refuses, PropertyInv, Executing
  <2>4. pc' # "except" => Left(disk)
    BY <1>2, <1>5, <2>1 DEF Refuses, PropertyInv, SilentReads
  <2>5. QED
    BY <2>1, <2>2, <2>3, <2>4 DEF PropertyInv
<1>6. CASE Shows
  BY <1>2, <1>6 DEF Shows, Reads, SilentReads, GuardedReads, BareReads
<1>7. CASE Waits
  <2>1. Kept /\ UNCHANGED <<pc, code, serial>>
    BY <1>7 DEF Waits
  <2>2. CASE UNCHANGED <<disk, work, tx>>
    BY <1>2, <2>1, <2>2 DEF PropertyInv, Kept, Left, PropertyOnly
  <2>3. CASE tx' = "closed" /\ disk' = disk
    BY <1>2, <2>1, <2>3 DEF PropertyInv, Kept, Left, PropertyOnly
  <2>4. CASE tx' = "closed" /\ pc \in DOMAIN AfterCommit /\ tx = "ok" /\ disk' = work
    <3>1. pc = "property" \/ pc = "finish"
      BY <1>2, <2>1, <2>4, LabelsType DEF PropertyInv
    <3>2. pc = "property" => Left(disk)'
      BY <1>2, <2>1, <2>4 DEF PropertyInv, Left, PropertyOnly, Kept
    <3>3. QED
      BY <1>2, <2>1, <2>4, <3>1, <3>2 DEF PropertyInv
  <2>5. QED
    BY <1>7, <2>2, <2>3, <2>4 DEF Waits
<1>8. CASE Works
  BY <1>2, <1>8, PropertyWorks DEF Works
<1>9. CASE Commit
  <2>1. /\ Kept /\ disk' = work /\ tx = "ok" /\ pc \in DOMAIN AfterCommit /\ pc' = AfterCommit[pc]
        /\ UNCHANGED <<code, serial>>
    BY <1>9 DEF Commit, request, Kept
  <2>2. CASE pc = "property"
    <3>1. pc' = "insert values"
      BY <2>1, <2>2 DEF AfterCommit
    <3>2. PropertyOnly(work) /\ code = 201
      BY <1>2, <2>1, <2>2 DEF PropertyInv
    <3>3. PropertyOnly(disk)'
      BY <2>1, <3>2 DEF PropertyOnly, Kept
    <3>4. QED
      BY <2>1, <3>1, <3>2, <3>3 DEF PropertyInv, Left
  <2>3. CASE pc = "finish"
    <3>1. pc' = "respond" /\ code' = 201
      BY <1>2, <2>1, <2>3 DEF AfterCommit, PropertyInv
    <3>2. code' < 400
      BY <3>1
    <3>3. QED
      BY <3>1, <3>2 DEF PropertyInv
  <2>4. QED
    BY <1>2, <2>1, <2>2, <2>3, LabelsType DEF PropertyInv
<1>10. QED
  BY <1>1, <1>3, <1>4, <1>5, <1>6, <1>7, <1>8, <1>9 DEF Course

\* It always holds.
LEMMA PropertyAlways == Spec => []PropertyInv
<1>1. Init => PropertyInv
  BY DEF Init, PropertyInv
<1>2. QED
  BY <1>1, PropertyStep, EntryAlways, NothingLeftPending, TypeInvariant, PTL DEF Spec

\* A refused POST of a property with values can leave the property behind,
\* without values, and nothing else.
THEOREM RefusedPropertiesHaveNoValues == Spec => []RefusedPropertyHasNoValues
<1>1. TypeInv /\ PropertyInv => RefusedPropertyHasNoValues
  <2> SUFFICES ASSUME TypeInv, PropertyInv, Refused, req.op = "post_tproperties"
               PROVE  Left(disk)
    BY DEF RefusedPropertyHasNoValues, Left, PropertyOnly
  <2>1. req # NoRequest /\ code \in Nat /\ code >= 400 /\ pc \in {"respond", "respond in except"}
    BY DEF Refused, Answering, TypeInv, TypeOK
  <2>2. \A n \in Nat : n >= 400 => ~(n < 400)
    OBVIOUS
  <2>3. QED
    BY <2>1, <2>2 DEF PropertyInv
<1>2. QED
  BY <1>1, PropertyAlways, TypeInvariant, PTL

-----------------------------------------------------------------------------
(* What insert_feature does to the feature it is given.                    *)

\* The row went in, or one of its id was there.
RowDone(id) ==
  /\ id \in Keys(Head(todo).id) /\ id \in FeatureIds
  /\ id \notin DOMAIN work.features => FeatureInserted(work, work', id, req.cid)
  /\ id \in DOMAIN work.features => work' = work
  /\ UNCHANGED <<disk, serial, req, before, code>>

\* Its geometry is next.
GeometryNext(id) ==
  /\ id \notin DOMAIN work.features /\ pc' = "insert geometry" /\ made' = made
  /\ Head(todo).kind \in {"ok", "bad temporalGeometry"}
  /\ todo' \in Seq(Items) /\ todo' # <<>>
  /\ Head(todo') = [Head(todo) EXCEPT !.id = id] /\ Tail(todo') = Tail(todo)

\* It has none, or the row was there: this feature is done with.
RowIsAll(id) ==
  /\ id \notin DOMAIN work.features => Head(todo).kind = "empty temporalGeometry"
  /\ pc' = NextItem(Tail(todo), "feature") /\ pc' \in {"feature", "finish"} /\ todo' = Tail(todo)
  /\ made' = IF id \notin DOMAIN work.features THEN made \cup {id} ELSE made

\* A step that inserts the row of a feature does one or the other.
LEMMA InsertedRow ==
  ASSUME TypeInv, insert_feature_row, pc' # "except"
  PROVE  \E id \in FeatureIds : RowDone(id) /\ (GeometryNext(id) \/ RowIsAll(id))
<1>1. pc = "insert feature" /\ pc # "idle"
  BY DEF insert_feature_row
<1>2. /\ todo \in Seq(Items) /\ todo # <<>> /\ Head(todo) \in Items /\ IsDatabase(work)
  BY <1>1, HeadTailType DEF TypeInv, TypeOK, Control, FeatureLabels
<1>3. PICK id \in Keys(Head(todo).id) :
        /\ work' = IF id \notin DOMAIN work.features
                   THEN InsertFeatureRow(work, id, req.cid) ELSE work
        /\ AfterRow(id, id \notin DOMAIN work.features)
  BY DEF insert_feature_row
<1> DEFINE fresh == id \notin DOMAIN work.features
<1>4. id \in FeatureIds
  BY <1>2, <1>3 DEF Keys, Items
<1>5. UNCHANGED <<disk, serial, req, before, code>>
  BY <1>3 DEF insert_feature_row, request, AfterRow
<1>6. fresh => FeatureInserted(work, work', id, req.cid)
  BY <1>2, <1>3, InsertFeatureRowFields
<1>7. RowDone(id)
  BY <1>3, <1>4, <1>5, <1>6 DEF RowDone
<1>8. CASE /\ Head(todo).kind \in {"ok", "bad temporalGeometry"} /\ fresh
           /\ pc' = "insert geometry" /\ todo' = [todo EXCEPT ![1].id = id]
           /\ UNCHANGED <<code, made>>
  <2> DEFINE first == [Head(todo) EXCEPT !.id = id]
  <2>1. Head(todo) = todo[1] /\ Len(todo) \in Nat \ {0} /\ 1 \in 1..Len(todo)
    BY <1>2, HeadTailType, EmptySeq
  <2>2. first \in Items
    BY <1>2, <1>4 DEF Items
  <2>3. todo' = [todo EXCEPT ![1] = first]
    BY <1>8, <2>1
  <2> HIDE DEF first
  <2>4. /\ todo' \in Seq(Items) /\ Len(todo') = Len(todo)
        /\ \A n \in 1..Len(todo) : todo'[n] = IF n = 1 THEN first ELSE todo[n]
    BY <1>2, <2>1, <2>2, <2>3, ExceptSeq
  <2>5. todo' # <<>>
    BY <2>1, <2>4, EmptySeq
  <2>6. Head(todo') = first
    BY <2>1, <2>4, <2>5, HeadTailType
  <2>7. Tail(todo') = Tail(todo)
    <3>1. /\ Tail(todo) \in Seq(Items) /\ Len(Tail(todo)) = Len(todo) - 1
          /\ \A n \in 1..Len(Tail(todo)) : Tail(todo)[n] = todo[n + 1]
      BY <1>2, HeadTailProperties
    <3>2. /\ Tail(todo') \in Seq(Items) /\ Len(Tail(todo')) = Len(todo') - 1
          /\ \A n \in 1..Len(Tail(todo')) : Tail(todo')[n] = todo'[n + 1]
      BY <2>4, <2>5, HeadTailProperties
    <3>3. \A n \in 1..Len(Tail(todo)) : Tail(todo')[n] = Tail(todo)[n]
      BY <2>1, <2>4, <3>1, <3>2
    <3>4. QED
      BY <2>4, <3>1, <3>2, <3>3, SeqEqual
  <2>8. GeometryNext(id)
    BY <1>8, <2>4, <2>5, <2>6, <2>7 DEF GeometryNext, first
  <2>9. QED
    BY <1>4, <1>7, <2>8
<1>9. CASE /\ Head(todo).kind = "empty temporalGeometry" \/ ~fresh
           /\ pc' = NextItem(Tail(todo), "feature") /\ todo' = Tail(todo)
           /\ made' = IF fresh THEN made \cup {id} ELSE made
  <2>1. pc' \in {"feature", "finish"}
    BY <1>9, NextItemType
  <2>2. RowIsAll(id)
    BY <1>9, <2>1 DEF RowIsAll
  <2>3. QED
    BY <1>4, <1>7, <2>2
<1>10. QED
  BY <1>3, <1>8, <1>9 DEF AfterRow

\* A step that inserts the geometry of a feature completes it.
LEMMA InsertedGeometry ==
  ASSUME TypeInv, TablesInv, insert_feature_geometry, pc' # "except"
  PROVE  /\ pc = "insert geometry" /\ Head(todo).kind = "ok" /\ Head(todo) \in Items
         /\ Head(todo).id \in FeatureIds /\ Head(todo).traj \in Trajectories
         /\ GeometryInserted(work, work', serial + 1, Head(todo).id, req.cid,
                             Head(todo).traj, TRUE)
         /\ serial + 1 \in Nat \ DOMAIN work.geometries
         /\ pc' = NextItem(Tail(todo), "feature") /\ pc' \in {"feature", "finish"}
         /\ todo' = Tail(todo) /\ made' = made \cup {Head(todo).id}
         /\ serial' = serial + 1
         /\ UNCHANGED <<disk, req, before, code>>
<1>1. pc = "insert geometry" /\ pc # "idle"
  BY DEF insert_feature_geometry
<1>2. /\ todo \in Seq(Items) /\ todo # <<>> /\ Head(todo).id \in FeatureIds
      /\ req.cid \in CollectionIds /\ IsDatabase(work) /\ serial \in Nat
  BY <1>1, RequestType DEF TypeInv, TypeOK, Control, FeatureLabels, Request
<1>3. Head(todo) \in Items /\ Head(todo).traj \in Trajectories
  BY <1>2, HeadTailType DEF Items
<1>4. /\ Head(todo).kind = "ok" /\ serial' = serial + 1
      /\ work' = InsertGeometryRow(work, serial', Head(todo).id, req.cid, Head(todo).traj, TRUE)
      /\ pc' = NextItem(Tail(todo), "feature")
      /\ todo' = Tail(todo) /\ made' = made \cup {Head(todo).id}
      /\ UNCHANGED <<disk, req, before, code>>
  BY DEF insert_feature_geometry, StatementFails, Execute, Draw, request
<1>5. serial + 1 \in Nat \ DOMAIN work.geometries
  BY <1>2 DEF TablesInv, KeysDrawn, IsDatabase, IsTable
<1> DEFINE key == serial + 1
           traj == Head(todo).traj
           id == Head(todo).id
<1>6. work' = InsertGeometryRow(work, key, id, req.cid, traj, TRUE)
  BY <1>4
<1> HIDE DEF key, traj, id
<1>7. key \in Nat \ DOMAIN work.geometries /\ traj \in Trajectories /\ id \in FeatureIds
  BY <1>2, <1>3, <1>5 DEF key, traj, id
<1>8. TRUE \in BOOLEAN
  OBVIOUS
<1>9. GeometryInserted(work, work', key, id, req.cid, traj, TRUE)
  BY <1>2, <1>6, <1>7, <1>8, InsertGeometryRowFields
<1>10. QED
  BY <1>1, <1>2, <1>3, <1>4, <1>5, <1>9, NextItemType DEF key, traj, id

\* A POST of features commits each of them with the tables of the next one: all
\* those it made are committed, except possibly the last.
Grown(db, ids) == DOMAIN db.features = DOMAIN before.db.features \cup ids

Prefix ==
  \E M \in SUBSET made : Grown(disk, M) /\ \E f : made \subseteq M \cup {f}

PrefixInv ==
  req # NoRequest /\ req.op = "post_collection_items" =>
    /\ pc \in FeatureLabels \cup {"start", "check", "finish", "except", "respond",
                                  "respond in except"}
    /\ Prefix
    /\ made \cap DOMAIN before.db.features = {}
    /\ pc \in {"insert feature", "insert geometry"} => Grown(disk, made)
    /\ tx = "ok" /\ pc \in {"feature", "features", "insert feature", "finish"} =>
         Grown(work, made)
    /\ tx = "ok" /\ pc = "insert geometry" =>
         /\ Grown(work, made \cup {Head(todo).id})
         /\ Head(todo).id \notin DOMAIN before.db.features

\* The statements of that POST keep PrefixInv.
LEMMA PrefixWorks ==
  ASSUME TypeInv, TablesInv, NothingPending, EntryInv, PrefixInv, Works,
         req.op = "post_collection_items"
  PROVE  PrefixInv'
<1>1. /\ UNCHANGED <<disk, req, before>> /\ tx = "ok" /\ tx' = "ok" /\ pc # "idle"
      /\ pc' \notin {"except", "respond"}
  BY DEF Works, Kept, Executing, Outcomes
<1>2. /\ req # NoRequest /\ IsDatabase(work) /\ IsDatabase(disk) /\ todo \in Seq(Items)
      /\ req \in Request
  BY <1>1, RequestType DEF TypeInv, TypeOK
<1>4. CASE post_collection_items
  <2>1. /\ pc = "check" /\ pc' \in {"feature", "finish"} /\ UNCHANGED work /\ made' = {}
    <3>1. /\ pc = "check" /\ pc' = NextItem(req.items, "feature") /\ made' = {} /\ UNCHANGED work
      BY <1>1, <1>4 DEF post_collection_items, At, Raise, store
    <3>2. QED
      BY <3>1, NextItemType
  <2>2. work = before.db /\ disk = before.db
    BY <2>1 DEF NothingPending, EntryInv
  <2>3. Grown(work, made)' /\ Grown(disk, made)'
    BY <1>1, <2>1, <2>2 DEF Grown
  <2>4. Prefix'
    BY <2>1, <2>3 DEF Prefix
  <2>5. QED
    BY <1>1, <2>1, <2>3, <2>4 DEF PrefixInv, FeatureLabels
<1>5. CASE insert_feature_tables
  <2>1. /\ pc = "feature" /\ pc' = "features" /\ UNCHANGED made
        /\ work' = CreateTables(work, {"core", "features"})
    BY <1>1, <1>5 DEF insert_feature_tables, Raise, Execute, loop
  <2>2. work'.features = work.features
    BY <1>2, <2>1, CreateTablesFields DEF TablesCreated
  <2>3. Prefix' /\ Grown(work, made)'
    BY <1>1, <1>2, <2>1, <2>2 DEF PrefixInv, Prefix, Grown
  <2>4. QED
    BY <1>1, <1>2, <2>1, <2>3 DEF PrefixInv, FeatureLabels
<1> DEFINE Completes(id) ==
             /\ pc \in {"insert feature", "insert geometry"} /\ pc' \in {"feature", "finish"}
             /\ made' \in {made, made \cup {id}}
             /\ id \in made' => id \notin DOMAIN before.db.features
             /\ Grown(work', made')
<1>6. ASSUME NEW id, Completes(id) PROVE PrefixInv'
  <2>1. Grown(disk, made) /\ made \cap DOMAIN before.db.features = {}
    BY <1>2, <1>6 DEF PrefixInv
  <2>2. Grown(work, made)'
    BY <1>1, <1>6 DEF Grown
  <2>3. made \in SUBSET made' /\ made' \subseteq made \cup {id}
    BY <1>6
  <2>4. Prefix'
    BY <1>1, <2>1, <2>3 DEF Prefix, Grown
  <2>5. made' \cap DOMAIN before.db.features = {}
    BY <1>6, <2>1
  <2>6. QED
    BY <1>1, <1>6, <2>2, <2>4, <2>5 DEF PrefixInv, FeatureLabels
<1>7. CASE insert_feature_row
  <2>1. PICK id \in FeatureIds : RowDone(id) /\ (GeometryNext(id) \/ RowIsAll(id))
    BY <1>1, <1>7, InsertedRow
  <2>2. pc = "insert feature"
    BY <1>7 DEF insert_feature_row
  <2>3. /\ Grown(work, made) /\ Grown(disk, made) /\ Prefix
        /\ made \cap DOMAIN before.db.features = {}
    BY <1>1, <1>2, <2>2 DEF PrefixInv
  <2>4. id \notin DOMAIN work.features =>
          /\ DOMAIN work'.features = DOMAIN work.features \cup {id}
          /\ id \notin DOMAIN before.db.features
    BY <2>1, <2>3 DEF RowDone, FeatureInserted, Grown
  <2>5. CASE GeometryNext(id)
    <3>1. /\ pc' = "insert geometry" /\ made' = made /\ id \notin DOMAIN work.features
          /\ Head(todo') = [Head(todo) EXCEPT !.id = id] /\ Head(todo) \in Items
      BY <2>2, <2>5, HeadTailType DEF GeometryNext, TypeInv, TypeOK, Control, FeatureLabels
    <3>2. Head(todo').id = id
      BY <3>1 DEF Items
    <3>3. Grown(work', made' \cup {id})
      BY <2>3, <2>4, <3>1 DEF Grown
    <3>4. Grown(work, made \cup {Head(todo).id})'
      BY <1>1, <3>2, <3>3 DEF Grown
    <3>5. Prefix' /\ Grown(disk, made)'
      BY <1>1, <2>3, <3>1 DEF Prefix, Grown
    <3>6. QED
      BY <1>1, <2>3, <2>4, <3>1, <3>2, <3>4, <3>5 DEF PrefixInv, FeatureLabels
  <2>6. CASE RowIsAll(id)
    <3>1. Grown(work', made')
      BY <2>1, <2>3, <2>4, <2>6 DEF RowDone, RowIsAll, Grown
    <3>2. id \in made' => id \notin DOMAIN before.db.features
      BY <2>3, <2>4, <2>6 DEF RowIsAll
    <3>3. pc' \in {"feature", "finish"} /\ made' \in {made, made \cup {id}}
      BY <2>6 DEF RowIsAll
    <3>4. Completes(id)
      BY <2>2, <3>1, <3>2, <3>3
    <3>5. QED
      BY <1>6, <3>4
  <2>7. QED
    BY <2>1, <2>5, <2>6
<1>8. CASE insert_feature_geometry
  <2>a. PICK id : id = Head(todo).id
    OBVIOUS
  <2>1. /\ pc = "insert geometry" /\ pc' \in {"feature", "finish"} /\ made' = made \cup {id}
        /\ DOMAIN work'.features = DOMAIN work.features
    BY <1>1, <1>8, <2>a, InsertedGeometry DEF GeometryInserted
  <2>2. Grown(work, made \cup {id}) /\ id \notin DOMAIN before.db.features
    BY <1>1, <1>2, <2>a, <2>1 DEF PrefixInv
  <2>3. Grown(work', made')
    BY <2>1, <2>2 DEF Grown
  <2>4. Completes(id)
    BY <2>1, <2>2, <2>3
  <2>5. QED
    BY <1>6, <2>4
<1>9. QED
  BY <1>4, <1>5, <1>7, <1>8, OwnStatements DEF Works

\* So does every step.
LEMMA PrefixStep ==
  TypeInv /\ TablesInv /\ NothingPending /\ EntryInv /\ PrefixInv /\ [Next]_vars => PrefixInv'
<1> SUFFICES ASSUME TypeInv, TablesInv, NothingPending, EntryInv, PrefixInv, [Next]_vars,
                    req' # NoRequest, req'.op = "post_collection_items"
             PROVE  PrefixInv'
  BY DEF PrefixInv
<1>1. Course
  BY EveryStep
<1>2. ASSUME Kept
      PROVE  /\ req # NoRequest /\ req.op = "post_collection_items" /\ UNCHANGED <<req, before>>
             /\ Prefix /\ made \cap DOMAIN before.db.features = {}
  BY <1>2 DEF Kept, PrefixInv
<1>3. CASE Leave
  BY <1>3 DEF Leave
<1>4. CASE Arrives
  <2>1. pc' \in {"start", "check"} /\ disk' = before'.db /\ made' = {}
    BY <1>4 DEF Arrives, Kept, EntryInv
  <2>2. Prefix'
    BY <2>1 DEF Prefix, Grown
  <2>3. QED
    BY <2>1, <2>2 DEF PrefixInv, FeatureLabels
<1>5. CASE Refuses
  <2>1. /\ Kept /\ UNCHANGED <<disk, made>> /\ pc' \in {"except", "respond", "respond in except"}
    BY <1>5 DEF Refuses
  <2>2. Prefix'
    BY <1>2, <2>1 DEF Prefix, Grown
  <2>3. QED
    BY <1>2, <2>1, <2>2 DEF PrefixInv, FeatureLabels
<1>6. CASE Shows
  BY <1>2, <1>6 DEF Shows, Reads, SilentReads, GuardedReads, BareReads
<1>7. CASE Waits
  <2>1. Kept /\ UNCHANGED <<pc, todo, made>>
    BY <1>7 DEF Waits
  <2>2. CASE UNCHANGED <<disk, work, tx>>
    BY <1>2, <2>1, <2>2 DEF PrefixInv, Kept, Prefix, Grown
  <2>3. CASE tx' = "closed" /\ disk' = disk
    BY <1>2, <2>1, <2>3 DEF PrefixInv, Kept, Prefix, Grown
  <2>4. CASE tx' = "closed" /\ pc \in DOMAIN AfterCommit /\ tx = "ok" /\ disk' = work
    <3>1. pc = "features" \/ pc = "finish"
      BY <1>2, <2>1, <2>4, LabelsType DEF PrefixInv, FeatureLabels
    <3>2. Grown(work, made)
      BY <1>2, <2>1, <2>4, <3>1 DEF PrefixInv
    <3>3. Grown(disk, made)'
      BY <1>2, <2>1, <2>4, <3>2 DEF Grown
    <3>4. Prefix'
      BY <3>3 DEF Prefix, Grown
    <3>5. QED
      BY <1>2, <2>1, <2>4, <3>1, <3>4 DEF PrefixInv, FeatureLabels
  <2>5. QED
    BY <1>7, <2>2, <2>3, <2>4 DEF Waits
<1>8. CASE Works
  BY <1>2, <1>8, PrefixWorks DEF Works
<1>9. CASE Commit
  <2>1. /\ Kept /\ disk' = work /\ work' = work /\ tx = "ok" /\ pc \in DOMAIN AfterCommit
        /\ pc' = AfterCommit[pc] /\ UNCHANGED <<made, todo>>
    BY <1>9 DEF Commit, request, loop, Kept
  <2>2. pc = "features" \/ pc = "finish"
    BY <1>2, <2>1, LabelsType DEF PrefixInv, FeatureLabels
  <2>3. pc' = "insert feature" \/ pc' = "respond"
    <3>1. AfterCommit["features"] = "insert feature" /\ AfterCommit["finish"] = "respond"
      BY DEF AfterCommit
    <3>2. QED
      BY <2>1, <2>2, <3>1
  <2>4. Grown(work, made)
    BY <1>2, <2>1, <2>2 DEF PrefixInv
  <2>5. Grown(disk, made)' /\ Grown(work, made)'
    BY <1>2, <2>1, <2>4 DEF Grown
  <2>6. Prefix'
    BY <2>5 DEF Prefix, Grown
  <2>7. QED
    BY <1>2, <2>1, <2>3, <2>5, <2>6 DEF PrefixInv, FeatureLabels
<1>10. QED
  BY <1>1, <1>3, <1>4, <1>5, <1>6, <1>7, <1>8, <1>9 DEF Course

\* It always holds.
LEMMA PrefixAlways == Spec => []PrefixInv
<1>1. Init => PrefixInv
  BY DEF Init, PrefixInv
<1>2. QED
  BY <1>1, PrefixStep, EntryAlways, NothingLeftPending, TablesAlways, TypeInvariant, PTL DEF Spec

\* A refused POST of features keeps those before the failing one, the last of
\* them possibly excepted, and adds nothing else.
THEOREM RefusedBatchesKeepAPrefix == Spec => []RefusedBatchKeepsPrefix
<1>1. TypeInv /\ PrefixInv => RefusedBatchKeepsPrefix
  <2> SUFFICES ASSUME TypeInv, PrefixInv, Refused, req.op = "post_collection_items",
                      NEW new, new = DOMAIN disk.features \ DOMAIN before.db.features
               PROVE  /\ DOMAIN before.db.features \subseteq DOMAIN disk.features
                      /\ new \subseteq made /\ Cardinality(made \ new) <= 1
    BY DEF RefusedBatchKeepsPrefix
  <2>1. req # NoRequest
    BY DEF Refused, Answering, TypeInv, TypeOK
  <2>2. Prefix /\ made \cap DOMAIN before.db.features = {}
    BY <2>1 DEF PrefixInv
  <2>x. PICK M \in SUBSET made : Grown(disk, M) /\ \E f : made \subseteq M \cup {f}
    BY <2>2 DEF Prefix
  <2>3. PICK f : Grown(disk, M) /\ made \subseteq M \cup {f}
    BY <2>x
  <2>4. new = M /\ DOMAIN before.db.features \subseteq DOMAIN disk.features
    BY <2>x, <2>2, <2>3 DEF Grown
  <2>5. made \ new = {} \/ made \ new = {f}
    BY <2>x, <2>3, <2>4
  <2>6. Cardinality({}) = 0 /\ Cardinality({f}) = 1
    BY FS_EmptySet, FS_Singleton
  <2>7. Cardinality(made \ new) <= 1
    BY <2>5, <2>6
  <2>8. QED
    BY <2>x, <2>4, <2>7
<1>2. QED
  BY <1>1, PrefixAlways, TypeInvariant, PTL

-----------------------------------------------------------------------------
(* Rows in an order.                                                       *)

\* A nonempty set of subsets of a finite set has a smallest member.
LEMMA SmallestSubset ==
  ASSUME NEW S, IsFiniteSet(S), NEW T \in SUBSET (SUBSET S), T # {}
  PROVE  \E x \in T : \A y \in T : y \subseteq x => y = x
<1>1. IsWellFoundedOn(StrictSubsetOrdering(S), SUBSET S)
  BY FS_StrictSubsetOrderingWellFounded, FS_FiniteSubsetsOfFinite
<1>2. PICK x \in T : \A y \in T : ~(<<y, x>> \in StrictSubsetOrdering(S))
  BY <1>1, WFMin
<1>3. QED
  BY <1>2 DEF StrictSubsetOrdering

\* What holds of the empty set, and of every other subset if it holds of it
\* without some member, holds of all subsets of a finite set.
LEMMA SubsetInduction ==
  ASSUME NEW S, IsFiniteSet(S), NEW H, {} \in H,
         \A s \in (SUBSET S) \ {{}} : \E x \in s : s \ {x} \in H => s \in H
  PROVE  SUBSET S \subseteq H
<1> SUFFICES ASSUME ~(SUBSET S \subseteq H) PROVE FALSE
  OBVIOUS
<1> DEFINE T == {s \in SUBSET S : s \notin H}
<1>1. T \in SUBSET (SUBSET S) /\ T # {}
  OBVIOUS
<1>2. PICK s \in T : \A y \in T : y \subseteq s => y = s
  <2> HIDE DEF T
  <2>1. QED
    BY <1>1, SmallestSubset
<1>3. s \in SUBSET S /\ s \notin H
  BY <1>2
<1>4. s # {}
  <2>1. \A z : z = {} => z \in H
    OBVIOUS
  <2>2. QED
    BY <1>3, <2>1
<1>5. PICK x \in s : s \ {x} \in H => s \in H
  BY <1>3, <1>4
<1>6. s \ {x} \in T
  BY <1>3, <1>5
<1>7. QED
  BY <1>2, <1>5, <1>6

StrictOrder(less, S) ==
  /\ \A x \in S : <<x, x>> \notin less
  /\ \A x, y, z \in S : <<x, y>> \in less /\ <<y, z>> \in less => <<x, z>> \in less

\* A nonempty finite set has a member that precedes no other.
LEMMA LastOne ==
  ASSUME NEW S, IsFiniteSet(S), S # {}, NEW less, StrictOrder(less, S)
  PROVE  \E x \in S : \A y \in S : <<x, y>> \notin less
<1> DEFINE Above(x) == {y \in S : <<x, y>> \in less}
           T == {Above(x) : x \in S}
<1>1. T \in SUBSET (SUBSET S) /\ T # {}
  OBVIOUS
<1>2. PICK a \in T : \A b \in T : b \subseteq a => b = a
  <2> HIDE DEF T
  <2>1. QED
    BY <1>1, SmallestSubset
<1>3. PICK x \in S : a = Above(x)
  BY <1>2
<1>4. ASSUME NEW y \in S, <<x, y>> \in less PROVE FALSE
  <2>1. Above(y) \subseteq Above(x) /\ Above(y) \in T
    BY <1>3, <1>4 DEF StrictOrder
  <2>2. Above(y) = Above(x)
    BY <1>2, <1>3, <2>1
  <2>3. y \in Above(x) /\ y \notin Above(y)
    BY <1>4 DEF StrictOrder
  <2>4. QED
    BY <2>2, <2>3
<1>5. QED
  BY <1>4

\* Rows in order, with one more that precedes none of them.
LEMMA OneMoreInOrder ==
  ASSUME NEW T, IsFiniteSet(T), NEW x \in T, NEW less, \A y \in T : <<x, y>> \notin less,
         NEW s, s \in Orders(T \ {x}, less)
  PROVE  \E longer : longer \in Orders(T, less)
<1> DEFINE k == Cardinality(T)
           U == T \ {x}
           longer == [n \in 1..k |-> IF n = k THEN x ELSE s[n]]
<1>1. k \in Nat \ {0} /\ Cardinality(U) = k - 1
  BY FS_RemoveElement, FS_CardinalityType, FS_EmptySet
<1>2. /\ s \in [1..k - 1 -> U] /\ \A m, n \in 1..k - 1 : s[m] = s[n] => m = n
      /\ \A y \in U : \E n \in 1..k - 1 : s[n] = y
      /\ \A m, n \in 1..k - 1 : m < n => <<s[n], s[m]>> \notin less
  BY <1>1 DEF Orders, Bijection, Injection, Surjection, IsInjective
<1> HIDE DEF k
<1>3. \A n \in 1..k : n # k => n \in 1..k - 1
  BY <1>1
<1>4. k \in 1..k /\ \A n \in 1..k - 1 : n \in 1..k /\ n # k
  BY <1>1
<1>5. longer \in [1..k -> T]
  BY <1>2, <1>3
<1>6. \A m, n \in 1..k : longer[m] = longer[n] => m = n
  BY <1>2, <1>3
<1>7. ASSUME NEW y \in T PROVE \E n \in 1..k : longer[n] = y
  <2>1. CASE y = x
    BY <1>4, <2>1
  <2>2. CASE y # x
    <3>1. PICK n \in 1..k - 1 : s[n] = y
      BY <1>2, <2>2
    <3>2. QED
      BY <1>4, <3>1
  <2>3. QED
    BY <2>1, <2>2
<1>8. ASSUME NEW m \in 1..k, NEW n \in 1..k, m < n PROVE <<longer[n], longer[m]>> \notin less
  <2>1. m # k
    BY <1>1, <1>8
  <2>2. longer[m] = s[m] /\ m \in 1..k - 1 /\ s[m] \in T
    BY <1>2, <1>3, <2>1
  <2>3. CASE n = k
    BY <2>2, <2>3
  <2>4. CASE n # k
    <3>1. longer[n] = s[n] /\ n \in 1..k - 1
      BY <1>3, <2>4
    <3>2. QED
      BY <1>2, <1>8, <2>2, <3>1
  <2>5. QED
    BY <2>3, <2>4
<1>9. DOMAIN longer = 1..k
  OBVIOUS
<1> HIDE DEF longer
<1>10. longer \in Orders(T, less)
  BY <1>5, <1>6, <1>7, <1>8, <1>9 DEF Orders, Bijection, Injection, Surjection, IsInjective, k
<1>11. QED
  BY <1>10

\* Rows can be put in any strict order: ORDER BY is defined for it.
LEMMA OrderedRows ==
  ASSUME NEW S, IsFiniteSet(S), NEW less, StrictOrder(less, S)
  PROVE  Ordered(S, less) \in Orders(S, less)
<1> DEFINE H == {T \in SUBSET S : \E s : s \in Orders(T, less)}
<1>1. {} \in H
  <2> DEFINE s == [n \in 1..0 |-> n]
  <2>1. 1..0 = {} /\ Cardinality({}) = 0
    BY FS_EmptySet
  <2>2. s \in Bijection(1..0, {}) /\ DOMAIN s = {}
    BY <2>1 DEF Bijection, Injection, Surjection, IsInjective
  <2> HIDE DEF s
  <2>3. s \in Orders({}, less)
    BY <2>1, <2>2 DEF Orders
  <2>4. QED
    BY <2>3
<1>2. ASSUME NEW T \in (SUBSET S) \ {{}} PROVE \E x \in T : T \ {x} \in H => T \in H
  <2>1. IsFiniteSet(T)
    BY FS_Subset
  <2>2. StrictOrder(less, T) /\ T # {}
    BY DEF StrictOrder
  <2>3. PICK x \in T : \A y \in T : <<x, y>> \notin less
    BY <2>1, <2>2, LastOne
  <2>4. ASSUME T \ {x} \in H PROVE T \in H
    BY <2>1, <2>3, <2>4, OneMoreInOrder
  <2>5. QED
    BY <2>4
<1>3. S \in H
  <2> HIDE DEF H
  <2>1. QED
    BY <1>1, <1>2, SubsetInduction
<1>4. QED
  BY <1>3 DEF Ordered

\* The rows, each at one place.
LEMMA OrderedPlaces ==
  ASSUME NEW S, IsFiniteSet(S), NEW less, StrictOrder(less, S), NEW s, s = Ordered(S, less)
  PROVE  /\ \A n \in DOMAIN s : s[n] \in S
         /\ \A y \in S : \E n \in DOMAIN s : s[n] = y
         /\ \A m, n \in DOMAIN s : s[m] = s[n] => m = n
         /\ \A m, n \in DOMAIN s : m < n => <<s[n], s[m]>> \notin less
         /\ DOMAIN s = 1..Cardinality(S) /\ Cardinality(S) \in Nat
<1>1. s \in Orders(S, less) /\ Cardinality(S) \in Nat
  BY OrderedRows, FS_CardinalityType
<1>2. QED
  BY <1>1 DEF Orders, Bijection, Injection, Surjection, IsInjective

-----------------------------------------------------------------------------
(* The reads of a property, of tables whose values are in order.           *)

Readable(d) ==
  /\ IsDatabase(d) /\ InOrder(d) /\ Paired(d)
  /\ IsFiniteSet(DOMAIN d.properties) /\ IsFiniteSet(DOMAIN d.values)
  /\ \A p, q \in DOMAIN d.properties : d.properties[p] = d.properties[q] => p = q

\* The timestamps of a row.
LEMMA DatetimesOfRow ==
  ASSUME NEW d, IsDatabase(d), NEW v \in DOMAIN d.values
  PROVE  /\ DOMAIN TimesOf(d, v) = 1..Len(TimesOf(d, v)) /\ Len(TimesOf(d, v)) \in Nat
         /\ \A i \in DOMAIN TimesOf(d, v) : TimesOf(d, v)[i] \in Instants /\ TimesOf(d, v)[i] \in Int
         /\ TimesOf(d, v) # <<>> =>
              1 \in DOMAIN TimesOf(d, v) /\ Head(TimesOf(d, v)) = TimesOf(d, v)[1]
<1>1. TimesOf(d, v) \in Seq(Instants)
  BY DEF IsDatabase, IsTable, ValuesRow, TimesOf
<1> DEFINE s == TimesOf(d, v)
<1> HIDE DEF s
<1>2. s \in Seq(Instants)
  BY <1>1 DEF s
<1>3. DOMAIN s = 1..Len(s) /\ Len(s) \in Nat /\ \A i \in DOMAIN s : s[i] \in Instants
  BY <1>2, LenProperties, ElementOfSeq
<1>4. s # <<>> => 1 \in DOMAIN s /\ Head(s) = s[1]
  BY <1>2
<1>5. QED
  BY <1>3, <1>4, InstantsAssumption DEF s

\* Every two rows of a property, in the order of their keys.
LEMMA RowsInOrder ==
  ASSUME NEW d, Readable(d), NEW p, NEW v \in ValuesOf(d, p), NEW w \in ValuesOf(d, p), v # w
  PROVE  \/ \A i \in DOMAIN TimesOf(d, v), j \in DOMAIN TimesOf(d, w) : TimesOf(d, v)[i] < TimesOf(d, w)[j]
         \/ \A i \in DOMAIN TimesOf(d, v), j \in DOMAIN TimesOf(d, w) : TimesOf(d, w)[j] < TimesOf(d, v)[i]
<1>1. /\ v \in DOMAIN d.values /\ w \in DOMAIN d.values /\ v \in Nat /\ w \in Nat
      /\ d.values[v].pid = d.values[w].pid
  BY DEF Readable, IsDatabase, IsTable, ValuesOf
<1>2. v < w \/ w < v
  BY <1>1
<1>3. QED
  BY <1>1, <1>2 DEF Readable, InOrder, TimesOf

\* A timestamp of a property is at one place of one row.
LEMMA OnePlace ==
  ASSUME NEW d, Readable(d), NEW p, NEW v \in ValuesOf(d, p), NEW w \in ValuesOf(d, p),
         NEW i \in DOMAIN TimesOf(d, v), NEW j \in DOMAIN TimesOf(d, w),
         TimesOf(d, v)[i] = TimesOf(d, w)[j]
  PROVE  v = w /\ i = j
<1>1. v \in DOMAIN d.values /\ w \in DOMAIN d.values
  BY DEF ValuesOf
<1>2. TimesOf(d, v)[i] \in Int /\ TimesOf(d, w)[j] \in Int /\ i \in Nat /\ j \in Nat
  BY <1>1, DatetimesOfRow DEF Readable
<1>3. v = w
  <2> SUFFICES ASSUME v # w PROVE FALSE
    OBVIOUS
  <2>1. \/ TimesOf(d, v)[i] < TimesOf(d, w)[j]
        \/ TimesOf(d, w)[j] < TimesOf(d, v)[i]
    BY RowsInOrder
  <2>2. QED
    BY <1>2, <2>1
<1>4. i = j
  <2> DEFINE x == TimesOf(d, v)
  <2>1. \A k, m \in DOMAIN x : k < m => x[k] < x[m]
    BY <1>1 DEF Readable, InOrder, TimesOf
  <2>2. i \in DOMAIN x /\ j \in DOMAIN x /\ x[i] = x[j] /\ x[i] \in Int
    BY <1>2, <1>3
  <2> HIDE DEF x
  <2>3. QED
    BY <1>2, <2>1, <2>2
<1>5. QED
  BY <1>3, <1>4

\* ORDER BY datetimes[1] is an order, whatever the rows.
LEMMA ByFirstOrders ==
  ASSUME NEW d, IsDatabase(d), NEW rows \in SUBSET DOMAIN d.values
  PROVE  StrictOrder(ByFirst(d, rows), rows)
<1> DEFINE first == [v \in rows |-> Head(TimesOf(d, v))]
           none == {v \in rows : TimesOf(d, v) = <<>>}
           less == ByFirst(d, rows)
<1>1. \A v \in rows : v \in none \/ first[v] \in Int
  BY DatetimesOfRow
<1>2. \A v, w \in rows : <<v, w>> \in less <=> v \notin none /\ (w \in none \/ first[v] < first[w])
  BY DEF ByFirst
<1> HIDE DEF first, none, less
<1>3. StrictOrder(less, rows)
  BY <1>1, <1>2 DEF StrictOrder
<1>4. QED
  BY <1>3 DEF less

\* The rows and places of a join are finitely many.
LEMMA PlacesFinite ==
  ASSUME NEW places, IsFiniteSet(DOMAIN places),
         \A v \in DOMAIN places : IsFiniteSet(places[v])
  PROVE  IsFiniteSet(PlacesIn(places))
<1> DEFINE InRow(v) == {v} \X places[v]
           M == [v \in DOMAIN places |-> InRow(v)]
           T == {InRow(v) : v \in DOMAIN places}
<1>1. ASSUME NEW v \in DOMAIN places PROVE IsFiniteSet(InRow(v))
  BY FS_Product, FS_Singleton
<1>2. M \in Surjection(DOMAIN places, T)
  BY DEF Surjection
<1>3. \A s \in T : IsFiniteSet(s)
  BY <1>1
<1>4. PlacesIn(places) = UNION T
  BY DEF PlacesIn
<1> HIDE DEF M, T
<1>5. IsFiniteSet(T)
  BY <1>2, FS_Surjection
<1>6. QED
  BY <1>3, <1>4, <1>5, FS_UNION

\* The places inside are finitely many, with a value or without.
LEMMA InsideFinite ==
  ASSUME NEW d, Readable(d), NEW v \in DOMAIN d.values, NEW lo, NEW hi
  PROVE  IsFiniteSet(Within(d, v, lo, hi)) /\ IsFiniteSet(Valued(d, v, lo, hi))
<1>1. DOMAIN TimesOf(d, v) = 1..Len(TimesOf(d, v)) /\ Len(TimesOf(d, v)) \in Nat
  BY DatetimesOfRow DEF Readable
<1>2. IsFiniteSet(1..Len(TimesOf(d, v)))
  BY <1>1, FS_Interval
<1>3. /\ Within(d, v, lo, hi) \in SUBSET (1..Len(TimesOf(d, v)))
      /\ Valued(d, v, lo, hi) \in SUBSET (1..Len(TimesOf(d, v)))
  BY <1>1 DEF Within, Valued
<1>4. QED
  BY <1>2, <1>3, FS_Subset

\* Without an interval: all rows, in the order of time.
LEMMA AllSegmentsShown ==
  ASSUME NEW d, Readable(d), NEW p
  PROVE  /\ InTimeOrder(AllSegments(d, p))
         /\ ToSet(AllSegments(d, p)) = {TimesOf(d, v) : v \in ValuesOf(d, p)}
         /\ \A n \in DOMAIN AllSegments(d, p) :
              n > 1 => ToSet(AllSegments(d, p)[n]) \cap Lacking(d, p) = {}
<1> DEFINE V == ValuesOf(d, p)
           less == ByFirst(d, V)
           s == Ordered(V, less)
           all == AllSegments(d, p)
<1>1. V \in SUBSET DOMAIN d.values /\ IsFiniteSet(V)
  BY FS_Subset DEF Readable, ValuesOf
<1>2. StrictOrder(less, V)
  BY <1>1, ByFirstOrders DEF Readable
<1>3. /\ \A n \in DOMAIN s : s[n] \in V
      /\ \A y \in V : \E n \in DOMAIN s : s[n] = y
      /\ \A m, n \in DOMAIN s : s[m] = s[n] => m = n
      /\ \A m, n \in DOMAIN s : m < n => <<s[n], s[m]>> \notin less
      /\ DOMAIN s = 1..Cardinality(V) /\ Cardinality(V) \in Nat
  <2> HIDE DEF V, less
  <2>1. QED
    BY <1>1, <1>2, OrderedPlaces
<1>4. all = [n \in DOMAIN s |-> TimesOf(d, s[n])]
  BY DEF AllSegments
<1> HIDE DEF s, all
<1>5. ToSet(all) = {TimesOf(d, v) : v \in V}
  <2>1. ToSet(all) = {all[n] : n \in DOMAIN s}
    BY <1>4 DEF ToSet
  <2> HIDE DEF V
  <2>2. QED
    BY <1>3, <1>4, <2>1
<1>6. ASSUME NEW t \in ToSet(all), NEW i \in DOMAIN t, NEW j \in DOMAIN t, i < j PROVE t[i] < t[j]
  <2>1. PICK v \in V : t = TimesOf(d, v)
    BY <1>5
  <2>2. QED
    BY <1>1, <1>6, <2>1 DEF Readable, InOrder, TimesOf
<1>7. ASSUME NEW m \in DOMAIN all, NEW n \in DOMAIN all, m < n,
             NEW t \in ToSet(all[m]), NEW u \in ToSet(all[n])
      PROVE  t < u
  <2> DEFINE v == s[m]
             w == s[n]
  <2>1. /\ v \in V /\ w \in V /\ v # w /\ <<w, v>> \notin less
        /\ all[m] = TimesOf(d, v) /\ all[n] = TimesOf(d, w)
    BY <1>3, <1>4, <1>7
  <2> HIDE DEF v, w
  <2>2. PICK i \in DOMAIN TimesOf(d, v) : t = TimesOf(d, v)[i]
    BY <1>7, <2>1 DEF ToSet
  <2>3. PICK j \in DOMAIN TimesOf(d, w) : u = TimesOf(d, w)[j]
    BY <1>7, <2>1 DEF ToSet
  <2>4. TimesOf(d, v) # <<>> /\ TimesOf(d, w) # <<>>
    BY <2>2, <2>3
  <2>5. ~(Head(TimesOf(d, w)) < Head(TimesOf(d, v)))
    BY <2>1, <2>4 DEF ByFirst
  <2>6. /\ 1 \in DOMAIN TimesOf(d, v) /\ Head(TimesOf(d, v)) = TimesOf(d, v)[1]
        /\ 1 \in DOMAIN TimesOf(d, w) /\ Head(TimesOf(d, w)) = TimesOf(d, w)[1]
    BY <1>1, <2>1, <2>4, DatetimesOfRow DEF Readable
  <2>7. ~(TimesOf(d, w)[1] < TimesOf(d, v)[1])
    BY <2>5, <2>6
  <2>8. QED
    BY <2>1, <2>2, <2>3, <2>6, <2>7, RowsInOrder
<1> HIDE DEF V
<1>8. InTimeOrder(all)
  BY <1>6, <1>7 DEF InTimeOrder
<1>9. ASSUME NEW n \in DOMAIN all, n > 1, NEW t \in ToSet(all[n]), t \in Lacking(d, p)
      PROVE  FALSE
  <2>1. /\ 1 \in DOMAIN s /\ n \in DOMAIN s /\ s[1] \in V /\ s[n] \in V /\ s[1] # s[n]
        /\ <<s[n], s[1]>> \notin less /\ all[n] = TimesOf(d, s[n])
    BY <1>3, <1>4, <1>9
  <2>2. PICK w \in V : \E j \in DOMAIN TimesOf(d, w) \ DOMAIN d.values[w].values : t = TimesOf(d, w)[j]
    BY <1>9 DEF Lacking, V
  <2>3. PICK j \in DOMAIN TimesOf(d, w) : j \notin DOMAIN d.values[w].values /\ t = TimesOf(d, w)[j]
    BY <2>2
  <2>4. PICK i \in DOMAIN TimesOf(d, s[n]) : t = TimesOf(d, s[n])[i]
    BY <1>9, <2>1 DEF ToSet
  <2>5. w = s[n]
    BY <2>1, <2>3, <2>4, OnePlace DEF V
  <2>6. ~(w < s[1]) /\ ~(s[1] < w)
    <3>1. ASSUME s[1] < w PROVE FALSE
      <4>1. Len(TimesOf(d, w)) = Len(d.values[w].values)
        BY <2>1, <2>5, <3>1 DEF Readable, Paired, TimesOf, ValuesOf, V
      <4>2. DOMAIN TimesOf(d, w) = DOMAIN d.values[w].values
        BY <4>1 DEF Readable, IsDatabase, IsTable, ValuesRow, TimesOf, ValuesOf, V
      <4>3. QED
        BY <2>3, <4>2
    <3>2. ASSUME w < s[1] PROVE FALSE
      <4>1. \A k \in DOMAIN TimesOf(d, w), m \in DOMAIN TimesOf(d, s[1]) :
              TimesOf(d, w)[k] < TimesOf(d, s[1])[m]
        BY <2>1, <2>5, <3>2 DEF Readable, InOrder, TimesOf, ValuesOf, V
      <4>2. TimesOf(d, w) # <<>>
        BY <2>3
      <4>3. 1 \in DOMAIN TimesOf(d, w) /\ Head(TimesOf(d, w)) = TimesOf(d, w)[1]
        BY <1>1, <4>2, DatetimesOfRow DEF Readable
      <4>4. TimesOf(d, s[1]) = <<>> \/ Head(TimesOf(d, w)) < Head(TimesOf(d, s[1]))
        BY <1>1, <2>1, <4>1, <4>3, DatetimesOfRow DEF Readable
      <4>5. <<w, s[1]>> \in less
        BY <2>1, <4>2, <4>4 DEF ByFirst
      <4>6. QED
        BY <2>1, <2>5, <4>5
    <3>3. QED
      BY <3>1, <3>2
  <2>7. w \in Nat /\ s[1] \in Nat
    BY <1>1, <2>1 DEF Readable, IsDatabase, IsTable
  <2>8. QED
    BY <2>1, <2>5, <2>6, <2>7
<1>10. QED
  BY <1>5, <1>8, <1>9 DEF all, V

\* The timestamps of all rows.
LEMMA TimesOfAll ==
  ASSUME NEW d, Readable(d), NEW p, NEW t
  PROVE  t \in AllTimes(AllSegments(d, p)) <=>
           \E v \in ValuesOf(d, p) : \E i \in DOMAIN TimesOf(d, v) : t = TimesOf(d, v)[i]
<1>1. AllTimes(AllSegments(d, p)) = UNION {ToSet(s) : s \in {TimesOf(d, v) : v \in ValuesOf(d, p)}}
  BY AllSegmentsShown DEF AllTimes
<1>2. QED
  BY <1>1 DEF ToSet

\* With an interval: the rows with a place inside.
LEMMA SegmentsInShown ==
  ASSUME NEW d, Readable(d), NEW p, NEW lo, NEW hi
  PROVE  ToSet(SegmentsIn(d, p, lo, hi)) =
           {TimesOf(d, v) : v \in {w \in ValuesOf(d, p) : Within(d, w, lo, hi) # {}}}
<1> DEFINE V == ValuesOf(d, p)
           inRow == [v \in V |-> Within(d, v, lo, hi)]
           places == PlacesIn(inRow)
           less == {r \in places \X places : <<r[1][1], r[2][1]>> \in ByFirst(d, V)}
           s == Ordered(places, less)
           shown == SegmentsIn(d, p, lo, hi)
<1>1. V \in SUBSET DOMAIN d.values
  BY DEF ValuesOf
<1>2. StrictOrder(less, places)
  <2>1. StrictOrder(ByFirst(d, V), V)
    BY <1>1, ByFirstOrders DEF Readable
  <2>2. \A a \in places : a[1] \in V
    BY DEF PlacesIn
  <2>3. \A a, b \in places : <<a, b>> \in less <=> <<a[1], b[1]>> \in ByFirst(d, V)
    OBVIOUS
  <2> HIDE DEF V, places, less
  <2>4. QED
    BY <2>1, <2>2, <2>3 DEF StrictOrder
<1>3. IsFiniteSet(places)
  <2>1. IsFiniteSet(V) /\ DOMAIN inRow = V
    BY <1>1, FS_Subset DEF Readable
  <2>2. \A v \in V : IsFiniteSet(inRow[v])
    BY <1>1, InsideFinite
  <2> HIDE DEF inRow
  <2>3. QED
    BY <2>1, <2>2, PlacesFinite
<1>4. (\A n \in DOMAIN s : s[n] \in places) /\ \A a \in places : \E n \in DOMAIN s : s[n] = a
  <2> HIDE DEF places, less
  <2>1. QED
    BY <1>2, <1>3, OrderedPlaces
<1>5. shown = [n \in DOMAIN s |-> TimesOf(d, s[n][1])]
  BY DEF SegmentsIn
<1> HIDE DEF s, shown, less
<1>6. ToSet(shown) = {TimesOf(d, s[n][1]) : n \in DOMAIN s}
  BY <1>5 DEF ToSet
<1>7. ToSet(shown) = {TimesOf(d, a[1]) : a \in places}
  <2> HIDE DEF places
  <2>1. QED
    BY <1>4, <1>6
<1>8. \A a \in places : a[1] \in V /\ Within(d, a[1], lo, hi) # {}
  BY DEF PlacesIn
<1>9. ASSUME NEW v \in V, Within(d, v, lo, hi) # {} PROVE \E a \in places : a[1] = v
  <2>1. PICK i : i \in Within(d, v, lo, hi)
    BY <1>9
  <2>2. <<v, i>> \in places
    BY <2>1 DEF PlacesIn
  <2>3. QED
    BY <2>2
<1> HIDE DEF places, V
<1>10. ToSet(shown) = {TimesOf(d, v) : v \in {w \in V : Within(d, w, lo, hi) # {}}}
  BY <1>7, <1>8, <1>9
<1>11. QED
  BY <1>10 DEF shown, V

\* With subTemporalValue: of some rows of a property every timestamp inside that
\* has a value, once.
LEMMA AggregatedShown ==
  ASSUME NEW d, Readable(d), NEW p, NEW G \in SUBSET ValuesOf(d, p), NEW lo, NEW hi
  PROVE  /\ IsInjective(Aggregated(d, G, lo, hi))
         /\ \A t : t \in ToSet(Aggregated(d, G, lo, hi)) <=>
                     \E v \in G : \E i \in Valued(d, v, lo, hi) : t = TimesOf(d, v)[i]
<1> DEFINE inRow == [v \in G |-> Valued(d, v, lo, hi)]
           places == PlacesIn(inRow)
           less == {r \in places \X places : r[1][2] < r[2][2]}
           s == Ordered(places, less)
           shown == Aggregated(d, G, lo, hi)
<1>1. G \in SUBSET DOMAIN d.values
  BY DEF ValuesOf
<1>2. \A a \in places : /\ a[1] \in G /\ a[2] \in Valued(d, a[1], lo, hi) /\ a = <<a[1], a[2]>>
                        /\ a[2] \in DOMAIN TimesOf(d, a[1]) /\ a[2] \in Nat
  <2>1. \A v \in G : DOMAIN TimesOf(d, v) \subseteq Nat
    BY <1>1, DatetimesOfRow DEF Readable
  <2>2. QED
    BY <2>1 DEF PlacesIn, Within, Valued
<1>3. \A v \in G : \A i \in Valued(d, v, lo, hi) : <<v, i>> \in places
  BY DEF PlacesIn
<1>4. IsFiniteSet(places)
  <2>1. IsFiniteSet(G) /\ DOMAIN inRow = G
    BY <1>1, FS_Subset DEF Readable
  <2>2. \A v \in G : IsFiniteSet(inRow[v])
    BY <1>1, InsideFinite
  <2> HIDE DEF inRow
  <2>3. QED
    BY <2>1, <2>2, PlacesFinite
<1> HIDE DEF places
<1>5. StrictOrder(less, places)
  BY <1>2 DEF StrictOrder
<1>6. /\ \A n \in DOMAIN s : s[n] \in places
      /\ \A a \in places : \E n \in DOMAIN s : s[n] = a
      /\ \A m, n \in DOMAIN s : s[m] = s[n] => m = n
  <2> HIDE DEF less
  <2>1. QED
    BY <1>4, <1>5, OrderedPlaces
<1>7. shown = [n \in DOMAIN s |-> TimesOf(d, s[n][1])[s[n][2]]]
  BY DEF Aggregated, places
<1> HIDE DEF s, shown, less
<1>8. ASSUME NEW m \in DOMAIN s, NEW n \in DOMAIN s, shown[m] = shown[n] PROVE m = n
  <2> DEFINE a == s[m]
             b == s[n]
  <2>1. a \in places /\ b \in places /\ TimesOf(d, a[1])[a[2]] = TimesOf(d, b[1])[b[2]]
    BY <1>6, <1>7, <1>8
  <2> HIDE DEF a, b
  <2>2. /\ a[1] \in G /\ b[1] \in G /\ a = <<a[1], a[2]>> /\ b = <<b[1], b[2]>>
        /\ a[2] \in DOMAIN TimesOf(d, a[1]) /\ b[2] \in DOMAIN TimesOf(d, b[1])
        /\ a[2] \in Nat /\ b[2] \in Nat
    BY <1>2, <2>1
  <2>3. a[1] = b[1] /\ a[2] = b[2]
    BY <2>1, <2>2, OnePlace
  <2>4. s[m] = s[n]
    BY <2>2, <2>3 DEF a, b
  <2>5. QED
    BY <1>6, <2>4
<1>9. IsInjective(shown)
  BY <1>7, <1>8 DEF IsInjective
<1>10. \A t : t \in ToSet(shown) <=> \E a \in places : t = TimesOf(d, a[1])[a[2]]
  <2>1. ToSet(shown) = {TimesOf(d, s[n][1])[s[n][2]] : n \in DOMAIN s}
    BY <1>7 DEF ToSet
  <2>2. QED
    BY <1>6, <2>1
<1>11. \A t : (\E a \in places : t = TimesOf(d, a[1])[a[2]]) <=>
              \E v \in G : \E i \in Valued(d, v, lo, hi) : t = TimesOf(d, v)[i]
  <2>1. ASSUME NEW t, NEW v \in G, NEW i \in Valued(d, v, lo, hi), t = TimesOf(d, v)[i]
        PROVE  \E a \in places : t = TimesOf(d, a[1])[a[2]]
    <3>1. <<v, i>> \in places /\ t = TimesOf(d, <<v, i>>[1])[<<v, i>>[2]]
      BY <1>3, <2>1
    <3>2. QED
      BY <3>1
  <2>2. QED
    BY <1>2, <2>1
<1>12. QED
  BY <1>9, <1>10, <1>11 DEF shown

\* The timestamps of a property inside an interval.
LEMMA TimesInside ==
  ASSUME NEW d, Readable(d), NEW p, NEW lo, NEW hi, NEW t
  PROVE  t \in AllTimes(AllSegments(d, p)) \cap lo..hi <=>
           \E v \in ValuesOf(d, p) : \E i \in Within(d, v, lo, hi) : t = TimesOf(d, v)[i]
  BY TimesOfAll DEF Within

\* With an interval something is shown if a row has a place inside.
LEMMA SomeSegments ==
  ASSUME NEW d, Readable(d), NEW p, NEW lo, NEW hi
  PROVE  SegmentsIn(d, p, lo, hi) # <<>> <=> \E v \in ValuesOf(d, p) : Within(d, v, lo, hi) # {}
<1> DEFINE shown == SegmentsIn(d, p, lo, hi)
<1>1. ToSet(shown) = {} <=> ~\E v \in ValuesOf(d, p) : Within(d, v, lo, hi) # {}
  BY SegmentsInShown
<1>2. shown = [n \in DOMAIN shown |-> shown[n]]
  BY DEF SegmentsIn
<1> HIDE DEF shown
<1>3. ToSet(shown) = {} <=> DOMAIN shown = {}
  BY DEF ToSet
<1>4. DOMAIN shown = {} <=> shown = <<>>
  <2>1. ASSUME DOMAIN shown = {} PROVE shown = <<>>
    <3>1. DOMAIN <<>> = {} /\ <<>> = [n \in {} |-> <<>>[n]]
      OBVIOUS
    <3>2. QED
      BY <1>2, <2>1, <3>1
  <2>2. QED
    BY <2>1
<1>5. QED
  BY <1>1, <1>3, <1>4 DEF shown

\* The groups of rows with one interpolation.
LEMMA GroupsOfRows ==
  ASSUME NEW d, NEW p, NEW lo, NEW hi, NEW interpolation \in [DOMAIN d.values -> Interpolations]
  PROVE  LET found == {v \in ValuesOf(d, p) : Valued(d, v, lo, hi) # {}}
             groups == GroupsIn(d, p, interpolation, lo, hi)
         IN  /\ groups \subseteq SUBSET found
             /\ groups # {} <=> found # {}
             /\ OneInterpolation(d, interpolation) => \A G \in groups : G = found
<1> DEFINE found == {v \in ValuesOf(d, p) : Valued(d, v, lo, hi) # {}}
           Group(i) == {v \in found : interpolation[v] = i}
           groups == GroupsIn(d, p, interpolation, lo, hi)
<1>1. groups = {Group(i) : i \in Interpolations} \ {{}}
  BY DEF GroupsIn
<1>2. found \subseteq DOMAIN d.values
  BY DEF ValuesOf
<1> HIDE DEF groups, found
<1>3. groups \subseteq SUBSET found
  BY <1>1
<1>4. groups # {} <=> found # {}
  <2>1. ASSUME NEW v \in found PROVE groups # {}
    <3>1. interpolation[v] \in Interpolations /\ v \in Group(interpolation[v])
      BY <1>2
    <3>2. QED
      BY <1>1, <3>1
  <2>2. ASSUME NEW G \in groups PROVE found # {}
    BY <1>1, <2>2
  <2>3. QED
    BY <2>1, <2>2
<1>5. ASSUME OneInterpolation(d, interpolation), NEW G \in groups PROVE G = found
  <2>1. PICK i \in Interpolations : G = Group(i) /\ G # {}
    BY <1>1
  <2>2. PICK v \in found : interpolation[v] = i
    BY <2>1
  <2>3. \A w \in found : interpolation[w] = i
    BY <1>2, <1>5, <2>2 DEF OneInterpolation
  <2>4. QED
    BY <2>1, <2>3
<1>6. QED
  BY <1>3, <1>4, <1>5 DEF groups, found

\* Of the timestamps inside, those that have a value are the ones of the join.
LEMMA InsideWithValue ==
  ASSUME NEW d, Readable(d), NEW p, NEW lo, NEW hi,
         NEW inside, inside = AllTimes(AllSegments(d, p)) \cap lo..hi, NEW t
  PROVE  t \in inside \ Lacking(d, p) <=>
           \E v \in ValuesOf(d, p) : \E i \in Valued(d, v, lo, hi) : t = TimesOf(d, v)[i]
<1>1. t \in inside <=> \E v \in ValuesOf(d, p) : \E i \in Within(d, v, lo, hi) : t = TimesOf(d, v)[i]
  BY TimesOfAll DEF Within
<1>2. ASSUME t \in inside, t \notin Lacking(d, p)
      PROVE  \E v \in ValuesOf(d, p) : \E i \in Valued(d, v, lo, hi) : t = TimesOf(d, v)[i]
  <2>1. PICK v \in ValuesOf(d, p) : \E i \in Within(d, v, lo, hi) : t = TimesOf(d, v)[i]
    BY <1>1, <1>2
  <2>2. PICK i \in Within(d, v, lo, hi) : t = TimesOf(d, v)[i]
    BY <2>1
  <2>3. i \in DOMAIN TimesOf(d, v)
    BY DEF Within
  <2>4. i \in DOMAIN d.values[v].values
    BY <1>2, <2>2, <2>3 DEF Lacking
  <2>5. QED
    BY <2>2, <2>4 DEF Valued
<1>3. ASSUME NEW v \in ValuesOf(d, p), NEW i \in Valued(d, v, lo, hi), t = TimesOf(d, v)[i]
      PROVE  t \in inside /\ t \notin Lacking(d, p)
  <2>1. i \in Within(d, v, lo, hi) /\ i \in DOMAIN TimesOf(d, v) /\ i \in DOMAIN d.values[v].values
    BY DEF Valued, Within
  <2>2. ASSUME t \in Lacking(d, p) PROVE FALSE
    <3>1. PICK w \in ValuesOf(d, p) :
            \E j \in DOMAIN TimesOf(d, w) \ DOMAIN d.values[w].values : t = TimesOf(d, w)[j]
      BY <2>2 DEF Lacking
    <3>2. PICK j \in DOMAIN TimesOf(d, w) \ DOMAIN d.values[w].values : t = TimesOf(d, w)[j]
      BY <3>1
    <3>3. v = w /\ i = j
      BY <1>3, <2>1, <3>2, OnePlace
    <3>4. QED
      BY <2>1, <3>2, <3>3
  <2>3. QED
    BY <1>1, <1>3, <2>1, <2>2
<1>4. QED
  BY <1>2, <1>3

\* The values inside are cast if none of them is told from a number.
LEMMA InsideCast ==
  ASSUME NEW d, Readable(d), NEW p, NEW lo, NEW hi
  PROVE  Castable(d, ValuesOf(d, p), lo, hi) <=>
           AllTimes(AllSegments(d, p)) \cap lo..hi \cap NoNumber(d, p) = {}
<1> DEFINE inside == AllTimes(AllSegments(d, p)) \cap lo..hi
<1>1. \A t : t \in inside <=>
        \E v \in ValuesOf(d, p) : \E i \in Within(d, v, lo, hi) : t = TimesOf(d, v)[i]
  BY TimesOfAll DEF Within
<1> HIDE DEF inside
<1>2. ASSUME NEW v \in ValuesOf(d, p), NEW i \in Valued(d, v, lo, hi), d.values[v].values[i] # "number"
      PROVE  inside \cap NoNumber(d, p) # {}
  <2>1. i \in Within(d, v, lo, hi) /\ i \in DOMAIN TimesOf(d, v) \cap DOMAIN d.values[v].values
    BY DEF Valued, Within
  <2>2. TimesOf(d, v)[i] \in NoNumber(d, p)
    BY <1>2, <2>1 DEF NoNumber
  <2>3. TimesOf(d, v)[i] \in inside
    BY <1>1, <2>1
  <2>4. QED
    BY <2>2, <2>3
<1>3. ASSUME NEW t \in inside, t \in NoNumber(d, p)
      PROVE  ~Castable(d, ValuesOf(d, p), lo, hi)
  <2>1. PICK v \in ValuesOf(d, p) : \E i \in Within(d, v, lo, hi) : t = TimesOf(d, v)[i]
    BY <1>1, <1>3
  <2>2. PICK i \in Within(d, v, lo, hi) : t = TimesOf(d, v)[i]
    BY <2>1
  <2>3. PICK w \in ValuesOf(d, p) :
          \E j \in {k \in DOMAIN TimesOf(d, w) \cap DOMAIN d.values[w].values :
                      d.values[w].values[k] # "number"} : t = TimesOf(d, w)[j]
    BY <1>3 DEF NoNumber
  <2>4. PICK j \in {k \in DOMAIN TimesOf(d, w) \cap DOMAIN d.values[w].values :
                      d.values[w].values[k] # "number"} : t = TimesOf(d, w)[j]
    BY <2>3
  <2>5. i \in DOMAIN TimesOf(d, v) /\ j \in DOMAIN TimesOf(d, w) /\ TimesOf(d, v)[i] = TimesOf(d, w)[j]
    BY <2>2, <2>4 DEF Within
  <2>6. v = w /\ i = j
    BY <2>5, OnePlace
  <2>7. i \in Valued(d, v, lo, hi) /\ d.values[v].values[i] # "number"
    BY <2>4, <2>6 DEF Valued
  <2>8. QED
    BY <2>7 DEF Castable
<1>4. QED
  BY <1>2, <1>3 DEF inside, Castable

\* What is shown of one group.
LEMMA SubValuesShown ==
  ASSUME NEW d, Readable(d), NEW p, NEW lo, NEW hi,
         NEW interpolation \in [DOMAIN d.values -> Interpolations],
         NEW answer \in SubValues(d, p, interpolation, lo, hi)
  PROVE  ShowsInside(d, p, AllTimes(AllSegments(d, p)) \cap lo..hi, interpolation, answer)
<1> DEFINE found == {v \in ValuesOf(d, p) : Valued(d, v, lo, hi) # {}}
           groups == GroupsIn(d, p, interpolation, lo, hi)
           inside == AllTimes(AllSegments(d, p)) \cap lo..hi
           shown == inside \ Lacking(d, p)
<1>1. /\ groups \subseteq SUBSET found /\ (groups # {} <=> found # {})
      /\ OneInterpolation(d, interpolation) => \A G \in groups : G = found
  BY GroupsOfRows
<1>2. \A t : t \in shown <=> \E v \in found : \E i \in Valued(d, v, lo, hi) : t = TimesOf(d, v)[i]
  <2>1. inside = AllTimes(AllSegments(d, p)) \cap lo..hi
    OBVIOUS
  <2> HIDE DEF inside
  <2>2. \A t : t \in shown <=> \E v \in ValuesOf(d, p) : \E i \in Valued(d, v, lo, hi) : t = TimesOf(d, v)[i]
    BY <2>1, InsideWithValue
  <2>3. QED
    BY <2>2
<1>3. inside \cap NoNumber(d, p) = {} <=> Castable(d, ValuesOf(d, p), lo, hi)
  BY InsideCast
<1> HIDE DEF inside
<1>4. CASE ~Castable(d, ValuesOf(d, p), lo, hi)
  <2>1. answer = CannotCast
    BY <1>4 DEF SubValues
  <2>2. QED
    BY <1>3, <1>4, <2>1 DEF ShowsInside, inside
<1>5. CASE Castable(d, ValuesOf(d, p), lo, hi) /\ groups = {}
  <2>1. answer = Display(<<>>)
    BY <1>5 DEF SubValues
  <2>2. answer.status = 200 /\ answer.segments = <<>>
    BY <2>1 DEF Display
  <2>3. ToSet(answer.segments) = {} /\ AllTimes(answer.segments) = {}
    BY <2>2 DEF ToSet, AllTimes
  <2>4. shown = {}
    BY <1>1, <1>2, <1>5
  <2>5. QED
    BY <1>3, <1>5, <2>2, <2>3, <2>4 DEF ShowsInside, inside
<1>6. CASE Castable(d, ValuesOf(d, p), lo, hi) /\ groups # {}
  <2>1. PICK G \in groups : answer = Display(<<Aggregated(d, G, lo, hi)>>)
    BY <1>6 DEF SubValues
  <2> DEFINE s == Aggregated(d, G, lo, hi)
  <2>2. G \in SUBSET ValuesOf(d, p) /\ G \subseteq found
    BY <1>1
  <2> HIDE DEF found, groups
  <2>3. IsInjective(s) /\ \A t : t \in ToSet(s) <=> \E v \in G : \E i \in Valued(d, v, lo, hi) : t = TimesOf(d, v)[i]
    BY <2>2, AggregatedShown
  <2>4. answer.status = 200 /\ answer.segments = <<s>>
    BY <2>1 DEF Display
  <2> HIDE DEF s
  <2>5. ToSet(<<s>>) = {s}
    BY DEF ToSet
  <2>6. ToSet(answer.segments) = {s} /\ AllTimes(answer.segments) = ToSet(s)
    BY <2>4, <2>5 DEF AllTimes
  <2> HIDE DEF shown
  <2>7. ToSet(s) \subseteq shown
    BY <1>2, <2>2, <2>3
  <2>8. ASSUME OneInterpolation(d, interpolation) PROVE ToSet(s) = shown
    <3>1. G = found
      BY <1>1, <2>8
    <3>2. QED
      BY <1>2, <2>3, <3>1
  <2>9. QED
    BY <1>3, <1>6, <2>3, <2>4, <2>6, <2>7, <2>8 DEF ShowsInside, inside, shown
<1>7. QED
  BY <1>4, <1>5, <1>6

\* In every reachable state the reads find such tables.
LEMMA ReadableAlways == ASSUME TimesAscend PROVE Spec => []Readable(disk)
<1>1. TypeInv /\ TablesInv /\ InOrder(disk) /\ Paired(disk) /\ PropertyNamesUnique => Readable(disk)
  <2> SUFFICES ASSUME TypeInv, TablesInv, InOrder(disk), Paired(disk), PropertyNamesUnique
               PROVE  Readable(disk)
    OBVIOUS
  <2>1. IsDatabase(disk) /\ serial \in Nat
    BY DEF TypeInv, TypeOK
  <2>2. /\ DOMAIN disk.properties \in SUBSET Nat /\ \A p \in DOMAIN disk.properties : p <= serial
        /\ DOMAIN disk.values \in SUBSET Nat /\ \A v \in DOMAIN disk.values : v <= serial
    BY <2>1 DEF TablesInv, KeysDrawn, IsDatabase, IsTable
  <2>3. IsFiniteSet(DOMAIN disk.properties) /\ IsFiniteSet(DOMAIN disk.values)
    BY <2>1, <2>2, FS_BoundedSetOfNaturals
  <2>4. QED
    BY <2>1, <2>3 DEF Readable, PropertyNamesUnique
<1>2. QED
  BY <1>1, TypeInvariant, TablesAlways, OrderAlways, PairedAlways, NamesStayUnique, PTL

\* While the timestamps of each body ascend: a property of any number of rows is
\* read in the order of time, every timestamp once, and only its first row has
\* timestamps without a value; an interval shows the rows with something inside
\* it; with subTemporalValue the request fails if a value inside is no number,
\* and otherwise shows only what is inside, and all of it that has a value if the
\* property has one interpolation.
THEOREM ReadsGiveTheValues == ASSUME TimesAscend PROVE Spec => []ReadsShowTheValues
<1>1. Readable(disk) => ReadsShowTheValues
  <2> SUFFICES ASSUME Readable(disk), NEW p \in DOMAIN disk.properties
               PROVE  LET all == AllSegments(disk, p) IN
                        /\ InTimeOrder(all) /\ ToSet(all) = {TimesOf(disk, v) : v \in ValuesOf(disk, p)}
                        /\ \A n \in DOMAIN all : n > 1 => ToSet(all[n]) \cap Lacking(disk, p) = {}
                        /\ \A I \in Interval :
                             LET inside == AllTimes(all) \cap I[1]..I[2]
                             IN  /\ ToSet(SegmentsIn(disk, p, I[1], I[2])) =
                                      {s \in ToSet(all) : ToSet(s) \cap inside # {}}
                                 /\ \A interpolation \in [DOMAIN disk.values -> Interpolations] :
                                    \A answer \in SubValues(disk, p, interpolation, I[1], I[2]) :
                                      ShowsInside(disk, p, inside, interpolation, answer)
    BY DEF ReadsShowTheValues
  <2> DEFINE all == AllSegments(disk, p)
  <2>1. /\ InTimeOrder(all) /\ ToSet(all) = {TimesOf(disk, v) : v \in ValuesOf(disk, p)}
        /\ \A n \in DOMAIN all : n > 1 => ToSet(all[n]) \cap Lacking(disk, p) = {}
    BY AllSegmentsShown
  <2>2. ASSUME NEW I \in Interval
        PROVE  ToSet(SegmentsIn(disk, p, I[1], I[2])) =
                 {s \in ToSet(all) : ToSet(s) \cap (AllTimes(all) \cap I[1]..I[2]) # {}}
    <3> DEFINE lo == I[1]
               hi == I[2]
               inside == AllTimes(all) \cap lo..hi
    <3>1. ASSUME NEW v \in ValuesOf(disk, p)
          PROVE  ToSet(TimesOf(disk, v)) \cap inside # {} <=> Within(disk, v, lo, hi) # {}
      <4>1. ASSUME NEW t \in ToSet(TimesOf(disk, v)), t \in inside PROVE Within(disk, v, lo, hi) # {}
        BY <4>1 DEF ToSet, Within
      <4>2. ASSUME NEW i \in Within(disk, v, lo, hi)
            PROVE  TimesOf(disk, v)[i] \in ToSet(TimesOf(disk, v)) /\ TimesOf(disk, v)[i] \in inside
        BY <4>2, TimesInside DEF ToSet, Within
      <4> HIDE DEF inside
      <4>3. QED
        BY <4>1, <4>2
    <3>2. ToSet(SegmentsIn(disk, p, lo, hi)) =
            {TimesOf(disk, v) : v \in {w \in ValuesOf(disk, p) : Within(disk, w, lo, hi) # {}}}
      BY SegmentsInShown
    <3> HIDE DEF inside, all
    <3>3. ToSet(SegmentsIn(disk, p, lo, hi)) = {s \in ToSet(all) : ToSet(s) \cap inside # {}}
      BY <2>1, <3>1, <3>2
    <3>4. QED
      BY <3>3 DEF inside
  <2>3. ASSUME NEW I \in Interval, NEW interpolation \in [DOMAIN disk.values -> Interpolations],
               NEW answer \in SubValues(disk, p, interpolation, I[1], I[2])
        PROVE  ShowsInside(disk, p, AllTimes(all) \cap I[1]..I[2], interpolation, answer)
    BY SubValuesShown
  <2> HIDE DEF all
  <2>4. QED
    BY <2>1, <2>2, <2>3 DEF all
<1>2. QED
  BY <1>1, ReadableAlways, PTL

-----------------------------------------------------------------------------
(* The first rows of an order, up to a limit.                              *)

\* The first k rows: those that precede one of them are among them.
InFront(T, less, page, k) ==
  /\ k \in Nat /\ k <= Cardinality(T) /\ Len(page) = k /\ DOMAIN page = 1..k
  /\ \A n \in 1..k : page[n] \in T
  /\ \A m, n \in 1..k : page[m] = page[n] => m = n
  /\ \A m, n \in 1..k : m < n => <<page[n], page[m]>> \notin less
  /\ \A y \in T, n \in 1..k : <<y, page[n]>> \in less => \E m \in 1..k : page[m] = y /\ m < n
  /\ k = Cardinality(T) => \A y \in T : \E n \in 1..k : page[n] = y

\* A limit is cut, and then no more rows are shown than there are.
LEMMA FirstRows ==
  ASSUME NEW T, IsFiniteSet(T), NEW less, StrictOrder(less, T),
         NEW s \in Orders(T, less), NEW limit \in Nat
  PROVE  InFront(T, less, FirstOf(s, Capped(limit)), Smaller(Capped(limit), Cardinality(T)))
<1> DEFINE c == Cardinality(T)
           page == FirstOf(s, Capped(limit))
           k == Smaller(Capped(limit), c)
<1>1. c \in Nat
  BY FS_CardinalityType
<1>2. /\ s \in [1..c -> T] /\ \A m, n \in 1..c : s[m] = s[n] => m = n
      /\ \A y \in T : \E n \in 1..c : s[n] = y
      /\ \A m, n \in 1..c : m < n => <<s[n], s[m]>> \notin less
  BY DEF Orders, Bijection, Injection, Surjection, IsInjective
<1> HIDE DEF c
<1>3. Len(s) = c
  BY <1>1, <1>2
<1>4. k \in Nat /\ k <= c /\ page = SubSeq(s, 1, k)
  BY <1>1, <1>3 DEF Smaller, Capped, FirstOf
<1> HIDE DEF page, k
<1>5. \A n \in 1..k : n \in 1..c /\ s[n] \in T
  BY <1>1, <1>2, <1>4
<1>6. page \in Seq(T) /\ Len(page) = k /\ DOMAIN page = 1..k /\ \A n \in 1..k : page[n] = s[n]
  <2>1. CASE k = 0
    <3>1. page = <<>>
      BY <1>4, <2>1, SubSeqEmpty
    <3>2. QED
      BY <2>1, <3>1
  <2>2. CASE k # 0
    <3>1. /\ page \in Seq(T) /\ Len(page) = (IF 1 <= k THEN k - 1 + 1 ELSE 0)
          /\ \A i \in 1 .. k - 1 + 1 : page[i] = s[1 + i - 1]
      BY <1>4, <1>5, SubSeqProperties
    <3>2. Len(page) = k
      BY <1>4, <2>2, <3>1
    <3>3. \A n \in 1..k : page[n] = s[n]
      BY <1>4, <3>1
    <3>4. QED
      BY <3>1, <3>2, <3>3, LenProperties
  <2>3. QED
    BY <2>1, <2>2
<1>7. ASSUME NEW y \in T, NEW n \in 1..k, <<y, page[n]>> \in less
      PROVE  \E m \in 1..k : page[m] = y /\ m < n
  <2>1. PICK m \in 1..c : s[m] = y
    BY <1>2
  <2>2. m # n
    BY <1>5, <1>6, <1>7, <2>1 DEF StrictOrder
  <2>3. ~(n < m)
    BY <1>2, <1>5, <1>6, <1>7, <2>1
  <2>4. m \in 1..k /\ m < n
    BY <1>1, <1>4, <2>1, <2>2, <2>3
  <2>5. QED
    BY <1>6, <2>1, <2>4
<1>8. \A m, n \in 1..k : page[m] = page[n] => m = n
  BY <1>2, <1>5, <1>6
<1>9. \A m, n \in 1..k : m < n => <<page[n], page[m]>> \notin less
  BY <1>2, <1>5, <1>6
<1>10. k = c => \A y \in T : \E n \in 1..k : page[n] = y
  BY <1>2, <1>6
<1>11. QED
  BY <1>4, <1>5, <1>6, <1>7, <1>8, <1>9, <1>10 DEF InFront, c, page, k

\* Rows shown one each for the members of a set are as many.
LEMMA AsMany ==
  ASSUME NEW k \in Nat, NEW P, NEW m \in [1..k -> P],
         \A i, j \in 1..k : m[i] = m[j] => i = j,
         \A p \in P : \E i \in 1..k : m[i] = p
  PROVE  Cardinality(P) = k
<1>1. m \in Bijection(1..k, P)
  BY DEF Bijection, Injection, Surjection, IsInjective
<1>2. ExistsBijection(1..k, P)
  BY <1>1 DEF ExistsBijection
<1>3. IsFiniteSet(1..k) /\ Cardinality(1..k) = k
  BY FS_Interval
<1>4. QED
  BY <1>2, <1>3, FS_Bijection

\* The properties of a feature are finitely many, each of a name of its own.
LEMMA NamesOfProperties ==
  ASSUME NEW d, Readable(d), NEW f
  PROVE  /\ IsFiniteSet(PropertiesOf(d, f))
         /\ \A p \in PropertiesOf(d, f) : d.properties[p].name \in PropertyNames
         /\ \A p, q \in PropertiesOf(d, f) : d.properties[p].name = d.properties[q].name => p = q
<1>1. IsFiniteSet(PropertiesOf(d, f))
  BY FS_Subset DEF Readable, PropertiesOf
<1>2. \A p \in PropertiesOf(d, f) :
        /\ p \in DOMAIN d.properties /\ d.properties[p] \in PropertyRow /\ d.properties[p].fid = f
  BY DEF Readable, IsDatabase, IsTable, PropertiesOf
<1>3. \A p \in PropertiesOf(d, f) : /\ d.properties[p].name \in PropertyNames
                                    /\ d.properties[p] = [fid |-> f, name |-> d.properties[p].name]
  BY <1>2 DEF PropertyRow
<1>4. \A p, q \in PropertiesOf(d, f) : d.properties[p].name = d.properties[q].name => p = q
  BY <1>2, <1>3 DEF Readable
<1>5. QED
  BY <1>1, <1>3, <1>4

\* Names can be put in their order.
LEMMA NamesInOrder ==
  ASSUME NEW N \in SUBSET PropertyNames
  PROVE  StrictOrder(NameOrder, N)
  BY NameOrderAssumption DEF StrictOrder

\* With an interval the list has the first names of the properties with something
\* inside.
LEMMA NamesShown ==
  ASSUME NEW d, Readable(d), NEW f, NEW lo, NEW hi, NEW limit \in Nat
  PROVE  NamesAgree(d, NamesIn(d, f, lo, hi, limit),
                    {p \in PropertiesOf(d, f) : SegmentsIn(d, p, lo, hi) # <<>>}, limit)
<1> DEFINE name == [p \in PropertiesOf(d, f) |-> d.properties[p].name]
           shown == {p \in PropertiesOf(d, f) : SegmentsIn(d, p, lo, hi) # <<>>}
           N == {name[p] : p \in shown}
           names == NamesIn(d, f, lo, hi, limit)
           k == Smaller(Capped(limit), Cardinality(N))
           P == {p \in shown : \E n \in 1..k : names[n] = name[p]}
<1>1. shown = {p \in PropertiesOf(d, f) : \E v \in ValuesOf(d, p) : Within(d, v, lo, hi) # {}}
  <2>1. \A p : SegmentsIn(d, p, lo, hi) # <<>> <=> \E v \in ValuesOf(d, p) : Within(d, v, lo, hi) # {}
    BY SomeSegments
  <2>2. QED
    BY <2>1
<1>2. names = FirstOf(Ordered(N, NameOrder), Capped(limit))
  <2>1. N = {d.properties[p].name : p \in shown}
    OBVIOUS
  <2> HIDE DEF N, shown
  <2>2. QED
    BY <1>1, <2>1 DEF NamesIn
<1>3. /\ IsFiniteSet(shown) /\ shown \subseteq PropertiesOf(d, f)
      /\ \A p \in shown : name[p] \in PropertyNames /\ name[p] = d.properties[p].name
      /\ \A p, q \in shown : name[p] = name[q] => p = q
  BY NamesOfProperties, FS_Subset
<1> HIDE DEF name, shown, names
<1>4. IsFiniteSet(N) /\ Cardinality(N) = Cardinality(shown)
  <2> DEFINE m == [p \in shown |-> name[p]]
  <2>1. m \in Bijection(shown, N)
    BY <1>3 DEF Bijection, Injection, Surjection, IsInjective
  <2>2. ExistsBijection(shown, N)
    BY <2>1 DEF ExistsBijection
  <2>3. QED
    BY <1>3, <2>2, FS_Bijection
<1>5. StrictOrder(NameOrder, N)
  BY <1>3, NamesInOrder
<1>6. /\ k \in Nat /\ Len(names) = k /\ DOMAIN names = 1..k
      /\ \A n \in 1..k : names[n] \in N
      /\ \A m, n \in 1..k : names[m] = names[n] => m = n
      /\ \A y \in N, n \in 1..k : <<y, names[n]>> \in NameOrder => \E m \in 1..k : names[m] = y /\ m < n
  <2> DEFINE s == Ordered(N, NameOrder)
  <2> HIDE DEF N, k
  <2>1. s \in Orders(N, NameOrder)
    BY <1>4, <1>5, OrderedRows
  <2>2. names = FirstOf(s, Capped(limit))
    BY <1>2
  <2>3. k = Smaller(Capped(limit), Cardinality(N))
    BY DEF k
  <2> HIDE DEF s
  <2>4. IsFiniteSet(N)
    BY <1>4
  <2>5. InFront(N, NameOrder, names, k)
    BY <1>5, <2>1, <2>2, <2>3, <2>4, FirstRows
  <2>6. QED
    BY <2>5 DEF InFront
<1>7. k = Smaller(Capped(limit), Cardinality(shown))
  BY <1>4
<1> HIDE DEF k
<1>8. FirstByName(d, P, shown)
  <2>1. ASSUME NEW p \in P, NEW q \in shown, Precedes(d, q, p) PROVE q \in P
    <3>1. PICK n \in 1..k : names[n] = name[p]
      OBVIOUS
    <3>2. <<name[q], names[n]>> \in NameOrder /\ name[q] \in N
      BY <1>3, <2>1, <3>1 DEF Precedes
    <3>3. QED
      BY <1>6, <3>2
  <2>2. QED
    BY <2>1 DEF FirstByName
<1>9. \A n \in 1..k : \E p \in P : names[n] = name[p]
  <2> SUFFICES ASSUME NEW n \in 1..k PROVE \E p \in P : names[n] = name[p]
    OBVIOUS
  <2>1. PICK p \in shown : names[n] = name[p]
    BY <1>6
  <2>2. QED
    BY <2>1
<1>10. Cardinality(P) = k
  <2> DEFINE m == [n \in 1..k |-> CHOOSE p \in P : names[n] = name[p]]
  <2>1. \A n \in 1..k : m[n] \in P /\ names[n] = name[m[n]]
    BY <1>9
  <2>2. m \in [1..k -> P]
    BY <2>1
  <2> HIDE DEF m
  <2>3. \A i, j \in 1..k : m[i] = m[j] => i = j
    BY <1>6, <2>1
  <2>4. ASSUME NEW p \in P PROVE \E n \in 1..k : m[n] = p
    <3>1. PICK n \in 1..k : names[n] = name[p]
      OBVIOUS
    <3>2. name[m[n]] = name[p] /\ m[n] \in shown /\ p \in shown
      BY <2>1, <3>1
    <3>3. QED
      BY <1>3, <3>2
  <2> HIDE DEF P
  <2>5. QED
    BY <1>6, <2>2, <2>3, <2>4, AsMany
<1>11. ToSet(names) = {d.properties[p].name : p \in P}
  <2>1. ToSet(names) = {names[n] : n \in 1..k}
    BY <1>6 DEF ToSet
  <2>2. \A p \in P : d.properties[p].name = name[p] /\ \E n \in 1..k : names[n] = name[p]
    BY <1>3
  <2> HIDE DEF P
  <2>3. QED
    BY <1>9, <2>1, <2>2
<1>12. P \in SUBSET shown /\ Len(names) = Cardinality(P)
  BY <1>6, <1>10
<1> HIDE DEF P
<1>13. QED
  BY <1>7, <1>8, <1>10, <1>11, <1>12 DEF NamesAgree, names, shown

-----------------------------------------------------------------------------
(* The list with subTemporalValue.                                         *)

\* The other handler answers something for the properties that have groups.
LEMMA AnswersOfGroups ==
  ASSUME NEW d, NEW p, NEW lo, NEW hi, NEW interpolation \in [DOMAIN d.values -> Interpolations],
         NEW groups, groups = GroupsIn(d, p, interpolation, lo, hi),
         NEW answers, answers = SubValues(d, p, interpolation, lo, hi)
  PROVE  /\ answers # {Display(<<>>)} <=> groups # {}
         /\ ~Castable(d, ValuesOf(d, p), lo, hi) => answers = {CannotCast}
         /\ Castable(d, ValuesOf(d, p), lo, hi) /\ groups # {} =>
              answers = {Display(<<Aggregated(d, G, lo, hi)>>) : G \in groups}
<1>1. ASSUME ~Castable(d, ValuesOf(d, p), lo, hi) PROVE groups # {}
  <2>1. PICK v \in ValuesOf(d, p) : Valued(d, v, lo, hi) # {}
    BY <1>1 DEF Castable
  <2>2. {w \in ValuesOf(d, p) : Valued(d, w, lo, hi) # {}} # {}
    BY <2>1
  <2>3. QED
    BY <2>2, GroupsOfRows
<1>2. CannotCast # Display(<<>>) /\ \A s : Display(<<s>>) # Display(<<>>)
  <2>1. CannotCast.status = 500 /\ Display(<<>>).status = 200
    BY DEF CannotCast, Display
  <2>2. \A s : Display(<<s>>).segments = <<s>> /\ Display(<<>>).segments = <<>> /\ <<s>> # <<>>
    BY DEF Display
  <2>3. QED
    BY <2>1, <2>2
<1>3. ~Castable(d, ValuesOf(d, p), lo, hi) => answers = {CannotCast}
  BY DEF SubValues
<1>4. Castable(d, ValuesOf(d, p), lo, hi) /\ groups = {} => answers = {Display(<<>>)}
  BY DEF SubValues
<1>5. Castable(d, ValuesOf(d, p), lo, hi) /\ groups # {} =>
        answers = {Display(<<Aggregated(d, G, lo, hi)>>) : G \in groups}
  BY DEF SubValues
<1>6. ASSUME Castable(d, ValuesOf(d, p), lo, hi), groups # {} PROVE answers # {Display(<<>>)}
  <2>1. PICK G : G \in groups
    BY <1>6
  <2>2. Display(<<Aggregated(d, G, lo, hi)>>) \in answers
    BY <1>5, <1>6, <2>1
  <2>3. QED
    BY <1>2, <2>2
<1>7. QED
  BY <1>1, <1>2, <1>3, <1>4, <1>5, <1>6

\* The rows of the list.
LEMMA RowsOfLists ==
  ASSUME NEW d, Readable(d), NEW f, NEW lo, NEW hi,
         NEW interpolation \in [DOMAIN d.values -> Interpolations],
         NEW rows, rows = SubRows(d, f, interpolation, lo, hi),
         NEW less, less = ByName(d, rows)
  PROVE  /\ IsFiniteSet(rows) /\ StrictOrder(less, rows)
         /\ \A r \in rows : /\ r = <<r[1], r[2]>> /\ r[1] \in PropertiesOf(d, f)
                            /\ r[2] \in GroupsIn(d, r[1], interpolation, lo, hi)
         /\ \A q \in PropertiesOf(d, f) : \A G \in GroupsIn(d, q, interpolation, lo, hi) :
              <<q, G>> \in rows
         /\ \A r, s \in rows : <<r, s>> \in less <=> Precedes(d, r[1], s[1])
<1> DEFINE Groups(q) == GroupsIn(d, q, interpolation, lo, hi)
<1>1. \A r \in rows : r = <<r[1], r[2]>> /\ r[1] \in PropertiesOf(d, f) /\ r[2] \in Groups(r[1])
  BY DEF SubRows
<1>2. \A q \in PropertiesOf(d, f) : \A G \in Groups(q) : <<q, G>> \in rows
  BY DEF SubRows
<1>3. \A r, s \in rows : <<r, s>> \in less <=> Precedes(d, r[1], s[1])
  BY DEF ByName
<1>4. IsFiniteSet(rows)
  <2>1. \A q \in PropertiesOf(d, f) : Groups(q) \subseteq SUBSET DOMAIN d.values
    <3> SUFFICES ASSUME NEW q \in PropertiesOf(d, f) PROVE Groups(q) \subseteq SUBSET DOMAIN d.values
      OBVIOUS
    <3>1. Groups(q) \subseteq SUBSET {v \in ValuesOf(d, q) : Valued(d, v, lo, hi) # {}}
      BY GroupsOfRows
    <3>2. ValuesOf(d, q) \subseteq DOMAIN d.values
      BY DEF ValuesOf
    <3> HIDE DEF Groups
    <3>3. QED
      BY <3>1, <3>2
  <2> DEFINE pairs == PropertiesOf(d, f) \X SUBSET DOMAIN d.values
  <2>2. IsFiniteSet(PropertiesOf(d, f)) /\ IsFiniteSet(SUBSET DOMAIN d.values)
    BY NamesOfProperties, FS_SUBSET DEF Readable
  <2>3. IsFiniteSet(pairs)
    BY <2>2, FS_Product
  <2> HIDE DEF Groups
  <2>4. rows \in SUBSET pairs
    BY <1>1, <2>1
  <2> HIDE DEF pairs
  <2>5. QED
    BY <2>3, <2>4, FS_Subset
<1>5. StrictOrder(less, rows)
  <2>1. \A r \in rows : d.properties[r[1]].name \in PropertyNames
    BY <1>1, NamesOfProperties
  <2> DEFINE name == [r \in rows |-> d.properties[r[1]].name]
  <2>2. \A r, s \in rows : <<r, s>> \in less <=> <<name[r], name[s]>> \in NameOrder
    BY <1>3 DEF Precedes
  <2>3. \A r \in rows : name[r] \in PropertyNames
    BY <2>1
  <2> HIDE DEF Groups, name
  <2>4. \A r \in rows : <<r, r>> \notin less
    BY <2>2, <2>3, NameOrderAssumption
  <2>5. ASSUME NEW r \in rows, NEW s \in rows, NEW u \in rows, <<r, s>> \in less, <<s, u>> \in less
        PROVE  <<r, u>> \in less
    <3>1. <<name[r], name[s]>> \in NameOrder /\ <<name[s], name[u]>> \in NameOrder
      BY <2>2, <2>5
    <3>2. <<name[r], name[u]>> \in NameOrder
      BY <2>3, <3>1, NameOrderAssumption
    <3>3. QED
      BY <2>2, <3>2
  <2>6. QED
    BY <2>4, <2>5 DEF StrictOrder
<1>6. QED
  BY <1>1, <1>2, <1>3, <1>4, <1>5

\* Of the numbers of some rows there is a last one.
LEMMA LastNumber ==
  ASSUME NEW k \in Nat, NEW S \in SUBSET (1..k), S # {}
  PROVE  \E n \in S : \A m \in S : m <= n
<1> DEFINE less == {r \in S \X S : r[1] < r[2]}
<1>1. IsFiniteSet(S) /\ \A n \in S : n \in Int
  <2>1. IsFiniteSet(1..k)
    BY FS_Interval
  <2>2. IsFiniteSet(S)
    BY <2>1, FS_Subset
  <2>3. QED
    BY <2>2
<1>2. \A m, n \in S : <<m, n>> \in less <=> m < n
  OBVIOUS
<1> HIDE DEF less
<1>3. StrictOrder(less, S)
  BY <1>1, <1>2 DEF StrictOrder
<1>4. PICK n \in S : \A m \in S : <<n, m>> \notin less
  BY <1>1, <1>3, LastOne
<1>5. \A m \in S : ~(n < m) /\ m \in Int /\ n \in Int
  BY <1>1, <1>2, <1>4
<1>6. QED
  BY <1>5

\* What a page of the list's rows shows.
LEMMA PageShown ==
  ASSUME NEW d, Readable(d), NEW f, NEW lo, NEW hi, NEW limit \in Nat,
         NEW interpolation \in [DOMAIN d.values -> Interpolations],
         NEW rows, rows = SubRows(d, f, interpolation, lo, hi),
         NEW s \in Orders(rows, ByName(d, rows)),
         NEW list, list = ListOf(d, FirstOf(s, Capped(limit)), lo, hi),
         NEW Replies,
         Replies = [p \in PropertiesOf(d, f) |-> SubValues(d, p, interpolation, lo, hi)]
  PROVE  ListAgrees(d, list, Replies, limit, OneInterpolation(d, interpolation))
<1> DEFINE Groups(q) == GroupsIn(d, q, interpolation, lo, hi)
           less == ByName(d, rows)
           page == FirstOf(s, Capped(limit))
           k == Smaller(Capped(limit), Cardinality(rows))
           one == OneInterpolation(d, interpolation)
           properties == PropertiesOf(d, f)
           shown == {p \in DOMAIN Replies : Replies[p] # {Display(<<>>)}}
           P == DOMAIN list.values
<1>1. /\ IsFiniteSet(rows) /\ StrictOrder(less, rows)
      /\ \A r \in rows : r = <<r[1], r[2]>> /\ r[1] \in properties /\ r[2] \in Groups(r[1])
      /\ \A q \in properties : \A G \in Groups(q) : <<q, G>> \in rows
      /\ \A r, u \in rows : <<r, u>> \in less <=> Precedes(d, r[1], u[1])
  BY RowsOfLists
<1>2. InFront(rows, less, page, k)
  BY <1>1, FirstRows
<1> HIDE DEF less, page, k
<1>3. /\ k \in Nat /\ DOMAIN page = 1..k /\ Len(page) = k
      /\ \A n \in 1..k : page[n] \in rows
      /\ \A m, n \in 1..k : page[m] = page[n] => m = n
      /\ \A m, n \in 1..k : m < n => <<page[n], page[m]>> \notin less
      /\ \A y \in rows, n \in 1..k : <<y, page[n]>> \in less => \E m \in 1..k : page[m] = y /\ m < n
  BY <1>2 DEF InFront
<1>4. \A q \in properties : q \in shown <=> Groups(q) # {}
  <2>1. ASSUME NEW q \in properties PROVE Replies[q] # {Display(<<>>)} <=> Groups(q) # {}
    <3>1. Replies[q] = SubValues(d, q, interpolation, lo, hi)
      OBVIOUS
    <3>2. QED
      BY <3>1, AnswersOfGroups
  <2>2. DOMAIN Replies = properties
    OBVIOUS
  <2>3. QED
    BY <2>1, <2>2
<1>5. shown \subseteq properties
  OBVIOUS
<1> HIDE DEF shown
<1>6. ASSUME NEW n \in 1..k
      PROVE  page[n][1] \in shown /\ page[n][2] \in Groups(page[n][1]) /\ page[n] = <<page[n][1], page[n][2]>>
  BY <1>1, <1>3, <1>4
<1>7. P = {page[n][1] : n \in 1..k} /\ list # CannotCast
  <2>1. list.values = [q \in {page[n][1] : n \in DOMAIN page} |-> list.values[q]] /\ list.status = 200
    BY DEF ListOf, page
  <2>2. CannotCast.status = 500
    BY DEF CannotCast
  <2>3. DOMAIN list.values = {page[n][1] : n \in DOMAIN page}
    BY <2>1
  <2>4. QED
    BY <1>3, <2>1, <2>2, <2>3
<1>8. ASSUME NEW p \in P
      PROVE  \E n \in 1..k : page[n][1] = p /\ list.values[p] = Aggregated(d, page[n][2], lo, hi)
  <2> DEFINE RowsFor == {n \in DOMAIN page : page[n][1] = p}
             last == CHOOSE n \in RowsFor : \A m \in RowsFor : m <= n
  <2>1. RowsFor \in SUBSET (1..k) /\ RowsFor # {}
    BY <1>3, <1>7
  <2>2. list.values[p] = Aggregated(d, page[last][2], lo, hi)
    BY <1>3, <1>7 DEF ListOf, page
  <2>3. \E n \in RowsFor : \A m \in RowsFor : m <= n
    <3> HIDE DEF RowsFor
    <3>1. QED
      BY <1>3, <2>1, LastNumber
  <2>4. last \in RowsFor
    <3> HIDE DEF RowsFor
    <3>1. QED
      BY <2>3
  <2> HIDE DEF last
  <2>5. QED
    BY <1>3, <2>2, <2>4
<1>9. FirstByName(d, P, shown)
  <2>1. P \subseteq shown
    BY <1>6, <1>7
  <2>2. ASSUME NEW p \in P, NEW q \in shown, Precedes(d, q, p) PROVE q \in P
    <3>1. PICK n \in 1..k : page[n][1] = p
      BY <1>7
    <3>2. PICK G : G \in Groups(q)
      BY <1>4, <1>5
    <3>3. <<q, G>> \in rows /\ page[n] \in rows
      BY <1>1, <1>3, <1>5, <3>2
    <3>4. <<<<q, G>>, page[n]>> \in less
      BY <1>1, <2>2, <3>1, <3>3
    <3>5. PICK m \in 1..k : page[m] = <<q, G>>
      BY <1>3, <3>3, <3>4
    <3>6. QED
      BY <1>7, <3>5
  <2>3. QED
    BY <2>1, <2>2 DEF FirstByName
<1>10. ASSUME NEW p \in P PROVE {CannotCast, Display(<<list.values[p]>>)} \cap Replies[p] # {}
  <2>1. PICK n \in 1..k : page[n][1] = p /\ list.values[p] = Aggregated(d, page[n][2], lo, hi)
    BY <1>8
  <2>2. p \in properties /\ page[n][2] \in Groups(p)
    BY <1>5, <1>6, <2>1
  <2>3. Replies[p] = SubValues(d, p, interpolation, lo, hi)
    BY <2>2
  <2>4. \/ Replies[p] = {CannotCast}
        \/ Replies[p] = {Display(<<Aggregated(d, G, lo, hi)>>) : G \in Groups(p)}
    BY <2>2, <2>3, AnswersOfGroups
  <2>5. QED
    BY <2>1, <2>2, <2>4
<1>11. ASSUME one, NEW m \in 1..k, NEW n \in 1..k, page[m][1] = page[n][1] PROVE page[m] = page[n]
  <2>1. \A q : \A G, H \in Groups(q) : G = H
    <3> SUFFICES ASSUME NEW q PROVE \A G, H \in Groups(q) : G = H
      OBVIOUS
    <3>1. QED
      BY <1>11, GroupsOfRows
  <2>2. page[m][2] = page[n][2]
    BY <1>6, <1>11, <2>1
  <2>3. QED
    BY <1>6, <1>11, <2>2
<1>12. ASSUME one PROVE Cardinality(P) = Smaller(Capped(limit), Cardinality(shown))
  <2>1. Cardinality(shown) = Cardinality(rows)
    <3> DEFINE m == [r \in rows |-> r[1]]
    <3>1. \A q : \A G, H \in Groups(q) : G = H
      <4> SUFFICES ASSUME NEW q PROVE \A G, H \in Groups(q) : G = H
        OBVIOUS
      <4>1. QED
        BY <1>12, GroupsOfRows
    <3>2. \A r \in rows : r[1] \in shown
      BY <1>1, <1>4
    <3>3. \A r, u \in rows : r[1] = u[1] => r = u
      BY <1>1, <3>1
    <3>4. \A q \in shown : \E r \in rows : r[1] = q
      <4> SUFFICES ASSUME NEW q \in shown PROVE \E r \in rows : r[1] = q
        OBVIOUS
      <4>1. PICK G : G \in Groups(q)
        BY <1>4, <1>5
      <4>2. <<q, G>> \in rows /\ <<q, G>>[1] = q
        BY <1>1, <1>5, <4>1
      <4>3. QED
        BY <4>2
    <3>5. m \in Bijection(rows, shown)
      BY <3>2, <3>3, <3>4 DEF Bijection, Injection, Surjection, IsInjective
    <3>6. ExistsBijection(rows, shown)
      BY <3>5 DEF ExistsBijection
    <3>7. QED
      BY <1>1, <3>6, FS_Bijection
  <2>2. Cardinality(P) = k
    <3> DEFINE m == [n \in 1..k |-> page[n][1]]
    <3>1. m \in [1..k -> P] /\ \A p \in P : \E n \in 1..k : m[n] = p
      BY <1>7
    <3>2. \A i, j \in 1..k : m[i] = m[j] => i = j
      BY <1>3, <1>11, <1>12
    <3> HIDE DEF m, P
    <3>3. QED
      BY <1>3, <3>1, <3>2, AsMany
  <2>3. QED
    BY <2>1, <2>2 DEF k
<1>13. ASSUME one, NEW p \in P, \A q \in P : ~Precedes(d, q, p)
       PROVE  list.values[p] = list.datetimes
  <2>1. PICK n \in 1..k : page[n][1] = p /\ list.values[p] = Aggregated(d, page[n][2], lo, hi)
    BY <1>8
  <2>2. 1 \in 1..k /\ page # <<>>
    BY <1>3, <2>1
  <2>3. list.datetimes = Aggregated(d, page[1][2], lo, hi)
    BY <2>2 DEF ListOf, page
  <2>4. page[1][1] \in P /\ ~Precedes(d, page[1][1], p)
    BY <1>7, <1>13, <2>2
  <2>5. ~Precedes(d, p, page[1][1])
    <3>1. CASE n = 1
      BY <2>1, <2>4, <3>1
    <3>2. CASE n # 1
      <4>1. 1 < n
        BY <1>3, <3>2
      <4>2. <<page[n], page[1]>> \notin less
        BY <1>3, <2>2, <4>1
      <4>3. page[n] \in rows /\ page[1] \in rows
        BY <1>3, <2>2
      <4>4. ~Precedes(d, page[n][1], page[1][1])
        BY <1>1, <4>2, <4>3
      <4>5. QED
        BY <2>1, <4>4
    <3>3. QED
      BY <3>1, <3>2
  <2>6. p \in properties /\ page[1][1] \in properties
    BY <1>5, <1>6, <2>1, <2>2
  <2>7. p = page[1][1]
    <3>1. d.properties[p].name \in PropertyNames /\ d.properties[page[1][1]].name \in PropertyNames
      BY <2>6, NamesOfProperties
    <3>2. d.properties[p].name = d.properties[page[1][1]].name
      BY <2>4, <2>5, <3>1, NameOrderAssumption DEF Precedes
    <3>3. QED
      BY <2>6, <3>2, NamesOfProperties
  <2>8. page[n] = page[1]
    BY <1>11, <1>13, <2>1, <2>2, <2>7
  <2>9. QED
    BY <2>1, <2>3, <2>8
<1> HIDE DEF P, one
<1>14. QED
  BY <1>7, <1>9, <1>10, <1>12, <1>13 DEF ListAgrees, P, shown, one

\* What the list shows, a failed one included.
LEMMA ListShown ==
  ASSUME NEW d, Readable(d), NEW f, NEW lo, NEW hi, NEW limit \in Nat,
         NEW interpolation \in [DOMAIN d.values -> Interpolations],
         NEW list \in SubLists(d, f, interpolation, lo, hi, limit)
  PROVE  ListAgrees(d, list,
                    [p \in PropertiesOf(d, f) |-> SubValues(d, p, interpolation, lo, hi)],
                    limit, OneInterpolation(d, interpolation))
<1> DEFINE rows == SubRows(d, f, interpolation, lo, hi)
           Replies == [p \in PropertiesOf(d, f) |-> SubValues(d, p, interpolation, lo, hi)]
           one == OneInterpolation(d, interpolation)
<1>1. \/ list = CannotCast /\ \E r \in rows : ~Castable(d, r[2], lo, hi)
      \/ \E s \in Orders(rows, ByName(d, rows)) : list = ListOf(d, FirstOf(s, Capped(limit)), lo, hi)
  BY DEF SubLists
<1>2. CASE list = CannotCast /\ \E r \in rows : ~Castable(d, r[2], lo, hi)
  <2>1. PICK r \in rows : ~Castable(d, r[2], lo, hi)
    BY <1>2
  <2>2. r[1] \in PropertiesOf(d, f) /\ r[2] \in GroupsIn(d, r[1], interpolation, lo, hi)
    BY RowsOfLists
  <2>3. r[2] \subseteq ValuesOf(d, r[1])
    BY <2>2, GroupsOfRows
  <2>4. ~Castable(d, ValuesOf(d, r[1]), lo, hi)
    BY <2>1, <2>3 DEF Castable
  <2>5. CannotCast \in Replies[r[1]] /\ r[1] \in DOMAIN Replies
    BY <2>2, <2>4 DEF SubValues
  <2> HIDE DEF Replies, one
  <2>6. ListAgrees(d, list, Replies, limit, one)
    BY <1>2, <2>5 DEF ListAgrees
  <2>7. QED
    BY <2>6 DEF Replies, one
<1>3. ASSUME NEW s \in Orders(rows, ByName(d, rows)),
             list = ListOf(d, FirstOf(s, Capped(limit)), lo, hi)
      PROVE  ListAgrees(d, list, Replies, limit, one)
  <2>1. rows = SubRows(d, f, interpolation, lo, hi)
    OBVIOUS
  <2>2. Replies = [p \in PropertiesOf(d, f) |-> SubValues(d, p, interpolation, lo, hi)]
    OBVIOUS
  <2> HIDE DEF rows, Replies
  <2>3. QED
    BY <1>3, <2>1, <2>2, PageShown
<1> HIDE DEF rows, Replies, one
<1>4. QED
  BY <1>1, <1>2, <1>3 DEF Replies, one

\* While the timestamps of each body ascend, the two reading handlers agree,
\* whatever the limit and for any number of properties: the names of an interval
\* are the first ones of the properties of which the other handler shows
\* something; the list with subTemporalValue has values that the other handler
\* answers, of the first properties for which it answers any, and fails only where
\* it does.
THEOREM ListsAgree == ASSUME TimesAscend PROVE Spec => []ListAgreesWithReads
<1>1. Readable(disk) => ListAgreesWithReads
  <2> SUFFICES ASSUME Readable(disk), NEW f \in DOMAIN disk.features, NEW I \in Interval,
                      NEW limit \in Limits
               PROVE  /\ NamesAgree(disk, NamesIn(disk, f, I[1], I[2], limit),
                                    {p \in PropertiesOf(disk, f) : SegmentsIn(disk, p, I[1], I[2]) # <<>>},
                                    limit)
                      /\ \A interpolation \in [DOMAIN disk.values -> Interpolations] :
                         \A list \in SubLists(disk, f, interpolation, I[1], I[2], limit) :
                           ListAgrees(disk, list,
                                      [p \in PropertiesOf(disk, f) |->
                                         SubValues(disk, p, interpolation, I[1], I[2])],
                                      limit, OneInterpolation(disk, interpolation))
    BY DEF ListAgreesWithReads
  <2>1. limit \in Nat
    BY LimitsAssumption
  <2>2. NamesAgree(disk, NamesIn(disk, f, I[1], I[2], limit),
                   {p \in PropertiesOf(disk, f) : SegmentsIn(disk, p, I[1], I[2]) # <<>>}, limit)
    BY <2>1, NamesShown
  <2>3. ASSUME NEW interpolation \in [DOMAIN disk.values -> Interpolations],
               NEW list \in SubLists(disk, f, interpolation, I[1], I[2], limit)
        PROVE  ListAgrees(disk, list,
                          [p \in PropertiesOf(disk, f) |-> SubValues(disk, p, interpolation, I[1], I[2])],
                          limit, OneInterpolation(disk, interpolation))
    BY <2>1, ListShown
  <2>4. QED
    BY <2>2, <2>3
<1>2. QED
  BY <1>1, ReadableAlways, PTL

=============================================================================
