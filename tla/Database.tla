------------------------------ MODULE Database ------------------------------
(***************************************************************************)
(* The tables the server keeps in PostgreSQL, as one value, and what its   *)
(* SQL statements do to that value.                                        *)
(*                                                                         *)
(* A database is a record with one field per table.  A table with a        *)
(* primary key is a function from the keys of its rows to the other        *)
(* columns, so "the row exists" is membership in the DOMAIN.  Columns that *)
(* no property looks at (description, properties, crs, geometry, ...) are  *)
(* left out.  A trajectory (tgeompoint) is the sequence of its member      *)
(* sequences, a member being the set of its instants; NULL is <<>>.        *)
(***************************************************************************)
EXTENDS Integers, Sequences, FiniteSets, SequencesExt, Functions

CONSTANTS CollectionIds,   \* identifiers clients give to collections
          FeatureIds,      \* identifiers of moving features, one namespace
          Titles,          \* titles of collections
          PropertyNames,   \* names of temporal properties
          Instants         \* the timestamps of a small clock

ASSUME InstantsAssumption == Instants \subseteq Int

Null == <<>>
Trajectories == Seq(SUBSET Instants)
InstantsOf(traj) == UNION {traj[n] : n \in DOMAIN traj}

-----------------------------------------------------------------------------
(* The schema.  ddl holds the groups of tables that exist: "core" are      *)
(* collections, moving_features and temporal_geometries; "features" are    *)
(* temporal_properties, temporal_values and the trigger that maintains     *)
(* moving_features.bbox and .time.                                         *)

TableGroups == {"core", "features"}

FeatureRow  == [cid : CollectionIds, extent : SUBSET Instants]
\* geometry says whether the column of that name is filled or NULL.
GeometryRow == [fid : FeatureIds, cid : CollectionIds, traj : Trajectories,
                geometry : BOOLEAN]
PropertyRow == [fid : FeatureIds, name : PropertyNames]
\* values is a JSON array of what the client sent: what PostgreSQL takes for a
\* float (numbers, also written as strings, and null) or not.
ValueKinds  == {"number", "other"}
ValuesRow   == [pid : Nat, times : Seq(Instants), values : Seq(ValueKinds)]

IsTable(t, Keys, Row) == t \in [DOMAIN t -> Row] /\ DOMAIN t \subseteq Keys

IsDatabase(db) ==
  /\ db = [collections |-> db.collections, features |-> db.features,
           geometries |-> db.geometries, properties |-> db.properties,
           values |-> db.values, ddl |-> db.ddl]
  /\ IsTable(db.collections, CollectionIds, Titles)
  /\ IsTable(db.features, FeatureIds, FeatureRow)
  /\ IsTable(db.geometries, Nat, GeometryRow)
  /\ IsTable(db.properties, Nat, PropertyRow)
  /\ IsTable(db.values, Nat, ValuesRow)
  /\ db.ddl \subseteq TableGroups

NoRows == [x \in {} |-> x]
EmptyDatabase ==
  [collections |-> NoRows, features |-> NoRows, geometries |-> NoRows,
   properties |-> NoRows, values |-> NoRows, ddl |-> {}]

\* The foreign keys the DDL declares: every reference has its row.
ReferencesHold(db) ==
  /\ \A f \in DOMAIN db.features : db.features[f].cid \in DOMAIN db.collections
  /\ \A g \in DOMAIN db.geometries :
        /\ db.geometries[g].fid \in DOMAIN db.features
        /\ db.geometries[g].cid \in DOMAIN db.collections
  /\ \A p \in DOMAIN db.properties : db.properties[p].fid \in DOMAIN db.features
  /\ \A v \in DOMAIN db.values : db.values[v].pid \in DOMAIN db.properties

-----------------------------------------------------------------------------
(* Queries.                                                                *)

HasCollection(db, c) == c \in DOMAIN db.collections
FaultyHasFeature_anyCollection(db, c, f) == f \in DOMAIN db.features
HasFeature(db, c, f) == f \in DOMAIN db.features /\ db.features[f].cid = c

GeometriesOf(db, f)  == {g \in DOMAIN db.geometries : db.geometries[g].fid = f}
GeometriesIn(db, c, f) == {g \in GeometriesOf(db, f) : db.geometries[g].cid = c}
PropertiesOf(db, f)  == {p \in DOMAIN db.properties : db.properties[p].fid = f}
FaultyPropertiesNamed_withValuesOnly(db, f, name) ==
  {p \in PropertiesOf(db, f) :
     db.properties[p].name = name /\ \E v \in DOMAIN db.values : db.values[v].pid = p}
PropertiesNamed(db, f, name) ==
  {p \in PropertiesOf(db, f) : db.properties[p].name = name}

Smaller(m, n) == IF m <= n THEN m ELSE n
\* The limit of a listing, for its LIMIT clause.
Capped(limit) == Smaller(limit, 10000)

-----------------------------------------------------------------------------
(* Statements.  Deletes follow ON DELETE CASCADE.                          *)
(*                                                                         *)
(* Here and in the other modules, a definition named Faulty<name>_<fault>  *)
(* is what <name> would be with that fault in the code.  Nothing uses it:  *)
(* it can be put in the place of <name> to see which property fails.       *)

CreateTables(db, group) == [db EXCEPT !.ddl = @ \cup group]

Extend(t, key, row) == [k \in DOMAIN t \cup {key} |-> IF k = key THEN row ELSE t[k]]

PutCollectionRow(db, c, title) ==
  [db EXCEPT !.collections = Extend(db.collections, c, title)]

InsertFeatureRow(db, f, c) ==
  [db EXCEPT !.features = Extend(db.features, f, [cid |-> c, extent |-> {}])]

\* bbox and time are an interval, so only the first and the last instant count.
Hull(S) == {t \in S : (\A u \in S : t <= u) \/ (\A u \in S : u <= t)}

\* extent(trajectory) over the geometries of feature f that carry its own
\* collection_id.
ExtentOf(db, f) ==
  Hull(UNION {InstantsOf(db.geometries[g].traj) :
                g \in GeometriesIn(db, db.features[f].cid, f)})

FaultyFireTrigger_anyCollection(db, touched) ==
  [db EXCEPT !.features =
     [f \in DOMAIN db.features |->
        IF touched \cap GeometriesOf(db, f) # {}
        THEN [db.features[f] EXCEPT !.extent =
                Hull(UNION {InstantsOf(db.geometries[g].traj) : g \in GeometriesOf(db, f)})]
        ELSE db.features[f]]]

\* update_mfeatures_on_tg, fired for the rows in touched.
FireTrigger(db, touched) ==
  IF "features" \in db.ddl
  THEN [db EXCEPT !.features =
          [f \in DOMAIN db.features |->
             IF touched \cap GeometriesIn(db, db.features[f].cid, f) # {}
             THEN [db.features[f] EXCEPT !.extent = ExtentOf(db, f)]
             ELSE db.features[f]]]
  ELSE db

InsertGeometryRow(db, g, f, c, traj, geometry) ==
  FireTrigger([db EXCEPT !.geometries =
                 Extend(db.geometries, g,
                        [fid |-> f, cid |-> c, traj |-> traj, geometry |-> geometry])],
              {g})

\* appendInstant and deleteTime are strict: NULL stays NULL, and a member that
\* is not there makes the result NULL.
AppendInstant(traj, instant) ==
  IF traj = Null THEN Null ELSE [traj EXCEPT ![Len(traj)] = @ \cup instant]
FaultyRemoveMember_zeroBased(traj, n) == RemoveAt(traj, n - 1)
FaultyRemoveMember_onwards(traj, n) == SubSeq(traj, 1, n - 1)
RemoveMember(traj, n) == IF n \in DOMAIN traj THEN RemoveAt(traj, n) ELSE Null

FaultyUpdateTrajectories_noTrigger(db, new) ==
  [db EXCEPT !.geometries =
     [g \in DOMAIN db.geometries |->
        IF g \in DOMAIN new THEN [db.geometries[g] EXCEPT !.traj = new[g]]
                            ELSE db.geometries[g]]]

\* UPDATE temporal_geometries for the rows in DOMAIN new.
UpdateTrajectories(db, new) ==
  FireTrigger([db EXCEPT !.geometries =
                 [g \in DOMAIN db.geometries |->
                    IF g \in DOMAIN new
                    THEN [db.geometries[g] EXCEPT !.traj = new[g]]
                    ELSE db.geometries[g]]],
              DOMAIN new)

InsertPropertyRow(db, p, f, name) ==
  [db EXCEPT !.properties = Extend(db.properties, p, [fid |-> f, name |-> name])]
\* The datetimes and the values of a body.
InsertValuesRow(db, v, p, body) ==
  [db EXCEPT !.values =
     Extend(db.values, v, [pid |-> p, times |-> body.times, values |-> body.values])]

\* The table without the rows whose keys are in Gone.
Without(t, Gone) == Restrict(t, DOMAIN t \ Gone)

DeleteProperties(db, P) ==
  [db EXCEPT !.properties = Without(db.properties, P),
             !.values = Without(db.values,
                          {v \in DOMAIN db.values : db.values[v].pid \in P})]

DeleteFeatures(db, F) ==
  LET P == {p \in DOMAIN db.properties : db.properties[p].fid \in F}
      G == {g \in DOMAIN db.geometries : db.geometries[g].fid \in F}
  IN  [DeleteProperties(db, P) EXCEPT !.features = Without(db.features, F),
                                      !.geometries = Without(db.geometries, G)]

FaultyDeleteCollectionRow_featuresOnly(db, c) ==
  [DeleteFeatures(db, {f \in DOMAIN db.features : db.features[f].cid = c}) EXCEPT
     !.collections = Without(db.collections, {c})]
DeleteCollectionRow(db, c) ==
  LET F  == {f \in DOMAIN db.features : db.features[f].cid = c}
      db1 == DeleteFeatures(db, F)
      G  == {g \in DOMAIN db1.geometries : db1.geometries[g].cid = c}
  IN  [db1 EXCEPT !.collections = Without(db.collections, {c}),
                  !.geometries = Without(db1.geometries, G)]
=============================================================================
