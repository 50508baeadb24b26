-------------------------- MODULE ReferenceSystems --------------------------
(***************************************************************************)
(* The spatial reference systems of trajectories.  Three handlers write    *)
(* trajectories, and each finds the SRID in another place and another way: *)
(* insert_feature takes the first number in the crs of the Feature,        *)
(* post_tgsequence the first number in the crs column, post_bulk the EPSG  *)
(* code of the batch.  MobilityDB refuses to combine trajectories of       *)
(* different SRIDs: appendInstant raises, and so does extent, which the    *)
(* trigger on temporal_geometries computes for a feature and the handlers  *)
(* that describe collections for a collection.                             *)
(*                                                                         *)
(* Only requests that are otherwise in order are here, one transaction     *)
(* each.  Rows of one feature, collection and SRID are not told apart.     *)
(***************************************************************************)
EXTENDS Integers

CONSTANTS CollectionIds, FeatureIds,
          Crs,          \* crs objects that bodies may hold ...
          Absent,       \* ... or none
          DefaultCrs,   \* the default of moving_features.crs
          FirstNumber,  \* the first number in the name of a crs ...
          EpsgCode      \* ... and the number after "EPSG"

NoNumber == -1

ASSUME CrsAssumption ==
  /\ DefaultCrs \in Crs /\ Absent \notin Crs
  /\ FirstNumber \in [Crs -> Nat \cup {NoNumber}] /\ EpsgCode \in [Crs -> Nat \cup {NoNumber}]

VARIABLES features,    \* moving_features: collection, crs column; history: SRID as posted
          geometries,  \* temporal_geometries: feature, collection, SRID
          trigger,     \* whether trg_update_mfeatures_on_tg exists
          aborted,     \* whether the session is, by a handler that did not roll back
          systems,     \* history: the crs read in requests that touch a collection
          refused      \* history: the collections the last request touched, if it was refused

vars == <<features, geometries, trigger, aborted, systems, refused>>

-----------------------------------------------------------------------------
(* How an SRID is found.                                                   *)

FaultyInsertSrid_nameIgnored(crs) == 4326
\* insert_feature
InsertSrid(crs) ==
  IF crs = Absent THEN 4326 ELSE IF FirstNumber[crs] = NoNumber THEN 4326 ELSE FirstNumber[crs]
StoredCrs(crs) == IF crs = Absent THEN DefaultCrs ELSE crs

\* srid_from_crs; a GeoParquet batch has none.
BatchSrid(crs) ==
  IF crs = Absent THEN 4326 ELSE IF EpsgCode[crs] = NoNumber THEN 4326 ELSE EpsgCode[crs]

-----------------------------------------------------------------------------
(* What MobilityDB makes of it.                                            *)

OneSrid(rows) == \A r, s \in rows : r.srid = s.srid
RowsOf(gs, f)    == {r \in gs : r.fid = f}
RowsIn(gs, c, f) == {r \in RowsOf(gs, f) : r.cid = c}
RowsUnder(gs, c) == {r \in gs : r.cid = c}

FaultyTriggerRaises_rowByRow(fs, gs, touched) == \E r \in touched : ~OneSrid({r})
\* update_mfeatures_on_tg computes an extent if the row is in the collection of
\* its feature.
TriggerRaises(fs, gs, touched) ==
  \E r \in touched : fs[r.fid].cid = r.cid /\ ~OneSrid(RowsIn(gs, r.cid, r.fid))

-----------------------------------------------------------------------------
(* Requests.                                                               *)

Feature(c, crs, srid) == [cid |-> c, crs |-> crs, posted |-> srid]
Row(f, c, srid) == [fid |-> f, cid |-> c, srid |-> srid]
Extend(fs, F, row) == [f \in DOMAIN fs \cup F |-> IF f \in DOMAIN fs THEN fs[f] ELSE row]

Reads(C, crs) ==
  systems' = [c \in CollectionIds |-> IF c \in C THEN systems[c] \cup {crs} ELSE systems[c]]
Answers(C, ok) == refused' = IF ok THEN {} ELSE C

\* A transaction that ends with these rows, unless the statement (fine) or the
\* trigger raises; the handler then rolls back.
Transaction(C, fine, fs, gs, touched) ==
  LET ok == fine /\ ~(trigger' /\ TriggerRaises(fs, gs, touched))
  IN  /\ features' = IF ok THEN fs ELSE features
      /\ geometries' = IF ok THEN gs ELSE geometries
      /\ UNCHANGED aborted /\ Answers(C, ok)

\* insert_feature, which has made and committed the trigger before it inserts;
\* an empty temporalGeometry gives no row, and a taken id nothing at all.
InsertFeature(c, f, crs, moves, fs, gs) ==
  LET srid == InsertSrid(crs)
      new  == f \notin DOMAIN fs
      row  == {Row(f, c, srid)}
  IN  /\ trigger' = TRUE /\ Reads({c}, crs)
      /\ IF new /\ moves
         THEN Transaction({c}, TRUE, Extend(fs, {f}, Feature(c, StoredCrs(crs), srid)), gs \cup row, row)
         ELSE Transaction({c}, TRUE, Extend(fs, {f}, Feature(c, StoredCrs(crs), NoNumber)), gs, {})

Remaining(F) == [f \in DOMAIN features \ F |-> features[f]]
GeometriesWithout(F) == {r \in geometries : r.fid \notin F}

post_collection_items(c, f, crs, moves) ==
  ~aborted /\ InsertFeature(c, f, crs, moves, features, geometries)

put_single_moving_feature(f, crs, moves) ==
  /\ ~aborted
  /\ InsertFeature(features[f].cid, f, crs, moves, Remaining({f}), GeometriesWithout({f}))

delete_single_moving_feature(f) ==
  /\ ~aborted
  /\ features' = Remaining({f}) /\ geometries' = GeometriesWithout({f})
  /\ Answers({features[f].cid}, TRUE) /\ UNCHANGED <<trigger, aborted, systems>>

\* post_bulk, one observation of each feature in F: new ones get the default
\* crs, whatever that of the batch; every row of a feature is extended, of
\* whatever collection, or one is inserted.
post_bulk(c, F, crs) ==
  LET srid == BatchSrid(crs)
      extended == UNION {RowsOf(geometries, f) : f \in F}
      inserted == {Row(f, c, srid) : f \in {g \in F : RowsOf(geometries, g) = {}}}
      C == {c} \cup {r.cid : r \in extended}
  IN  /\ ~aborted /\ UNCHANGED trigger /\ Reads(C, crs)
      /\ Transaction(C, \A r \in extended : r.srid = srid,
                     Extend(features, F, Feature(c, DefaultCrs, NoNumber)),
                     geometries \cup inserted, extended \cup inserted)

\* post_tgsequence
post_tgsequence(f) ==
  LET c == features[f].cid
      crs == features[f].crs
      row == {Row(f, c, FirstNumber[crs])}
  IN  /\ ~aborted /\ UNCHANGED trigger /\ Reads({c}, crs)
      /\ IF FirstNumber[crs] = NoNumber
         THEN Transaction({c}, FALSE, features, geometries, {})
         ELSE Transaction({c}, TRUE, features, geometries \cup row, row)

\* delete_single_temporal_primitive_geo updates every row of the feature; those
\* that have no other member end as NULL, never all of them.
delete_single_temporal_primitive_geo(f, kept) ==
  LET c == features[f].cid
  IN  /\ ~aborted /\ kept # {} /\ UNCHANGED <<trigger, systems>>
      /\ Transaction({c}, TRUE, features, (geometries \ RowsIn(geometries, c, f)) \cup kept, kept)

\* GET /collections and GET /collections/{id} compute the extents of the
\* collections they describe, and do not roll back.
Describe(C) ==
  LET ok == ~aborted /\ \A c \in C : OneSrid(RowsUnder(geometries, c))
  IN  /\ aborted' = ~ok /\ Answers(IF aborted THEN CollectionIds ELSE C, ok)
      /\ UNCHANGED <<features, geometries, trigger, systems>>

get_collections == Describe(CollectionIds)
get_collection_id(c) == Describe({c})

\* Any handler that rolls back, after one that did not.
AfterFailedRead ==
  /\ aborted /\ aborted' = FALSE /\ Answers(CollectionIds, FALSE)
  /\ UNCHANGED <<features, geometries, trigger, systems>>

Init ==
  /\ features = [f \in {} |-> {}] /\ geometries = {} /\ trigger = FALSE /\ aborted = FALSE
  /\ systems = [c \in CollectionIds |-> {}] /\ refused = {}

Next ==
  \/ \E crs \in Crs \cup {Absent}, moves \in BOOLEAN :
        \/ \E c \in CollectionIds, f \in FeatureIds : post_collection_items(c, f, crs, moves)
        \/ \E f \in DOMAIN features : put_single_moving_feature(f, crs, moves)
  \/ \E c \in CollectionIds, F \in SUBSET FeatureIds \ {{}}, crs \in Crs \cup {Absent} :
        post_bulk(c, F, crs)
  \/ \E f \in DOMAIN features :
        \/ delete_single_moving_feature(f)
        \/ post_tgsequence(f)
        \/ \E kept \in SUBSET RowsIn(geometries, features[f].cid, f) :
              delete_single_temporal_primitive_geo(f, kept)
  \/ get_collections \/ AfterFailedRead
  \/ \E c \in CollectionIds : get_collection_id(c)

Spec == Init /\ [][Next]_vars

-----------------------------------------------------------------------------
(* Properties.                                                             *)

\* A feature that was posted with a trajectory keeps to the SRID it was posted
\* in: whatever other trajectories and observations arrive, through whichever
\* handler and for whichever collection, those of its collection have that SRID.
PostedInItsSystem ==
  \A f \in DOMAIN features : features[f].posted # NoNumber =>
    \A r \in RowsIn(geometries, features[f].cid, f) : r.srid = features[f].posted

\* All bodies name one system, which all handlers read alike, or none does.
Consistent(read) ==
  \/ read \subseteq {Absent}
  \/ \E crs \in Crs : read \subseteq {crs} /\ FirstNumber[crs] = EpsgCode[crs] /\ EpsgCode[crs] # NoNumber

\* Clients that keep to one system, or to none, are never refused for it, in
\* writing or in reading: every refusal is about a collection that was told, by
\* a body or by the default of the crs column, of a second one.
OneSystemIsServed == refused # {} => \E c \in refused : ~Consistent(systems[c])
=============================================================================
