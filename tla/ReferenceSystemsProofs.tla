----------------------- MODULE ReferenceSystemsProofs -----------------------
(***************************************************************************)
(* The two properties of ReferenceSystems, for any collections, features   *)
(* and crs objects, and however handlers read these.                       *)
(***************************************************************************)
EXTENDS ReferenceSystems, TLAPS

Systems == Crs \cup {Absent}
FeatureRows == [cid : CollectionIds, crs : Crs, posted : Int]
GeometryRows == [fid : FeatureIds, cid : CollectionIds, srid : Int]

\* Features and geometries have their shape, and a geometry its feature.
Shape(fs, gs) ==
  /\ DOMAIN fs \subseteq FeatureIds /\ fs \in [DOMAIN fs -> FeatureRows]
  /\ gs \in SUBSET GeometryRows /\ \A r \in gs : r.fid \in DOMAIN fs

\* A feature that was posted with a trajectory has one, and the trigger is there.
Posted(fs, gs, trig) ==
  \A f \in DOMAIN fs : fs[f].posted # NoNumber =>
    /\ trig /\ RowsIn(gs, fs[f].cid, f) # {}
    /\ \A r \in RowsIn(gs, fs[f].cid, f) : r.srid = fs[f].posted

\* An SRID was found in a crs that was read for the collection.
Traced(gs, sys) ==
  \A r \in gs : \E crs \in sys[r.cid] : r.srid \in {InsertSrid(crs), BatchSrid(crs)}

Types ==
  /\ Shape(features, geometries)
  /\ trigger \in BOOLEAN /\ aborted \in BOOLEAN
  /\ systems \in [CollectionIds -> SUBSET Systems] /\ refused \in SUBSET CollectionIds

Told == aborted => \E c \in CollectionIds : ~Consistent(systems[c])

IInv == /\ Types /\ Posted(features, geometries, trigger) /\ Traced(geometries, systems)
        /\ Told /\ OneSystemIsServed

-----------------------------------------------------------------------------
(* Reading a crs.                                                          *)

LEMMA SridsAreNumbers ==
  ASSUME NEW crs \in Systems
  PROVE  InsertSrid(crs) \in Nat /\ BatchSrid(crs) \in Nat
BY CrsAssumption DEF Systems, InsertSrid, BatchSrid, NoNumber

\* In a consistent collection every body gives one and the same SRID, to all
\* handlers.
LEMMA ConsistentReadings ==
  ASSUME NEW S \in SUBSET Systems, Consistent(S), NEW a \in S, NEW b \in S
  PROVE  InsertSrid(a) = BatchSrid(b) /\ InsertSrid(a) = InsertSrid(b) /\ BatchSrid(a) = BatchSrid(b)
<1>1. CASE S \subseteq {Absent}
  BY <1>1 DEF InsertSrid, BatchSrid
<1>2. CASE \E crs \in Crs : S \subseteq {crs} /\ FirstNumber[crs] = EpsgCode[crs] /\ EpsgCode[crs] # NoNumber
  <2>1. PICK crs \in Crs : S \subseteq {crs} /\ FirstNumber[crs] = EpsgCode[crs] /\ EpsgCode[crs] # NoNumber
    BY <1>2
  <2>2. a = crs /\ b = crs /\ crs # Absent
    BY <2>1, CrsAssumption
  <2> QED BY <2>1, <2>2 DEF InsertSrid, BatchSrid
<1> QED BY <1>1, <1>2 DEF Consistent

\* What is inconsistent stays so.
LEMMA InconsistentStays ==
  ASSUME NEW S, NEW T, S \subseteq T, ~Consistent(S)
  PROVE  ~Consistent(T)
BY DEF Consistent

\* Two SRIDs under one collection show that it was told of two systems.
LEMMA TwoSrids ==
  ASSUME NEW gs, NEW sys \in [CollectionIds -> SUBSET Systems], Traced(gs, sys),
         NEW r \in gs, NEW s \in gs, r.cid = s.cid, r.cid \in CollectionIds, r.srid # s.srid
  PROVE  ~Consistent(sys[r.cid])
<1>1. SUFFICES ASSUME Consistent(sys[r.cid]) PROVE FALSE
  OBVIOUS
<1>2. PICK a \in sys[r.cid] : r.srid \in {InsertSrid(a), BatchSrid(a)}
  BY DEF Traced
<1>3. PICK b \in sys[r.cid] : s.srid \in {InsertSrid(b), BatchSrid(b)}
  BY DEF Traced
<1>4. sys[r.cid] \in SUBSET Systems
  OBVIOUS
<1>5. /\ InsertSrid(a) = BatchSrid(b) /\ InsertSrid(a) = InsertSrid(b) /\ BatchSrid(a) = BatchSrid(b)
  BY <1>1, <1>4, ConsistentReadings
<1>6. InsertSrid(b) = BatchSrid(a)
  BY <1>1, <1>4, ConsistentReadings
<1> QED BY <1>2, <1>3, <1>5, <1>6

-----------------------------------------------------------------------------
(* Transactions.                                                           *)

\* What a request reads is added to what was read.
LEMMA ReadsGrow ==
  ASSUME Types, NEW C \in SUBSET CollectionIds, NEW crs \in Systems, Reads(C, crs)
  PROVE  /\ systems' \in [CollectionIds -> SUBSET Systems]
         /\ \A c \in CollectionIds : systems[c] \subseteq systems'[c]
         /\ \A c \in C : crs \in systems'[c]
BY DEF Types, Reads

LEMMA TracedGrows ==
  ASSUME Types, Traced(geometries, systems),
         NEW sys, \A c \in CollectionIds : systems[c] \subseteq sys[c]
  PROVE  Traced(geometries, sys)
BY DEF Types, Shape, GeometryRows, Traced

LEMMA ToldStays ==
  ASSUME Types, Told, NEW sys, \A c \in CollectionIds : systems[c] \subseteq sys[c], aborted
  PROVE  \E c \in CollectionIds : ~Consistent(sys[c])
<1>1. PICK c \in CollectionIds : ~Consistent(systems[c])
  BY DEF Told
<1> QED BY <1>1, InconsistentStays

\* The trigger raises only over a collection that was told of two systems.
LEMMA RaisingIsTold ==
  ASSUME NEW fs, NEW gs, NEW touched \in SUBSET gs, NEW C \in SUBSET CollectionIds,
         NEW sys \in [CollectionIds -> SUBSET Systems],
         Traced(gs, sys), \A r \in touched : fs[r.fid].cid = r.cid => r.cid \in C,
         TriggerRaises(fs, gs, touched)
  PROVE  \E c \in C : ~Consistent(sys[c])
<1>1. PICK r \in touched : fs[r.fid].cid = r.cid /\ ~OneSrid(RowsIn(gs, r.cid, r.fid))
  BY DEF TriggerRaises
<1>2. PICK s \in gs, t \in gs : s.cid = r.cid /\ t.cid = r.cid /\ s.srid # t.srid
  BY <1>1 DEF OneSrid, RowsIn, RowsOf
<1>3. r.cid \in C
  BY <1>1
<1>4. ~Consistent(sys[s.cid])
  BY <1>2, <1>3, TwoSrids
<1> QED BY <1>2, <1>3, <1>4

\* A transaction keeps the invariant if the rows it would leave do, and if it
\* fails only over a collection that was told of two systems.
LEMMA TransactionKeeps ==
  ASSUME IInv, ~aborted,
         NEW C \in SUBSET CollectionIds, NEW fine \in BOOLEAN, NEW fs, NEW gs, NEW touched \in SUBSET gs,
         Transaction(C, fine, fs, gs, touched),
         trigger' \in BOOLEAN, trigger => trigger',
         systems' \in [CollectionIds -> SUBSET Systems],
         \A c \in CollectionIds : systems[c] \subseteq systems'[c],
         fine => /\ Shape(fs, gs) /\ Traced(gs, systems')
                 /\ ~(trigger' /\ TriggerRaises(fs, gs, touched)) => Posted(fs, gs, trigger'),
         \A r \in touched : fs[r.fid].cid = r.cid => r.cid \in C,
         ~fine => \E c \in C : ~Consistent(systems'[c])
  PROVE  IInv'
<1> DEFINE ok == fine /\ ~(trigger' /\ TriggerRaises(fs, gs, touched))
<1>1. /\ features' = IF ok THEN fs ELSE features
      /\ geometries' = IF ok THEN gs ELSE geometries
      /\ aborted' = aborted /\ refused' = IF ok THEN {} ELSE C
  BY DEF Transaction, Answers
<1>2. CASE ok
  <2>1. Types'
    BY <1>1, <1>2 DEF IInv, Types
  <2>2. Posted(features, geometries, trigger)'
    BY <1>1, <1>2 DEF Posted
  <2>3. Traced(geometries, systems)'
    BY <1>1, <1>2 DEF Traced
  <2> QED BY <1>1, <1>2, <2>1, <2>2, <2>3 DEF IInv, Told, OneSystemIsServed
<1>3. CASE ~ok
  <2>1. Types'
    BY <1>1, <1>3 DEF IInv, Types
  <2>2. Posted(features, geometries, trigger)'
    BY <1>1, <1>3 DEF IInv, Posted
  <2>3. Traced(geometries, systems')
    BY TracedGrows DEF IInv
  <2>4. Traced(geometries, systems)'
    BY <1>1, <1>3, <2>3 DEF Traced
  <2>5. \E c \in C : ~Consistent(systems'[c])
    BY <1>3, RaisingIsTold
  <2> QED BY <1>1, <1>3, <2>1, <2>2, <2>4, <2>5 DEF IInv, Told, OneSystemIsServed
<1> QED BY <1>2, <1>3

\* The same, when no statement but the trigger can fail, and when one does.
LEMMA WriteKeeps ==
  ASSUME IInv, ~aborted, NEW c \in CollectionIds, NEW fs, NEW gs, NEW touched \in SUBSET gs,
         Transaction({c}, TRUE, fs, gs, touched),
         trigger' \in BOOLEAN, trigger => trigger',
         systems' \in [CollectionIds -> SUBSET Systems],
         \A d \in CollectionIds : systems[d] \subseteq systems'[d],
         Shape(fs, gs), Traced(gs, systems'),
         (trigger' /\ TriggerRaises(fs, gs, touched)) \/ Posted(fs, gs, trigger'),
         \A r \in touched : r.cid = c
  PROVE  IInv'
<1> DEFINE C == {c}
<1>1. C \in SUBSET CollectionIds /\ \A r \in touched : r.cid \in C
  OBVIOUS
<1>2. Transaction(C, TRUE, fs, gs, touched)
  OBVIOUS
<1> HIDE DEF C
<1> QED BY <1>1, <1>2, TransactionKeeps

LEMMA RefusalKeeps ==
  ASSUME IInv, ~aborted, NEW c \in CollectionIds,
         Transaction({c}, FALSE, features, geometries, {}),
         trigger' \in BOOLEAN, trigger => trigger',
         systems' \in [CollectionIds -> SUBSET Systems],
         \A d \in CollectionIds : systems[d] \subseteq systems'[d],
         ~Consistent(systems'[c])
  PROVE  IInv'
<1>1. /\ features' = features /\ geometries' = geometries
      /\ aborted' = aborted /\ refused' = {c}
  BY DEF Transaction, Answers
<1>2. Types'
  BY <1>1 DEF IInv, Types
<1>3. Posted(features, geometries, trigger)'
  BY <1>1 DEF IInv, Posted
<1>4. Traced(geometries, systems')
  BY TracedGrows DEF IInv
<1>5. Traced(geometries, systems)'
  BY <1>1, <1>4 DEF Traced
<1> QED BY <1>1, <1>2, <1>3, <1>5 DEF IInv, Told, OneSystemIsServed

-----------------------------------------------------------------------------
(* One lemma per kind of request.                                          *)

\* A new row of the collection's own system, or none, is all that
\* insert_feature adds.
LEMMA InsertKeeps ==
  ASSUME IInv, ~aborted, NEW c \in CollectionIds, NEW f \in FeatureIds, NEW crs \in Systems,
         NEW moves \in BOOLEAN, NEW fs, NEW gs, InsertFeature(c, f, crs, moves, fs, gs),
         Shape(fs, gs), Posted(fs, gs, trigger), Traced(gs, systems)
  PROVE  IInv'
<1> DEFINE srid == InsertSrid(crs)
           row == {Row(f, c, srid)}
<1>1. trigger' = TRUE /\ Reads({c}, crs)
  BY DEF InsertFeature
<1>2. /\ systems' \in [CollectionIds -> SUBSET Systems]
      /\ \A d \in CollectionIds : systems[d] \subseteq systems'[d]
      /\ crs \in systems'[c]
  BY <1>1, ReadsGrow DEF IInv
<1>3. srid \in Int /\ StoredCrs(crs) \in Crs /\ NoNumber \in Int
  BY SridsAreNumbers, CrsAssumption DEF StoredCrs, Systems, NoNumber
<1>4. Traced(gs, systems')
  BY <1>2 DEF Traced, Shape, GeometryRows
<1>5. Posted(fs, gs, TRUE)
  BY DEF Posted
<1>6. CASE f \notin DOMAIN fs /\ moves
  <2> DEFINE more == Extend(fs, {f}, Feature(c, StoredCrs(crs), srid))
             rows == gs \cup row
  <2>1. Transaction({c}, TRUE, more, rows, row)
    BY <1>6 DEF InsertFeature
  <2>2. Shape(more, rows)
    BY <1>3 DEF Shape, Extend, Feature, FeatureRows, GeometryRows, Row
  <2>3. Traced(rows, systems')
    BY <1>2, <1>4 DEF Traced, Row
  <2>4. Posted(more, rows, TRUE)
    <3>1. SUFFICES ASSUME NEW g \in DOMAIN more, more[g].posted # NoNumber
                   PROVE  /\ RowsIn(rows, more[g].cid, g) # {}
                          /\ \A r \in RowsIn(rows, more[g].cid, g) : r.srid = more[g].posted
      BY DEF Posted
    <3>2. CASE g = f
      <4>1. more[g].cid = c /\ more[g].posted = srid
        BY <1>6, <3>2 DEF Extend, Feature
      <4>2. RowsOf(gs, f) = {}
        BY <1>6 DEF RowsOf, Shape
      <4>3. RowsIn(rows, c, f) = row
        BY <4>2 DEF RowsIn, RowsOf, Row
      <4>4. row # {} /\ \A r \in row : r.srid = srid
        BY DEF Row
      <4> HIDE DEF more, rows, row, srid
      <4> QED BY <3>2, <4>1, <4>3, <4>4
    <3>3. CASE g # f
      <4>1. g \in DOMAIN fs /\ more[g] = fs[g]
        BY <3>3 DEF Extend
      <4>2. RowsIn(rows, more[g].cid, g) = RowsIn(gs, fs[g].cid, g)
        BY <3>3, <4>1 DEF RowsIn, RowsOf, Row
      <4> QED BY <3>1, <4>1, <4>2, <1>5 DEF Posted
    <3> QED BY <3>2, <3>3
  <2>5. (\A r \in row : r.cid = c) /\ row \in SUBSET rows
    BY DEF Row
  <2>6. Posted(more, rows, trigger')
    BY <1>1, <2>4 DEF Posted
  <2> HIDE DEF more, rows, row
  <2> QED BY <1>1, <1>2, <2>1, <2>2, <2>3, <2>5, <2>6, WriteKeeps
<1>7. CASE ~(f \notin DOMAIN fs /\ moves)
  <2> DEFINE more == Extend(fs, {f}, Feature(c, StoredCrs(crs), NoNumber))
             none == {}
  <2>1. Transaction({c}, TRUE, more, gs, none)
    BY <1>7 DEF InsertFeature
  <2>2. Shape(more, gs)
    BY <1>3 DEF Shape, Extend, Feature, FeatureRows
  <2>3. Posted(more, gs, TRUE)
    BY <1>5 DEF Posted, Extend, Feature
  <2>4. Posted(more, gs, trigger')
    BY <1>1, <2>3 DEF Posted
  <2>5. (\A r \in none : r.cid = c) /\ none \in SUBSET gs
    OBVIOUS
  <2> HIDE DEF more, none
  <2> QED BY <1>1, <1>2, <1>4, <2>1, <2>2, <2>4, <2>5, WriteKeeps
<1> QED BY <1>6, <1>7

\* Without some features and their geometries, everything holds as before.
LEMMA RemainingKeeps ==
  ASSUME IInv, NEW F
  PROVE  /\ Shape(Remaining(F), GeometriesWithout(F))
         /\ Posted(Remaining(F), GeometriesWithout(F), trigger)
         /\ Traced(GeometriesWithout(F), systems)
<1>1. Shape(Remaining(F), GeometriesWithout(F))
  BY DEF IInv, Types, Shape, Remaining, GeometriesWithout
<1>2. Traced(GeometriesWithout(F), systems)
  BY DEF IInv, Traced, GeometriesWithout
<1>3. ASSUME NEW f \in DOMAIN Remaining(F)
      PROVE  /\ f \in DOMAIN features /\ Remaining(F)[f] = features[f]
             /\ RowsIn(GeometriesWithout(F), features[f].cid, f) = RowsIn(geometries, features[f].cid, f)
  BY DEF Remaining, GeometriesWithout, RowsIn, RowsOf
<1>4. Posted(Remaining(F), GeometriesWithout(F), trigger)
  BY <1>3 DEF IInv, Posted
<1> QED BY <1>1, <1>2, <1>4

LEMMA DeleteKeeps ==
  ASSUME IInv, NEW f \in DOMAIN features, delete_single_moving_feature(f)
  PROVE  IInv'
<1>1. /\ features' = Remaining({f}) /\ geometries' = GeometriesWithout({f})
      /\ refused' = {} /\ UNCHANGED <<trigger, aborted, systems>>
  BY DEF delete_single_moving_feature, Answers
<1>2. Types'
  BY <1>1, RemainingKeeps DEF IInv, Types
<1>3. Posted(features, geometries, trigger)' /\ Traced(geometries, systems)'
  BY <1>1, RemainingKeeps
<1> QED BY <1>1, <1>2, <1>3 DEF IInv, Told, OneSystemIsServed

\* A posted feature has a geometry, so a batch inserts none for it, and extends
\* only those of its own SRID.
LEMMA BatchKeeps ==
  ASSUME IInv, NEW c \in CollectionIds, NEW F \in SUBSET FeatureIds, NEW crs \in Systems,
         post_bulk(c, F, crs)
  PROVE  IInv'
<1> DEFINE srid == BatchSrid(crs)
           extended == UNION {RowsOf(geometries, f) : f \in F}
           inserted == {Row(f, c, srid) : f \in {g \in F : RowsOf(geometries, g) = {}}}
           C == {c} \cup {r.cid : r \in extended}
           fine == \A r \in extended : r.srid = srid
           more == Extend(features, F, Feature(c, DefaultCrs, NoNumber))
           rows == geometries \cup inserted
           touched == extended \cup inserted
<1>1. ~aborted /\ UNCHANGED trigger /\ Reads(C, crs) /\ Transaction(C, fine, more, rows, touched)
  BY DEF post_bulk
<1>2. extended \in SUBSET geometries
  BY DEF RowsOf
<1>3. C \in SUBSET CollectionIds
  BY <1>2 DEF IInv, Types, Shape, GeometryRows
<1>4. /\ systems' \in [CollectionIds -> SUBSET Systems]
      /\ \A d \in CollectionIds : systems[d] \subseteq systems'[d]
      /\ \A d \in C : crs \in systems'[d]
  <2> HIDE DEF C
  <2> QED BY <1>1, <1>3, ReadsGrow DEF IInv
<1>5. srid \in Int /\ NoNumber \in Int /\ DefaultCrs \in Crs
  BY SridsAreNumbers, CrsAssumption DEF NoNumber
<1>6. Traced(geometries, systems')
  BY <1>4, TracedGrows DEF IInv
<1>7. Traced(rows, systems')
  <2>1. SUFFICES ASSUME NEW r \in inserted
                 PROVE  \E d \in systems'[r.cid] : r.srid \in {InsertSrid(d), BatchSrid(d)}
    BY <1>6 DEF Traced
  <2>2. r.cid = c /\ r.srid = srid
    BY DEF Row
  <2> QED BY <1>4, <2>2
<1>8. Shape(more, rows)
  BY <1>5 DEF IInv, Types, Shape, Extend, Feature, FeatureRows, GeometryRows, Row
<1>9. Posted(more, rows, trigger')
  <2>1. SUFFICES ASSUME NEW g \in DOMAIN more, more[g].posted # NoNumber
                 PROVE  /\ trigger' /\ RowsIn(rows, more[g].cid, g) # {}
                        /\ \A r \in RowsIn(rows, more[g].cid, g) : r.srid = more[g].posted
    BY DEF Posted
  <2>2. g \in DOMAIN features /\ more[g] = features[g]
    BY <2>1 DEF Extend, Feature
  <2>3. /\ trigger /\ RowsIn(geometries, features[g].cid, g) # {}
        /\ \A r \in RowsIn(geometries, features[g].cid, g) : r.srid = features[g].posted
    BY <2>1, <2>2 DEF IInv, Posted
  <2>4. RowsOf(geometries, g) # {}
    BY <2>3 DEF RowsIn
  <2>5. RowsIn(rows, features[g].cid, g) = RowsIn(geometries, features[g].cid, g)
    BY <2>4 DEF RowsIn, RowsOf, Row
  <2> QED BY <1>1, <2>2, <2>3, <2>5
<1>10. \A r \in touched : r.cid \in C
  BY DEF Row
<1>11. ASSUME ~fine PROVE \E d \in C : ~Consistent(systems'[d])
  <2>1. PICK r \in extended : r.srid # srid
    BY <1>11
  <2>2. r.cid \in C /\ crs \in systems'[r.cid]
    BY <1>4
  <2>3. PICK a \in systems'[r.cid] : r.srid \in {InsertSrid(a), BatchSrid(a)}
    BY <1>2, <1>6 DEF Traced
  <2>4. systems'[r.cid] \in SUBSET Systems
    BY <1>3, <1>4, <2>2
  <2>5. ~Consistent(systems'[r.cid])
    BY <2>1, <2>2, <2>3, <2>4, ConsistentReadings
  <2> QED BY <2>2, <2>5
<1>12. touched \in SUBSET rows /\ fine \in BOOLEAN
  BY <1>2
<1>13. trigger' \in BOOLEAN /\ (trigger => trigger')
  BY <1>1 DEF IInv, Types
<1> HIDE DEF C, fine, more, rows, touched
<1> QED BY <1>1, <1>3, <1>4, <1>7, <1>8, <1>9, <1>10, <1>11, <1>12, <1>13, TransactionKeeps

\* Without a number in the crs of the feature the request is refused before it
\* writes; such a crs is read alike by no two handlers.
LEMMA GeometryKeeps ==
  ASSUME IInv, NEW f \in DOMAIN features, post_tgsequence(f)
  PROVE  IInv'
<1> DEFINE c == features[f].cid
           crs == features[f].crs
           row == {Row(f, c, FirstNumber[crs])}
           rows == geometries \cup row
<1>1. /\ ~aborted /\ UNCHANGED trigger /\ Reads({c}, crs)
      /\ IF FirstNumber[crs] = NoNumber THEN Transaction({c}, FALSE, features, geometries, {})
         ELSE Transaction({c}, TRUE, features, rows, row)
  BY DEF post_tgsequence
<1>2. c \in CollectionIds /\ crs \in Crs /\ crs \in Systems /\ crs # Absent /\ f \in FeatureIds
  BY CrsAssumption DEF IInv, Types, Shape, FeatureRows, Systems
<1>3. /\ systems' \in [CollectionIds -> SUBSET Systems]
      /\ \A d \in CollectionIds : systems[d] \subseteq systems'[d]
      /\ crs \in systems'[c]
  <2> HIDE DEF c, crs
  <2> QED BY <1>1, <1>2, ReadsGrow DEF IInv
<1>4. Traced(geometries, systems')
  BY <1>3, TracedGrows DEF IInv
<1>5. trigger' \in BOOLEAN /\ (trigger => trigger')
  BY <1>1 DEF IInv, Types
<1>6. CASE FirstNumber[crs] = NoNumber
  <2>1. ~Consistent(systems'[c])
    BY <1>2, <1>3, <1>6 DEF Consistent
  <2>2. Transaction({c}, FALSE, features, geometries, {})
    BY <1>1, <1>6
  <2> HIDE DEF c, crs
  <2> QED BY <1>1, <1>2, <1>3, <1>5, <2>1, <2>2, RefusalKeeps
<1>7. CASE FirstNumber[crs] # NoNumber
  <2>1. FirstNumber[crs] = InsertSrid(crs) /\ FirstNumber[crs] \in Int
    BY <1>2, <1>7, CrsAssumption DEF InsertSrid, NoNumber
  <2>2. Shape(features, rows)
    BY <1>2, <2>1 DEF IInv, Types, Shape, GeometryRows, Row
  <2>3. Traced(rows, systems')
    <3>1. ASSUME NEW r \in row PROVE \E d \in systems'[r.cid] : r.srid \in {InsertSrid(d), BatchSrid(d)}
      BY <1>3, <2>1 DEF Row
    <3> QED BY <1>4, <3>1 DEF Traced
  <2>4. ASSUME ~(trigger' /\ TriggerRaises(features, rows, row))
        PROVE  Posted(features, rows, trigger')
    <3>1. SUFFICES ASSUME NEW g \in DOMAIN features, features[g].posted # NoNumber
                   PROVE  /\ trigger' /\ RowsIn(rows, features[g].cid, g) # {}
                          /\ \A r \in RowsIn(rows, features[g].cid, g) : r.srid = features[g].posted
      BY DEF Posted
    <3>2. /\ trigger /\ RowsIn(geometries, features[g].cid, g) # {}
          /\ \A r \in RowsIn(geometries, features[g].cid, g) : r.srid = features[g].posted
      BY <3>1 DEF IInv, Posted
    <3>3. RowsIn(geometries, features[g].cid, g) \subseteq RowsIn(rows, features[g].cid, g)
      BY DEF RowsIn, RowsOf
    <3>4. ASSUME NEW r \in RowsIn(rows, features[g].cid, g), r \notin geometries
          PROVE  r.srid = features[g].posted
      <4>1. r \in row /\ r.fid = g /\ r.cid = features[g].cid
        BY <3>4 DEF RowsIn, RowsOf
      <4>2. ~TriggerRaises(features, rows, row)
        BY <1>5, <2>4, <3>2
      <4>3. OneSrid(RowsIn(rows, r.cid, r.fid))
        BY <4>1, <4>2 DEF TriggerRaises
      <4>4. PICK s \in RowsIn(geometries, features[g].cid, g) : TRUE
        BY <3>2
      <4>5. r.srid = s.srid
        BY <3>3, <4>1, <4>3, <4>4 DEF OneSrid
      <4> QED BY <3>2, <4>4, <4>5
    <3>5. ASSUME NEW r \in RowsIn(rows, features[g].cid, g), r \in geometries
          PROVE  r.srid = features[g].posted
      BY <3>2, <3>5 DEF RowsIn, RowsOf
    <3> QED BY <1>5, <3>2, <3>3, <3>4, <3>5
  <2>5. Transaction({c}, TRUE, features, rows, row)
    BY <1>1, <1>7
  <2>6. (\A r \in row : r.cid = c) /\ row \in SUBSET rows
    BY DEF Row
  <2> HIDE DEF c, crs, row, rows
  <2> QED BY <1>1, <1>2, <1>3, <1>5, <2>2, <2>3, <2>4, <2>5, <2>6, WriteKeeps
<1> QED BY <1>6, <1>7

\* Removing a member leaves a geometry of the feature.
LEMMA MemberKeeps ==
  ASSUME IInv, NEW f \in DOMAIN features, NEW kept \in SUBSET RowsIn(geometries, features[f].cid, f),
         delete_single_temporal_primitive_geo(f, kept)
  PROVE  IInv'
<1> DEFINE c == features[f].cid
           rows == (geometries \ RowsIn(geometries, c, f)) \cup kept
<1>1. /\ ~aborted /\ kept # {} /\ UNCHANGED <<trigger, systems>>
      /\ Transaction({c}, TRUE, features, rows, kept)
  BY DEF delete_single_temporal_primitive_geo
<1>2. c \in CollectionIds
  BY DEF IInv, Types, Shape, FeatureRows
<1>3. rows \in SUBSET geometries /\ kept \in SUBSET rows /\ \A r \in kept : r.cid = c
  BY DEF RowsIn, RowsOf
<1>4. Shape(features, rows) /\ Traced(rows, systems')
  BY <1>1, <1>3 DEF IInv, Types, Shape, Traced
<1>5. Posted(features, rows, trigger')
  <2>1. SUFFICES ASSUME NEW g \in DOMAIN features, features[g].posted # NoNumber
                 PROVE  /\ trigger' /\ RowsIn(rows, features[g].cid, g) # {}
                        /\ \A r \in RowsIn(rows, features[g].cid, g) : r.srid = features[g].posted
    BY DEF Posted
  <2>2. /\ trigger /\ RowsIn(geometries, features[g].cid, g) # {}
        /\ \A r \in RowsIn(geometries, features[g].cid, g) : r.srid = features[g].posted
    BY <2>1 DEF IInv, Posted
  <2>3. RowsIn(rows, features[g].cid, g) \subseteq RowsIn(geometries, features[g].cid, g)
    BY <1>3 DEF RowsIn, RowsOf
  <2>4. RowsIn(rows, features[g].cid, g) # {}
    <3>1. CASE g = f
      BY <1>1, <3>1 DEF RowsIn, RowsOf
    <3>2. CASE g # f
      BY <2>2, <3>2 DEF RowsIn, RowsOf
    <3> QED BY <3>1, <3>2
  <2> QED BY <1>1, <2>2, <2>3, <2>4
<1>6. /\ systems' \in [CollectionIds -> SUBSET Systems] /\ trigger' \in BOOLEAN
      /\ (trigger => trigger') /\ \A d \in CollectionIds : systems[d] \subseteq systems'[d]
  BY <1>1 DEF IInv, Types
<1> HIDE DEF c, rows
<1> QED BY <1>1, <1>2, <1>3, <1>4, <1>5, <1>6, WriteKeeps

\* Describing collections fails only over one that was told of two systems, or
\* in a session that such a failure left aborted.
LEMMA DescribeKeeps ==
  ASSUME IInv, NEW C \in SUBSET CollectionIds, Describe(C)
  PROVE  IInv'
<1> DEFINE ok == ~aborted /\ \A c \in C : OneSrid(RowsUnder(geometries, c))
           about == IF aborted THEN CollectionIds ELSE C
<1>1. /\ aborted' = ~ok /\ refused' = IF ok THEN {} ELSE about
      /\ UNCHANGED <<features, geometries, trigger, systems>>
  BY DEF Describe, Answers
<1>2. ASSUME ~ok PROVE \E c \in about : ~Consistent(systems[c])
  <2>1. CASE aborted
    BY <2>1 DEF IInv, Told
  <2>2. CASE ~aborted
    <3>1. PICK c \in C : ~OneSrid(RowsUnder(geometries, c))
      BY <1>2, <2>2
    <3>2. PICK r \in geometries, s \in geometries : r.cid = c /\ s.cid = c /\ r.srid # s.srid
      BY <3>1 DEF OneSrid, RowsUnder
    <3>3. ~Consistent(systems[r.cid])
      BY <3>1, <3>2, TwoSrids DEF IInv, Types
    <3> QED BY <2>2, <3>1, <3>2, <3>3
  <2> QED BY <2>1, <2>2
<1>3. Types'
  BY <1>1 DEF IInv, Types
<1>4. Posted(features, geometries, trigger)' /\ Traced(geometries, systems)'
  BY <1>1 DEF IInv, Posted, Traced
<1>5. Told' /\ OneSystemIsServed'
  BY <1>1, <1>2 DEF Told, OneSystemIsServed
<1> QED BY <1>3, <1>4, <1>5 DEF IInv

LEMMA AfterFailedReadKeeps ==
  ASSUME IInv, AfterFailedRead
  PROVE  IInv'
<1>1. /\ aborted /\ aborted' = FALSE /\ refused' = CollectionIds
      /\ UNCHANGED <<features, geometries, trigger, systems>>
  BY DEF AfterFailedRead, Answers
<1>2. Types'
  BY <1>1 DEF IInv, Types
<1>3. Posted(features, geometries, trigger)' /\ Traced(geometries, systems)'
  BY <1>1 DEF IInv, Posted, Traced
<1> QED BY <1>1, <1>2, <1>3 DEF IInv, Told, OneSystemIsServed

-----------------------------------------------------------------------------
(* The theorems.                                                           *)

LEMMA Initially == Init => IInv
BY DEF Init, IInv, Types, Shape, Posted, Traced, Told, OneSystemIsServed, GeometryRows, FeatureRows

LEMMA Step == IInv /\ [Next]_vars => IInv'
<1> SUFFICES ASSUME IInv, [Next]_vars PROVE IInv'
  OBVIOUS
<1>1. ASSUME NEW crs \in Systems, NEW moves \in BOOLEAN, NEW c \in CollectionIds,
             NEW f \in FeatureIds, post_collection_items(c, f, crs, moves)
      PROVE  IInv'
  BY <1>1, InsertKeeps DEF post_collection_items, IInv, Types
<1>2. ASSUME NEW crs \in Systems, NEW moves \in BOOLEAN, NEW f \in DOMAIN features,
             put_single_moving_feature(f, crs, moves)
      PROVE  IInv'
  <2>1. features[f].cid \in CollectionIds /\ f \in FeatureIds
    BY DEF IInv, Types, Shape, FeatureRows
  <2> QED BY <1>2, <2>1, InsertKeeps, RemainingKeeps DEF put_single_moving_feature
<1>3. ASSUME NEW c \in CollectionIds, NEW F \in SUBSET FeatureIds, NEW crs \in Systems,
             post_bulk(c, F, crs)
      PROVE  IInv'
  BY <1>3, BatchKeeps
<1>4. ASSUME NEW f \in DOMAIN features, delete_single_moving_feature(f) PROVE IInv'
  BY <1>4, DeleteKeeps
<1>5. ASSUME NEW f \in DOMAIN features, post_tgsequence(f) PROVE IInv'
  BY <1>5, GeometryKeeps
<1>6. ASSUME NEW f \in DOMAIN features, NEW kept \in SUBSET RowsIn(geometries, features[f].cid, f),
             delete_single_temporal_primitive_geo(f, kept)
      PROVE  IInv'
  BY <1>6, MemberKeeps
<1>7. CASE get_collections
  BY <1>7, DescribeKeeps DEF get_collections
<1>8. ASSUME NEW c \in CollectionIds, get_collection_id(c) PROVE IInv'
  BY <1>8, DescribeKeeps DEF get_collection_id
<1>9. CASE AfterFailedRead
  BY <1>9, AfterFailedReadKeeps
<1>10. CASE UNCHANGED vars
  BY <1>10 DEF vars, IInv, Types, Shape, Posted, Traced, Told, OneSystemIsServed
<1> QED BY <1>1, <1>2, <1>3, <1>4, <1>5, <1>6, <1>7, <1>8, <1>9, <1>10 DEF Next, Systems

THEOREM Invariant == Spec => []IInv
BY Initially, Step, PTL DEF Spec

\* A feature that was posted with a trajectory keeps to its SRID, whatever the
\* handlers make of whatever bodies: appendInstant and the trigger see to it.
THEOREM PostedFeaturesKeepTheirSystem == Spec => []PostedInItsSystem
<1>1. IInv => PostedInItsSystem
  BY DEF IInv, Posted, PostedInItsSystem
<1> QED BY <1>1, Invariant, PTL

\* Clients of one system, read alike by all handlers, or of none, are served.
THEOREM ClientsOfOneSystemAreServed == Spec => []OneSystemIsServed
<1>1. IInv => OneSystemIsServed
  BY DEF IInv
<1> QED BY <1>1, Invariant, PTL
=============================================================================
