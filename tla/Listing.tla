------------------------------ MODULE Listing ------------------------------
(***************************************************************************)
(* What GET /collections/{c}/items shows of the tables, page by page, and  *)
(* what the export feed of the same collection shows.                      *)
(*                                                                         *)
(* Both join features with their geometries, so a row is a feature with    *)
(* one of its geometries, or with none.  A member of a trajectory is       *)
(* continuous between its first and its last instant; between members      *)
(* there are gaps.  Positions, and with them the bbox filter, are left out.*)
(***************************************************************************)
EXTENDS Database

CONSTANTS NoTime,    \* a bound that a datetime parameter does not give
          RowGroup   \* rows in a row group of a Parquet feed (1024)

ASSUME RowGroupAssumption == RowGroup \in Nat \ {0}

\* limit, datetime, subTrajectory and leaf, as the client gives them.
Search == [limit : Int, from : Instants \cup {NoTime}, to : Instants \cup {NoTime},
           sub : BOOLEAN, leaf : BOOLEAN]

NoGeometry == 0
RowsOf(db, f, geometries) ==
  {[fid |-> f, gid |-> g] : g \in IF geometries = {} THEN {NoGeometry} ELSE geometries}

FeaturesOf(db, c) == {f \in DOMAIN db.features : db.features[f].cid = c}

\* moving_features LEFT JOIN temporal_geometries ON mf.id = tg.feature_id
ListedRows(db, c) == UNION {RowsOf(db, f, GeometriesOf(db, f)) : f \in FeaturesOf(db, c)}

\* ... AND mf.collection_id = tg.collection_id
ExportedRows(db, c) ==
  UNION {RowsOf(db, f, GeometriesIn(db, c, f)) : f \in FeaturesOf(db, c)}

-----------------------------------------------------------------------------
(* The parameters.                                                         *)

\* subTrajectory excludes leaf and needs an interval with both ends.
Contradicts(q) == q.sub /\ (q.leaf \/ q.from = NoTime \/ q.to = NoTime)
\* Errors of the database: LIMIT -1, and a tstzspan that ends before it starts.
Fails(q) == q.limit < 0 \/ (NoTime \notin {q.from, q.to} /\ q.from > q.to)

\* The interval the WHERE clause tests: without a second end it is the instant
\* of the first, without a first end there is none.
Filters(q)  == q.from # NoTime
Lower(q) == q.from
Upper(q) == IF q.to = NoTime THEN q.from ELSE q.to

Trajectory(db, row) ==
  IF row.gid = NoGeometry THEN Null ELSE db.geometries[row.gid].traj

\* trajectory && tstzspan: the bounding intervals overlap; NULL does not.
Overlaps(traj, lo, hi) ==
  (\E t \in InstantsOf(traj) : t <= hi) /\ (\E t \in InstantsOf(traj) : t >= lo)

Matching(db, c, q) ==
  {row \in ListedRows(db, c) :
     Filters(q) => Overlaps(Trajectory(db, row), Lower(q), Upper(q))}

-----------------------------------------------------------------------------
(* The page.                                                               *)

\* ORDER BY created_at LIMIT limit.  Features of one batch have the same
\* created_at, and rows of one feature too: their order is the database's.
Pages(rows, created, limit) ==
  {P \in SUBSET rows :
     /\ Cardinality(P) = Smaller(limit, Cardinality(rows))
     /\ \A r \in P, s \in rows \ P : created[r.fid] <= created[s.fid]}

\* atTime(trajectory, [lo, hi]): each member keeps what is in the interval, and
\* is interpolated at its ends.
Cut(member, lo, hi) ==
  {t \in member \cup {lo, hi} :
     t \in lo..hi /\ (\E u \in member : u <= t) /\ (\E u \in member : t <= u)}
KeepPart(parts, part) == IF part = {} THEN parts ELSE Append(parts, part)
AtTime(traj, lo, hi) ==
  FoldLeft(LAMBDA parts, member : KeepPart(parts, Cut(member, lo, hi)), <<>>, traj)

\* The trajectory shown: with subTrajectory the part in the interval, unless
\* there is none.
FaultyShown_uncut(db, row, q) == Trajectory(db, row)
Shown(db, row, q) ==
  LET traj == Trajectory(db, row)
      part == AtTime(traj, q.from, q.to)
  IN  IF traj # Null /\ q.sub /\ part # Null THEN part ELSE traj

\* MF-JSON has datetimes for a single sequence, and sequences for several; the
\* handler reads the former only.  leaf keeps the last.
Datetimes(db, row, q) ==
  IF Len(Trajectory(db, row)) # 1 THEN {}
  ELSE LET times == Shown(db, row, q)[1]
       IN  IF q.leaf THEN {t \in times : \A u \in times : u <= t} ELSE times

\* json.loads of a geometry column that is NULL raises, unless the part of the
\* trajectory in the interval came with a geometry of its own.
Unlistable(db, row, q) ==
  /\ Trajectory(db, row) # Null /\ ~db.geometries[row.gid].geometry
  /\ q.sub => AtTime(Trajectory(db, row), q.from, q.to) = Null

\* The next link repeats limit and datetime, and adds an offset; subTrajectory
\* and leaf are gone, and no handler reads an offset.
NoLink == [follow |-> FALSE]
NextLink(q) == [follow |-> TRUE, search |-> [q EXCEPT !.sub = FALSE, !.leaf = FALSE]]

Listed(code, items, matched, returned, next) ==
  [code |-> code, items |-> items, matched |-> matched, returned |-> returned, next |-> next]
Error(code) == Listed(code, {}, 0, 0, NoLink)
NoAnswerYet == Error(0)

FaultyLinkAfter_perFeature(P, matched, q) ==
  IF Cardinality({r.fid : r \in P}) = q.limit THEN NextLink(q) ELSE NoLink
\* total_count > limit
LinkAfter(P, matched, q) == IF matched > q.limit THEN NextLink(q) ELSE NoLink

PageOf(db, P, matched, q) ==
  IF \E r \in P : Unlistable(db, r, q) THEN Error(500)
  ELSE IF P = {} THEN Listed(200, {}, 0, 0, NoLink)
  ELSE Listed(200,
              {[row |-> r, shown |-> Shown(db, r, q), datetimes |-> Datetimes(db, r, q)] : r \in P},
              matched, Cardinality({r.fid : r \in P}), LinkAfter(P, matched, q))

\* No limit is above 10000.
Bounded(search) == [search EXCEPT !.limit = Capped(@)]

\* The answers get_collection_items may give.
get_collection_items(db, created, c, search) ==
  LET q == Bounded(search)
      rows == Matching(db, c, q)
  IN  IF Contradicts(q) THEN {Error(400)}
      ELSE IF ~HasCollection(db, c) THEN {Error(404)}
      ELSE IF Fails(q) THEN {Error(500)}
      ELSE {PageOf(db, P, Cardinality(rows), q) : P \in Pages(rows, created, q.limit)}

-----------------------------------------------------------------------------
(* The export feed.                                                        *)

Feed(parts) == [code |-> 200, feed |-> parts, next |-> NoLink]

FaultyFlush_whenFull(batch) ==
  IF Len(batch.cols) < RowGroup THEN batch
  ELSE [groups |-> Append(batch.groups, batch.cols), cols |-> <<>>]
\* flush: what was collected becomes a row group.
Flush(batch) ==
  IF batch.cols = <<>> THEN batch
  ELSE [groups |-> Append(batch.groups, batch.cols), cols |-> <<>>]

Collect(batch, row) ==
  LET more == [batch EXCEPT !.cols = Append(@, row)]
  IN  IF Len(more.cols) >= RowGroup THEN Flush(more) ELSE more

\* Rows come from a cursor, which may fail, and go to a client, which may hang
\* up.  NDJSON answers 200 and then writes row by row, a failure ends the feed;
\* Parquet answers when it has all row groups, a failure leaves no answer.
export_collection(db, c, format) ==
  LET rows == SetToSeq(ExportedRows(db, c))
  IN  IF ~HasCollection(db, c) THEN {Error(404)}
      ELSE IF format = "parquet"
      THEN {Feed(Flush(FoldLeft(Collect, [groups |-> <<>>, cols |-> <<>>], rows)).groups),
            NoAnswerYet}
      ELSE {Feed(<<SubSeq(rows, 1, n)>>) : n \in 0..Len(rows)}
=============================================================================
