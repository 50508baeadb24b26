--------------------------- MODULE PropertyReads ---------------------------
(***************************************************************************)
(* What get_temporal_property and get_tproperties show of the values that  *)
(* the handlers of TemporalProperties wrote: whole segments, the segments  *)
(* of an interval, or with subTemporalValue the values inside it.          *)
(*                                                                         *)
(* The tables carry no interpolation, so every operator that groups by it  *)
(* takes it as an argument: a function of the rows of temporal_values.  A  *)
(* value that is shown is told by its timestamp.                           *)
(***************************************************************************)
EXTENDS MobilityAPI

CONSTANTS NameOrder,  \* pairs of property names: the first sorts before the second
          Limits      \* the limits that clients give

ASSUME NameOrderAssumption ==
  /\ \A n \in PropertyNames : <<n, n>> \notin NameOrder
  /\ \A k, m, n \in PropertyNames :
        <<k, m>> \in NameOrder /\ <<m, n>> \in NameOrder => <<k, n>> \in NameOrder
  /\ \A m, n \in PropertyNames : m = n \/ <<m, n>> \in NameOrder \/ <<n, m>> \in NameOrder
ASSUME LimitsAssumption == Limits \subseteq Nat

Interpolations == {"Linear", "Step"}

TimesOf(db, v) == db.values[v].times
\* unnest(datetimes) WHERE d.t >= lo AND d.t <= hi: places in the array
Within(db, v, lo, hi) == {i \in DOMAIN TimesOf(db, v) : TimesOf(db, v)[i] \in lo..hi}

\* ... joined with the values, d.idx = v.idx2: the places that have one
Valued(db, v, lo, hi) == Within(db, v, lo, hi) \cap DOMAIN db.values[v].values

\* v.val::float goes through for all of them.
Castable(db, rows, lo, hi) ==
  \A v \in rows : \A i \in Valued(db, v, lo, hi) : db.values[v].values[i] = "number"

\* The rows of such a join, <<row, place>>, of the places of each row.
PlacesIn(places) == UNION {{v} \X places[v] : v \in DOMAIN places}

\* ORDER BY: none comes after one that it precedes.  Between equals the order
\* is the database's.
Orders(rows, precedes) ==
  {s \in Bijection(1..Cardinality(rows), rows) :
     \A m, n \in DOMAIN s : m < n => <<s[n], s[m]>> \notin precedes}
Ordered(rows, precedes) == CHOOSE s \in Orders(rows, precedes) : TRUE

\* LIMIT
FirstOf(s, limit) == SubSeq(s, 1, Smaller(limit, Len(s)))

\* ORDER BY datetimes[1], NULL last
ByFirst(db, rows) ==
  {r \in rows \X rows : LET s == TimesOf(db, r[1])
                            t == TimesOf(db, r[2])
                        IN  s # <<>> /\ (t = <<>> \/ Head(s) < Head(t))}

\* Without a datetime.
AllSegments(db, p) ==
  LET rows == ValuesOf(db, p)
      inOrder == Ordered(rows, ByFirst(db, rows))
  IN  [n \in DOMAIN inOrder |-> TimesOf(db, inOrder[n])]

\* With an interval: the join with unnest gives a row once for each of its
\* timestamps inside.
SegmentsIn(db, p, lo, hi) ==
  LET rows == ValuesOf(db, p)
      places == PlacesIn([v \in rows |-> Within(db, v, lo, hi)])
      inOrder == Ordered(places, {r \in places \X places : <<r[1][1], r[2][1]>> \in ByFirst(db, rows)})
  IN  [n \in DOMAIN inOrder |-> TimesOf(db, inOrder[n][1])]

\* GROUP BY interpolation, for the rows that have values inside.
GroupsIn(db, p, interpolation, lo, hi) ==
  LET rows == {v \in ValuesOf(db, p) : Valued(db, v, lo, hi) # {}}
  IN  {{v \in rows : interpolation[v] = i} : i \in Interpolations} \ {{}}

\* array_agg(d.t ORDER BY d.idx) over a group: by place in the array, whatever
\* row it is of.
Aggregated(db, group, lo, hi) ==
  LET places == PlacesIn([v \in group |-> Valued(db, v, lo, hi)])
      inOrder == Ordered(places, {r \in places \X places : r[1][2] < r[2][2]})
  IN  [n \in DOMAIN inOrder |-> TimesOf(db, inOrder[n][1])[inOrder[n][2]]]

Display(segments) == [status |-> 200, segments |-> segments]
CannotCast == [status |-> 500]

\* get_temporal_property with subTemporalValue fetches one group, whichever
\* comes first; all of them are cast.
SubValues(db, p, interpolation, lo, hi) ==
  LET groups == GroupsIn(db, p, interpolation, lo, hi)
  IN  IF ~Castable(db, ValuesOf(db, p), lo, hi) THEN {CannotCast}
      ELSE IF groups = {} THEN {Display(<<>>)}
      ELSE {Display(<<Aggregated(db, G, lo, hi)>>) : G \in groups}

FaultyNamesIn_firstTimestamp(db, f, lo, hi, limit) ==
  LET found == {p \in PropertiesOf(db, f) : \E v \in ValuesOf(db, p) : 1 \in Within(db, v, lo, hi)}
  IN  FirstOf(Ordered({db.properties[p].name : p \in found}, NameOrder), Capped(limit))
\* get_tproperties with an interval: properties with a timestamp inside.
NamesIn(db, f, lo, hi, limit) ==
  LET found == {p \in PropertiesOf(db, f) : \E v \in ValuesOf(db, p) : Within(db, v, lo, hi) # {}}
  IN  FirstOf(Ordered({db.properties[p].name : p \in found}, NameOrder), Capped(limit))

\* ... and with subTemporalValue: <<property, group>>, ORDER BY property_name
SubRows(db, f, interpolation, lo, hi) ==
  UNION {{q} \X GroupsIn(db, q, interpolation, lo, hi) : q \in PropertiesOf(db, f)}
Precedes(db, p, q) == <<db.properties[p].name, db.properties[q].name>> \in NameOrder
ByName(db, rows) == {r \in rows \X rows : Precedes(db, r[1][1], r[2][1])}

\* One object: its datetimes are those of the first row, and under each name it
\* has the values of the last row of that name.
ListOf(db, page, lo, hi) ==
  LET RowsFor(q) == {n \in DOMAIN page : page[n][1] = q}
      LastFor(q) == CHOOSE n \in RowsFor(q) : \A m \in RowsFor(q) : m <= n
  IN  [status |-> 200,
       datetimes |-> IF page = <<>> THEN <<>> ELSE Aggregated(db, page[1][2], lo, hi),
       values |-> [q \in {page[n][1] : n \in DOMAIN page} |->
                     Aggregated(db, page[LastFor(q)][2], lo, hi)]]

\* Groups beyond the limit may be cast or not.
SubLists(db, f, interpolation, lo, hi, limit) ==
  LET rows == SubRows(db, f, interpolation, lo, hi)
      Casts(r) == Castable(db, r[2], lo, hi)
      pages == {FirstOf(s, Capped(limit)) : s \in Orders(rows, ByName(db, rows))}
  IN  {ListOf(db, page, lo, hi) : page \in {s \in pages : \A n \in DOMAIN s : Casts(s[n])}}
        \cup IF \A r \in rows : Casts(r) THEN {} ELSE {CannotCast}

-----------------------------------------------------------------------------
(* Properties, of what is committed between two requests.                  *)

AllTimes(segments) == UNION {ToSet(s) : s \in ToSet(segments)}
InTimeOrder(segments) ==
  /\ \A s \in ToSet(segments) : \A i, j \in DOMAIN s : i < j => s[i] < s[j]
  /\ \A m, n \in DOMAIN segments : m < n =>
       \A t \in ToSet(segments[m]), u \in ToSet(segments[n]) : t < u
Interval == {I \in Instants \X Instants : I[1] <= I[2]}
OneInterpolation(db, interpolation) ==
  \A v, w \in DOMAIN db.values : interpolation[v] = interpolation[w]

\* Timestamps of a property without a value, and with one that is no number.
Lacking(db, p) ==
  UNION {{TimesOf(db, v)[i] : i \in DOMAIN TimesOf(db, v) \ DOMAIN db.values[v].values} :
         v \in ValuesOf(db, p)}
NoNumber(db, p) ==
  UNION {{TimesOf(db, v)[i] : i \in {j \in DOMAIN TimesOf(db, v) \cap DOMAIN db.values[v].values :
                                       db.values[v].values[j] # "number"}} :
         v \in ValuesOf(db, p)}

\* Of the timestamps inside, the values that are shown with subTemporalValue.
ShowsInside(db, p, inside, interpolation, answer) ==
  IF inside \cap NoNumber(db, p) # {} THEN answer = CannotCast
  ELSE /\ answer.status = 200 /\ \A s \in ToSet(answer.segments) : IsInjective(s)
       /\ AllTimes(answer.segments) \subseteq inside \ Lacking(db, p)
       /\ OneInterpolation(db, interpolation) =>
            AllTimes(answer.segments) = inside \ Lacking(db, p)

\* A property is read in the order of time, every timestamp once, because each
\* write was checked against the end of those before; only the timestamps that
\* it was created with, the first ones, can lack a value.  "No segment [but one
\* that] intersects the requested interval" is shown for an interval.  With
\* subTemporalValue it fails if a value inside is no number; otherwise nothing
\* outside is shown, and all values inside unless the interpolation changes.
ReadsShowTheValues ==
  pc = "idle" =>
    \A p \in DOMAIN disk.properties :
      LET all == AllSegments(disk, p) IN
        /\ InTimeOrder(all) /\ ToSet(all) = {TimesOf(disk, v) : v \in ValuesOf(disk, p)}
        /\ \A n \in DOMAIN all : n > 1 => ToSet(all[n]) \cap Lacking(disk, p) = {}
        /\ \A I \in Interval :
             LET inside == AllTimes(all) \cap I[1]..I[2]
             IN  /\ ToSet(SegmentsIn(disk, p, I[1], I[2])) =
                      {s \in ToSet(all) : ToSet(s) \cap inside # {}}
                 /\ \A interpolation \in [DOMAIN disk.values -> Interpolations] :
                    \A answer \in SubValues(disk, p, interpolation, I[1], I[2]) :
                      ShowsInside(disk, p, inside, interpolation, answer)

\* A list of at most limit properties P, out of those in shown: the first ones by
\* their names.
FirstByName(db, P, shown) ==
  /\ P \subseteq shown
  /\ \A p \in P, q \in shown : Precedes(db, q, p) => q \in P

\* The names of an interval are the first of those of the properties of which
\* the other handler shows something there, each once, as many as the limit asks
\* for or as there are.
NamesAgree(db, names, shown, limit) ==
  \E P \in SUBSET shown :
    /\ FirstByName(db, P, shown) /\ Cardinality(P) = Smaller(Capped(limit), Cardinality(shown))
    /\ ToSet(names) = {db.properties[p].name : p \in P} /\ Len(names) = Cardinality(P)

\* The list with subTemporalValue has those of the first properties that the
\* other handler answers something for, one of its Answers under each name; with
\* one interpolation as many as the limit asks for, and the datetimes of the
\* first.  It fails only if the other handler does.
ListAgrees(db, list, Answers, limit, one) ==
  IF list = CannotCast THEN \E p \in DOMAIN Answers : CannotCast \in Answers[p]
  ELSE LET shown == {p \in DOMAIN Answers : Answers[p] # {Display(<<>>)}}
           P == DOMAIN list.values
       IN  /\ FirstByName(db, P, shown)
           /\ \A p \in P : {CannotCast, Display(<<list.values[p]>>)} \cap Answers[p] # {}
           /\ one => /\ Cardinality(P) = Smaller(Capped(limit), Cardinality(shown))
                     /\ \A p \in P : (\A q \in P : ~Precedes(db, q, p)) =>
                          list.values[p] = list.datetimes

\* The list of the properties of a feature agrees with what is shown of each,
\* whatever the limit.
ListAgreesWithReads ==
  pc = "idle" =>
    \A f \in DOMAIN disk.features, I \in Interval, limit \in Limits :
      /\ NamesAgree(disk, NamesIn(disk, f, I[1], I[2], limit),
                    {p \in PropertiesOf(disk, f) : SegmentsIn(disk, p, I[1], I[2]) # <<>>}, limit)
      /\ \A interpolation \in [DOMAIN disk.values -> Interpolations] :
         \A list \in SubLists(disk, f, interpolation, I[1], I[2], limit) :
           ListAgrees(disk, list,
                      [p \in PropertiesOf(disk, f) |-> SubValues(disk, p, interpolation, I[1], I[2])],
                      limit, OneInterpolation(disk, interpolation))
=============================================================================
