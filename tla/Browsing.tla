------------------------------ MODULE Browsing ------------------------------
(***************************************************************************)
(* A client that browses collections while others change them: its request *)
(* lines go through the router, and the listing it reaches answers a page  *)
(* with, perhaps, a link to follow.  The changes are what the handlers of  *)
(* MobilityAPI commit, one transaction each; created_at is the time of the *)
(* transaction.                                                            *)
(***************************************************************************)
EXTENDS Routing, Listing

CONSTANTS Searches,   \* the queries clients ask of a listing
          Recorded,   \* the trajectories of posted features
          MaxTime     \* bound on the number of transactions that insert rows

ASSUME SearchesAssumption == Searches \subseteq Search /\ Recorded \subseteq Trajectories

VARIABLES db,        \* the committed database
          created,   \* moving_features.created_at
          now,       \* the time of the next transaction
          asked,     \* the request being served, or NothingAsked
          reached,   \* the handler it reached, with its arguments
          page       \* the answer, if that was get_collection_items

tables == <<db, created, now>>
vars   == <<tables, asked, reached, page>>

-----------------------------------------------------------------------------
(* Other clients.                                                          *)

NextGeometry(d) == CHOOSE g \in 1..Cardinality(DOMAIN d.geometries) + 1 : g \notin DOMAIN d.geometries

\* The features that transaction brings are created now.
Transaction(new) ==
  /\ db' = new
  /\ created' = [f \in DOMAIN new.features |-> IF f \in DOMAIN created THEN created[f] ELSE now]
  /\ now' = now + 1
  /\ UNCHANGED <<asked, reached, page>>

\* insert_feature, for a feature without or with a temporalGeometry
PostFeature(c, f, traj) ==
  LET row == InsertFeatureRow(db, f, c)
  IN  /\ f \notin DOMAIN db.features
      /\ Transaction(IF traj = Null THEN row
                     ELSE InsertGeometryRow(row, NextGeometry(db), f, c, traj, TRUE))

\* append_observations, for one observation
AppendObservation(d, c, f, t) ==
  LET row == IF f \in DOMAIN d.features THEN d ELSE InsertFeatureRow(d, f, c)
      G   == GeometriesOf(d, f)
  IN  IF G = {} THEN InsertGeometryRow(row, NextGeometry(d), f, c, <<{t}>>, FALSE)
      ELSE UpdateTrajectories(row, [g \in G |-> AppendInstant(d.geometries[g].traj, {t})])

\* post_bulk, for a batch with one observation of each feature in F at time t
LoadBatch(c, F, t) ==
  /\ IsFiniteSet(F)
  /\ \A f \in F, g \in DOMAIN db.geometries : db.geometries[g].fid = f =>
        \A u \in InstantsOf(db.geometries[g].traj) : u < t
  /\ Transaction(FoldSet(LAMBDA f, d : AppendObservation(d, c, f, t), db, F))

\* post_tgsequence: another row for a feature
PostGeometry(f, traj) ==
  Transaction(InsertGeometryRow(db, NextGeometry(db), f, db.features[f].cid, traj, TRUE))

RemoveFeature(f) ==
  /\ db' = DeleteFeatures(db, {f})
  /\ created' = Restrict(created, DOMAIN created \ {f})
  /\ UNCHANGED <<now, asked, reached, page>>

-----------------------------------------------------------------------------
(* The client.                                                             *)

NothingAsked == [handler |-> "none"]
AllItems == [limit |-> 10, from |-> NoTime, to |-> NoTime, sub |-> FALSE, leaf |-> FALSE]

\* How a search is written: datetime=a/b has a slash.
QueryOf(q) == IF q = AllItems THEN "none" ELSE IF q.to = NoTime THEN "plain" ELSE "slash"

Line(handler, ids, query, q) ==
  [handler |-> handler, line |-> Request(handler, ids, query), search |-> q,
   means |-> Documented(handler, ids)]

\* The documented requests.
Lines ==
  {Line("get_collection_items", ids, QueryOf(q), q) : ids \in Ids, q \in Searches}
    \cup {Line(h, ids, "none", AllItems) : h \in Endpoints, ids \in Ids}
    \cup {Line(h, ids, query, AllItems) : h \in Querying \ {"get_collection_items"},
                                          ids \in Ids, query \in Queries}

\* ?format=parquet; any other query string leaves NDJSON.
FormatOf(query) == IF query = "plain" THEN "parquet" ELSE "ndjson"

Send(line) ==
  /\ asked' = line
  /\ reached' = Dispatch(line.line.method, line.line.target)
  /\ page' \in IF reached'.handler = "get_collection_items"
               THEN get_collection_items(db, created, reached'.args[1].text, line.search)
               ELSE IF reached'.handler = "export_collection"
               THEN export_collection(db, reached'.args[1].text, FormatOf(line.line.target.query))
               ELSE {NoAnswerYet}
  /\ UNCHANGED tables

Ask == asked = NothingAsked /\ \E line \in Lines : Send(line)

\* The href of the next link.
Follow ==
  /\ page.next.follow
  /\ LET q == page.next.search IN
     Send([asked EXCEPT !.search = q,
             !.line.target.query = IF q.to = NoTime THEN "plain" ELSE "slash"])

Read ==
  /\ asked # NothingAsked
  /\ asked' = NothingAsked /\ reached' = NoAnswer /\ page' = NoAnswerYet
  /\ UNCHANGED tables

Init ==
  /\ db = [EmptyDatabase EXCEPT !.ddl = TableGroups,
             !.collections = [c \in CollectionIds |-> CHOOSE title \in Titles : TRUE]]
  /\ created = NoRows /\ now = 1
  /\ asked = NothingAsked /\ reached = NoAnswer /\ page = NoAnswerYet

Change ==
  /\ asked = NothingAsked
  /\ \/ /\ now <= MaxTime
        /\ \/ \E c \in CollectionIds, f \in FeatureIds, traj \in Recorded \cup {Null} :
                PostFeature(c, f, traj)
           \/ \E c \in CollectionIds, F \in SUBSET FeatureIds \ {{}}, t \in Instants :
                LoadBatch(c, F, t)
           \/ \E f \in DOMAIN db.features, traj \in Recorded : PostGeometry(f, traj)
     \/ \E f \in DOMAIN db.features : RemoveFeature(f)

Next == Change \/ Ask \/ Follow \/ Read
Spec == Init /\ [][Next]_vars

-----------------------------------------------------------------------------
(* Properties.                                                             *)

Serving == asked # NothingAsked
PlainNames == \A n \in DOMAIN asked.means.args : WordsIn[asked.means.args[n].text] = {}

\* The tests that do_GET and its like make one after the other on the whole path
\* pick, for every documented request whose identifiers hold none of the words
\* they look for, the documented handler with those identifiers, whatever query
\* string it carries.
RoutedAsDocumented == Serving /\ PlainNames => reached = asked.means

\* Whatever the identifiers hold, a handler that writes is reached only by its
\* own documented request and with the identifiers of that request: no name makes
\* a request change something else.  The exception: under an identifier that holds
\* "tgsequence", DELETE of a temporal property reaches the handler that deletes a
\* geometry, which refuses every name that is not a number.
WritesReachWhatTheyName ==
  Serving /\ reached.handler \in Endpoints /\ Routes[reached.handler].method # "GET"
  => \/ reached = asked.means
     \/ /\ asked.handler = "delete_temporal_property"
        /\ reached = [asked.means EXCEPT !.handler = "delete_single_temporal_primitive_geo"]

\* Whether a trajectory moves within an interval: not in a gap.
MovesWithin(traj, lo, hi) ==
  \E n \in DOMAIN traj, t \in lo..hi : (\E u \in traj[n] : u <= t) /\ (\E u \in traj[n] : t <= u)

Answered == reached.handler = "get_collection_items" /\ page.code = 200
Exported == reached.handler = "export_collection" /\ page.code = 200
Browsed == reached.args[1].text

\* What a client that asks for the items of an interval, or for all, is not told
\* about is not there: an answer without a next link holds every feature and
\* every trajectory that moves then.
CompleteWithoutNext ==
  Answered /\ ~page.next.follow /\ asked.search.limit > 0
  /\ (asked.search.from = NoTime <=> asked.search.to = NoTime) =>
    \A row \in ListedRows(db, Browsed) :
       (Filters(asked.search) =>
          MovesWithin(Trajectory(db, row), asked.search.from, asked.search.to))
       => \E item \in page.items : item.row = row

\* subTrajectory shows nothing outside the interval, except of a trajectory that
\* has a gap there.
NothingOutsideTheInterval ==
  Answered /\ asked.search.sub =>
    \A item \in page.items :
       LET lo == asked.search.from
           hi == asked.search.to
       IN  IF MovesWithin(Trajectory(db, item.row), lo, hi)
           THEN InstantsOf(item.shown) # {} /\ InstantsOf(item.shown) \subseteq lo..hi
           ELSE item.shown = Trajectory(db, item.row)

\* The export feed of a collection has every row once, in groups that are full
\* except the last: every feature of the list, and every geometry except those
\* that a bulk load of another collection brought, which are in no feed at all.
\* A feed of lines may end early, although it was answered 200.
ExportHoldsTheList ==
  Exported =>
    LET fed == FlattenSeq(page.feed)
        features == {fed[n].fid : n \in DOMAIN fed}
    IN  /\ IsInjective(fed) /\ features \subseteq FeaturesOf(db, Browsed)
        /\ FormatOf(asked.line.target.query) = "parquet" =>
             /\ features = FeaturesOf(db, Browsed)
             /\ \A r \in ListedRows(db, Browsed) \ ToSet(fed) : db.geometries[r.gid].cid # Browsed
             /\ \A n \in DOMAIN page.feed : Len(page.feed[n]) = RowGroup \/ n = Len(page.feed)

\* "Next page": a page reached by following the link shows something the page
\* before did not.
NextPageIsNew ==
  [][Follow /\ Answered' =>
       ~({i.row : i \in page'.items} \subseteq {i.row : i \in page.items})]_vars
=============================================================================
