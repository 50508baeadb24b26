# MobilityAPI in TLA+

TLA+ specifications of MobilityAPI-Python, the HTTP server that implements OGC API -
Moving Features on top of MobilityDB (`src/server.py` and the handlers below
`src/resource/`), with TLC models and TLAPS proofs. Paths below are relative to the
repository; line numbers of each definition are in `PROJECT.json` ("map").

The program is a set of request handlers over a database. Each is short; what is hard is
what they share. One thread serves all requests over **one psycopg2 connection that is
opened when the module is loaded and never again** (`server.py:55`), so a transaction does
not belong to a request: it runs until some handler, perhaps of a later request, commits
or rolls back. Handlers commit in their middle, some do not roll back, some create the
tables they use, and two independent paths (posting features, bulk loading) write the same
rows. The specifications therefore model the handlers statement by statement, the
transaction they run in, and what can stop them between two statements.

## 1. Inventory

| Component | Code | State | Operations | Hard because | Correct if |
|---|---|---|---|---|---|
| Server and routing | `server.py` | the connection, the thread | `do_GET`, `do_POST`, `do_PUT`, `do_DELETE`, start, Ctrl-C | one thread; the main block commits after an interrupt; paths matched by substrings | every request ends; one request does not spoil the next; a request reaches its handler |
| Session | `server.py`, every handler | open transaction, its status | statement, commit, rollback | aborted transactions outlive requests; lost connections are never reopened; the outcome of a commit may be unknown | nothing uncommitted outlives a request; errors leave no trace |
| Collections | `resource/collections`, `resource/collection` | `collections` | POST, PUT, DELETE, GET, list | DDL in the handler; three levels of cascades | answers tell the truth; references hold |
| Moving features | `resource/moving_features/Create.py`, `resource/moving_feature` | `moving_features`, `temporal_geometries`, the extent trigger | POST one or many, PUT, DELETE, GET | a commit inside `insert_feature`; `ON CONFLICT DO NOTHING`; ids shared by all collections | a refused batch keeps a prefix; other collections untouched |
| Item listing | `resource/moving_features/Retrieve.py`, `feature_helper.py` | none | GET with filters, limit, next link | rows written by either path; limits count rows, not features; paging without offset | a listing answers; one without a next link is complete |
| Bulk ingestion | `resource/bulk` | same tables | POST a batch | all or nothing over many statements; no trigger yet, no geometry column | a batch is atomic and complete |
| Temporal geometries | `resource/temporal_geom_seq`, `temporal_prim_geom` | `temporal_geometries` | POST, DELETE member, GET members | ids are indexes that shift; several rows per feature | the named member goes and no other; one stays |
| Reference systems | `insert_feature`, `post_bulk`, `post_tgsequence`, extents | `moving_features.crs`, the SRID of each trajectory | the same | the SRID is read in three places, three ways; different ones do not combine | a feature keeps its system; who keeps to one is served |
| Geometry queries | `resource/temporal_geom_query` | none | distance, velocity, acceleration | member index, single instants | an answer exists exactly for members |
| Temporal properties | `resource/temporal_properties`, `temporal_property` | `temporal_properties`, `temporal_values` | POST with or without values, POST values, DELETE, GET | check-then-insert without a constraint; two commits; reads that group and aggregate over rows | names unique; values in order; no values on refusal; reads show what was written |
| Export | `resource/collection/Export.py` | a named cursor | GET as NDJSON or Parquet | no try: an exception leaves the handler; row groups are flushed when full | every row once, in order of groups |
| MEOS dispatcher | `mobilityapi/` | a catalogue | dispatch, decode, encode | decoding before validation; exceptions told apart by type; what the catalogue leaves out | what runs is exposed, runs once, on exactly its declared parameters |
| Data, vendored catalogue | `data/`, `vendor/` | - | - | - | not modelled |

Components interact only through the database and the session, never by calls, except that
`put_single_moving_feature` and `post_collection_items` both call `insert_feature`, and that
the extent trigger created by `insert_feature` fires in every handler that writes
`temporal_geometries`. Every hazard is listed with its line in `PROJECT.json` ("hazards").

## 2. Modules

```
Database                tables as a value; SQL statements as operators on it
  Session               the connection, the life of a request, failures
    Collections  MovingFeatures  Bulk  TemporalGeometries  TemporalProperties
      MobilityAPI       reading handlers, composition, Init, Next, Spec, properties
        Implementation  MobilityAPI implements Documents (refinement mapping)
        PropertyReads   what the two handlers that read properties show
          MCCore        small instances for TLC
  Listing               a page of items, the next link, the export feed
Routing                 which handler a request line reaches
  Browsing              Routing and Listing under a client that browses
    MCBrowsing
Documents               the abstract contract: whole operations on documents
ReferenceSystems        SRIDs of trajectories;      MCReferenceSystems
Dispatching             src/mobilityapi;            MCDispatching

MobilityAPI > MobilityAPIProofs > TablesProofs > AnswersProofs > EffectsProofs
PropertyReads > AnswersProofs;  EffectsProofs, Implementation > ImplementationProofs
Browsing > BrowsingProofs;  ReferenceSystems > ReferenceSystemsProofs
Dispatching > DispatchingProofs
```

### The server

**Database** has no variables. A database is a record of tables; a table with a primary key
is a function from keys to rows. Each SQL statement of the code is an operator from a
database to a database: `DeleteFeatures` follows `ON DELETE CASCADE` through geometries,
properties and values, `InsertGeometryRow` and `UpdateTrajectories` fire the trigger
`update_mfeatures_on_tg` if it exists (`ddl`). A trajectory is a sequence of members, a
member a set of instants, NULL the empty sequence. `serial` stands for all SERIAL columns:
one counter, never reset by a rollback, as in PostgreSQL.

**Session** holds the variables:

| Variable | Code |
|---|---|
| `disk` | what is committed |
| `work`, `tx` | what the open transaction sees, and whether it is usable, aborted or its connection lost |
| `serial` | last value of the SERIAL sequences |
| `req`, `pc`, `code` | the request being served, the handler's position, the status it is about to send |
| `todo`, `made` | the loop over features or observations, `created_feature_ids` |
| `before` | history only: the committed database and the session when the request arrived |

A handler is cut where another outcome is possible: at the first statement that writes, at
every commit and at the response. `pc` goes `idle -> start -> check -> ... -> finish ->
respond -> idle`; commits in the middle have labels of their own (`tables`, `features`,
`property`). The session is where failures live:

- `StatementError`: tables missing, transaction already aborted, connection lost, or the
  database cancels the statement (`"sql"`). The transaction aborts; `pc` goes to `except`.
- `Except`: the handler's `except` clause: roll back and answer; or, in the four reading
  handlers without a rollback (`SilentReads`), only answer; or, in the two handlers without a
  `try` (`BareReads`: `export_collection`, and `get_acceleration`, which executes nothing) and
  whenever `rollback()` itself raises on a lost connection, leave without an answer.
- `ClientGone`: writing the response raises, inside the `try` block or outside it.
- `DatabaseRestart`: the session is lost; a commit that was under way may have happened.
- `Kill`, `Interrupt`: the process dies; or Ctrl-C ends it through
  `except KeyboardInterrupt: pass; connection.commit()` (`server.py:446-450`).

**Collections, MovingFeatures, Bulk, TemporalGeometries, TemporalProperties** have one
action per handler, or one per stretch between two writes when the handler writes more than
once, named as in the code. `insert_feature` is three actions (tables, row, geometry) which
both its callers use. **MobilityAPI** adds body validation (`ReadBody`), all reading handlers
(`Read`: they differ in what they look up, whether they need the late tables, and whether
they roll back), and composes everything.

### The contract

**Documents** says what clients may rely on, without tables, transactions or statements: a
store of collections and features (with the trajectories and value arrays of a feature each
under its age), and a request that asks for a few operations in a fixed
order, each of which happens at once and under its precondition, or not at all. A request
that is accepted performed all of them, one that is refused or lost a prefix.
**Implementation** maps `MobilityAPI` to it: the documents are read off `disk`
(`DocumentOf`), the plan is what `req` asks for (`PlanOf`) less what its handler has
committed at `pc` (`Committed`), and the status is "refused" as soon as the session cannot
be used any more. `ImplementsContract` is the refinement, checked as a temporal property by
the runs `features`, `tracks` and `properties`, and proved. The three handlers that commit in their
middle are exactly those whose plans have more than one operation.

### What reads show

**Listing** takes `get_collection_items` and `export_collection` apart: the join, the
filters, `ORDER BY created_at LIMIT`, `subTrajectory` and `leaf`, `numberMatched`, the next
link; the feed's join and row groups. Answers are sets: what the database leaves open (the
order of rows of equal `created_at`, where a feed breaks off) is a choice. **Routing**
translates `do_GET`, `do_POST`, `do_PUT`, `do_DELETE` test by test over paths as sequences
of segments; of an identifier only the words count that the tests look for. `Routes` is the
documented table (`server.py:276-300`). **Browsing** composes the two: a client sends the
documented request lines, the router picks a handler, the listing answers, the client
follows the link, while others commit features, batches, geometries and deletions through
the statements of `Database`. **PropertyReads** adds to `MobilityAPI` the queries of
`get_temporal_property` and `get_tproperties` as operators over the tables that the writing
handlers leave: the order of segments, the join with `unnest`, the join of timestamps and values by place
(`Valued`), the cast of the values (`Castable`, else `CannotCast`), the groups of
`subTemporalValue`, the limit of the list. `Orders` is ORDER BY: the sequences of the rows in
which none comes after one that it precedes; `FirstOf` is LIMIT. `SubValues` and `SubLists`
are sets of answers: which group is fetched first, which of the groups of one name are cut
off, and whether a group that is cut off was cast, is the database's choice.

### Reference systems

**ReferenceSystems** is a smaller model of the same tables in which a row of
`temporal_geometries` is its feature, its collection and its SRID, and only what concerns
SRIDs can refuse a request: the handlers are one transaction each. `insert_feature` reads
the first number of the `crs` name, `post_tgsequence` that of the `crs` column,
`post_bulk` the number after `EPSG`; `appendInstant` and `extent` raise on different SRIDs,
in the append, in the trigger and in the handlers that describe collections. The constants
`FirstNumber` and `EpsgCode` are any functions of the reference systems.

### The dispatcher

**Dispatching** follows one call through `src/mobilityapi`: route, catalogue, decoding one
parameter after the other, validation, resolver, function, encoding. The catalogue, the
encodings that have a codec and the resolver are constants; `CatalogAssumption` is the shape
of its entries. The codec is the one of production, `pymeos_codec` (`wire.py:93-140`): a
string is decoded or makes the decoder raise, and what is no string (an object, an array, a
number) passes the MF-JSON decoder as it came (`PassesThrough`), while the other decoders hand
it to PyMEOS.

Definitions named `Faulty<name>_<fault>` are `<name>` with a fault a programmer could make
(a missing commit, an index off by one). Nothing uses them; putting one in the place of
`<name>` makes the property listed with it under "mutants" fail.

### Abstractions

- A request body is its *form* (what validation finds), its items and its times. Variants
  of malformed bodies that lead to the same clause are one form; a missing Content-Length
  or a JSON value that is not an object (a 500 after a rollback, before any write) is not
  distinguished from other bodies that raise.
- Positions, interpolation of trajectories, properties of features, descriptions and the
  layout of documents are left out; with the positions, the `bbox` filter. At the end of a
  trajectory `appendInstant` accepts the same instant only with the same position; both
  outcomes are possible there. `numSequences` fails on a trajectory stored as one instant;
  whether a one-instant trajectory is stored so is not determined.
- SRIDs are in `ReferenceSystems` only; in the other modules all trajectories combine. That
  `extent` and `appendInstant` refuse different SRIDs is MobilityDB's behaviour, and so are
  `atTime`, `&&` and `numSequences`: modelled as the code uses them.
- `geometry` is kept as "filled or NULL" because the two writing paths differ in it.
- The CREATE statements between two commits are one statement. `ensure_tables` of the bulk
  path never has an effect: its tables exist once a collection does, and the handler checks
  the collection first. The two versions of `temporal_geometries` (with and without
  `orientations`) are one table.
- A value is whether PostgreSQL takes it for a float (`ValueKinds`); a value that is shown is
  told by its timestamp. `values` is an array: a body in which it is a scalar or an object is
  stored too, and fails when it is read with `subTemporalValue`. No property is named
  "datetimes", which is a key of the list itself.
- Limits of the list are natural: a negative one is a 500 of the database.
- The tables carry no interpolation: `PropertyReads` takes it as an argument, and its
  properties quantify over all assignments.
- When several rows match, a query without ORDER BY returns any (`\E g \in rows`). Between
  rows that ORDER BY does not tell apart, `AllSegments` and `SegmentsIn` take one order, not
  told which (a CHOOSE); `SubLists` takes all of them.
- One thread, so no two handlers interleave; clients interleave between requests, and the
  database, the operator and the client between any two steps.
- Words in a query string are not modelled: a query string may hold a slash, not a name.
- What a codec makes of a value is whether it decodes, raises, or passes it on; what a
  function computes is left out.

## 3. What is checked

| Run | Specification, faults | Shows |
|---|---|---|
| `features` | `FairSpec`, all but interrupt | two collections whose clients use the same feature ids, with all reading handlers among the writing ones: what answers say about the committed database, what refused multi-commit requests leave, who hands an aborted transaction on and when it ends, that every request ends, the contract |
| `tracks` | `Spec`, all but interrupt | geometries reported by a fleet and added and removed by index: batches, members, extents, the contract |
| `fleet` | `Spec`, all five | bulk loads and features of two collections with the same names: foreign keys, nothing pending, no trace of refusals, extents |
| `properties` | `Spec`, all but interrupt | two property names and their values, also fewer than timestamps or no numbers, across two commits; what reading them shows for each limit; the contract |
| `browsing` | `Spec` of `Browsing` | routing, listings, links, feeds over tables that change |
| `reference_systems` | `Spec` of `ReferenceSystems` | who is refused for an SRID, and what SRIDs a feature holds |
| `dispatching` | `Spec` of `Dispatching` | calls with strings, sound and not, and with other values, over a catalogue of all kinds of entries |

The safety properties of the server (`MobilityAPI`):

- `References`: foreign keys hold in the committed and in the pending database.
- `NothingPending`: no handler answers, or ends, with uncommitted writes.
- `RefusedLeavesNoTrace`, and for the three handlers that commit in their middle the exact
  remainder: `RefusedBatchKeepsPrefix`, `RefusedReplaceLosesAtMostItsFeature`,
  `RefusedPropertyHasNoValues`.
- `AcceptedTookEffect`: a success status means the committed database is the one before with
  exactly the requested change, for every writing handler and whatever failed on the way.
- `BulkIsAtomic`, `OtherCollectionsUntouched` (action properties). The first holds without
  Ctrl-C, see below.
- `GeometriesInTheirCollection`: as long as vehicles keep to one collection per id, or only
  features are posted. `fleet` does not check it because there it does not hold.
- `DeleteLeavesAMember`, `ExtentsCurrentOrUnset`, `PropertyNamesUnique`, `ValuesInOrder`
  (the last for bodies whose timestamps are in order).
- `ReadsShowTheValues`, for the same bodies: a property is read in the order of time, every
  timestamp once. With `subTemporalValue` it is answered 500 if a value inside the interval is
  no number, and otherwise shows the timestamps inside that have a value; only those that the
  property was created with can lack one (`Lacking`), because only further values are checked
  (`LengthsDiffer`).
- `ListAgreesWithReads`: the list names the first properties, as many as the limit says, of
  those the other handler shows; with `subTemporalValue` under each name what the other
  handler may show, and it fails only if that does.
- `OnlyUnguardedReadsPoison`: only the handlers without a rollback hand an aborted
  transaction to the next request.

Of the reads: `RoutedAsDocumented` (identifiers without the router's words, any query
string), `WritesReachWhatTheyName` (any identifier), `CompleteWithoutNext`,
`NothingOutsideTheInterval`, `ExportHoldsTheList`. Of reference systems: `PostedInItsSystem` (a feature posted with a
trajectory never holds one of another SRID in its collection, whoever writes it) and
`OneSystemIsServed` (a refusal for an SRID is about a collection that was told of two). Of
the dispatcher: `RunsAsDeclared` (what a function runs on was decoded, or is no string and
labelled MF-JSON), `MismatchIsTheClients`, `SuccessRanTheFunction` (a success had no malformed
value), `NotFoundIsNotThere`.

### Fairness

`features` runs under `FairSpec`: weak fairness of `ServerStep`, the thread's own steps: the
interpreter keeps running the handler it is in, and a statement sent to the database returns
or raises. It assumes nothing of clients except that they send the body they announce (the
code reads it without a timeout), and no failure has to happen. `RequestsEnd` says that no
batch, failure or lost connection keeps the only thread; `PoisonIsCleared` says under which
traffic an aborted transaction ends.

### Bounds

- Two collections and two features are what the properties relate: a feature and its
  namesake, this collection and another. Neither collection nor feature identifiers are
  compared other than for equality, hence the symmetry in `reference_systems`. The runs of
  `MCCore` do without, as their requests name collections and features.
- Bodies of one or two timestamps with as many values, one less, one that is no number; limits
  of 0, 1 and 3 for two properties: none, a cut, all.
- Two or three instants: an append before, at and after the end; a gap between members.
- `MaxSerial` bounds the SERIAL values drawn, that is, the geometries, properties and values
  inserted (deleted rows do not give theirs back): two to six, for two geometries of one
  feature, or two properties with two arrays of values, deleted and made again. `RoomFor` is
  the only guard of `MobilityAPI` that is not in the code: it stops requests that could
  exceed the bound or have no fresh uuid, where a uuid that is drawn is none that a body
  names (`Keys`, `GivenIds`): the code draws from 2^122. `features` posts a batch that
  mixes the two.
- `MaxTime` bounds the transactions of `Browsing` that insert rows: three make two features
  with two rows for one of them, and a batch that extends both. Limits of -1, 0, 1, 2 and 10
  are below, at and above the rows; `RowGroup` is 2 instead of 1024, so that feeds end
  before, at and after a full group.
- Four kinds of reference systems: two numbers that agree, one number that only
  `insert_feature` sees, no number, none named.
- The catalogue has a function of each kind: exposed explicitly, by default or not; of no,
  one and two parameters; with a serialized, array and plain parameter; with encodings that
  have a codec and that have none; resolvable or not.

Deadlock is checked in every run: a server that waits can always receive another request,
since those that insert nothing fit any bound.

### Disagreements with the documentation

Each is listed in `PROJECT.json` ("findings") with the lines it quotes. Five are runs that
violate one property:

| Run | Documentation | Code |
|---|---|---|
| `replace_in_one_transaction` | PUT replaces "in one transaction" | `insert_feature` commits the DELETE before the INSERT |
| `location_of_geometry` | members are addressed by a 1-based index | Location holds a SERIAL id |
| `delete_one_member` | deleting "keeps the other members distinct" | removes the index from every row of the feature |
| `listing_after_bulk` | the listing test expects 200 | 500 once a bulk load left a geometry NULL |
| `next_page` | "Next page", "pagination next links" | the link shows the same page again |

The others were met while modelling and bound what a property can say:

- `BulkIsAtomic`: Ctrl-C commits the part of a batch that was done; with `"interrupt"`
  added to the faults of `tracks` it fails, and `ImplementsContract` with it.
- `ValuesInOrder`: only the last and the first array element are compared, so it needs
  bodies whose timestamps are in order.
- `RoutedAsDocumented`, `WritesReachWhatTheyName`: identifiers that hold the router's words
  are not served as documented, and a DELETE of a property can delete a geometry.
- `ReadsShowTheValues`, `ListAgreesWithReads`: `subTemporalValue` serves values in the order
  of their places in the arrays, and one interpolation only. A property may be created
  with other numbers of timestamps and of values, although "datetimes and values must have the
  same length": the timestamps without a value are lost. Values of the types TText and
  TBoolean are stored, and make it answer 500. A list of several properties has the datetimes
  of the first, is cut at its limit without a link to the rest, and calls what it returns all
  that matched.
- `OneSystemIsServed`: the default of the `crs` column and the default SRID of a trajectory
  do not agree, so that the second geometry of a feature without a crs is refused; and
  features of two systems in one collection make GET /collections fail for everybody.
- `RunsAsDeclared`: opaque parameters "are decoded by the WireCodec before the dispatcher
  invokes the MEOS function", but MF-JSON that is no string reaches the function as it came.
- `NotFoundIsNotThere`, `SuccessRanTheFunction`: no function of the vendored catalogue is
  exposed, and the export route passes one of five parameters.

## 4. What is proved

For any values of the constants: any sets of identifiers and of requests, faults and bounds,
any catalogue, any reference systems, batches and bodies of any length. Assumptions on the
constants, which TLC evaluates in the runs:

- `InstantsAssumption`: instants are integers.
- `RequestsAssumption`: requests have their shape, the model values are distinct from it; an
  observation holds one instant; PUT and POST of one geometry have one item.
  `BoundAssumption`: the bound on SERIAL values is natural.
- `TrajectoriesAssumption`: a trajectory that converted has a member, a member an instant
  (MEOS reads no empty temporal value). `FormsAssumption`: what the two optional parts of a
  body of POST .../tproperties can be.
- `NameOrderAssumption`: property names are ordered; `LimitsAssumption`: limits are natural.
- `CatalogAssumption`, `CrsAssumption` (numbers in names are natural), `SegmentsAssumption`
  (an identifier is none of the fixed segments), `RowGroupAssumption`, `SearchesAssumption`.

### The server

Each module continues the one before.

- **MobilityAPIProofs**: each statement maps databases to databases (one lemma per
  statement, over lemmas on extending and restricting functions and on removing from a
  sequence). `TypeInvariant` and `TypeCorrect` (`Spec => []TypeOK`): `TypeOK` is not
  inductive, a step that takes `Head(todo)` needs to know that `todo` is not empty there,
  and of which request. `Control` adds that: which operation can be at which label, that
  `todo` is non-empty and made of the request's items at the labels that use it.
  Of the transaction: `NothingLeftPending`: `PendingInv` names the labels at which writes
  may be pending, and adds that the session is then usable (losing or aborting it undoes
  them) and that a handler on its way to the except clause with pending writes is one that
  rolls back. Each action leaves the store alone, writes and moves to such a label, commits,
  or undoes. `RefusalsLeaveNoTrace`: `TraceInv` says that a request which has not got past
  its own last commit has left the committed rows unchanged, that one that has is about to
  answer with success, and that the only third case is a handler whose connection was lost
  around its commit: it answers nothing at all. `OnlyUnguardedReadsAbort`: who can leave an
  aborted transaction behind.
- **TablesProofs**. A step of the server leaves the database alone, settles the transaction,
  or executes one statement whose preconditions the handler established in earlier steps
  (`StepEffect`; `Checked` is what each label knows, and nothing the environment does in
  between takes it away without ending the transaction). A statement with its preconditions
  keeps each property of the tables: `ForeignKeysHold`, `NamesStayUnique`,
  `ExtentsStayCurrent`, and, under a hypothesis on the requests, the next two.
  `GeometriesStayInTheirCollection` assumes `BatchesStayHome`: of the requests that may create
  a feature which a batch names, all are addressed to the collection of that batch (clients
  that load no batches satisfy it, and so do the requests of `tracks`). Then whatever a batch
  names is in its collection (`AtHome`, an invariant of its own, since a feature never moves);
  otherwise `append_observations` finds a feature of another collection and writes a row that
  carries the one of the batch, as in `fleet`. `ValuesStayInOrder` assumes
  that the datetimes of each body ascend (`TimesAscend`): the handler compares the ends only.
  Without these hypotheses the two properties do not hold; the runs that check them send such
  requests only.
- **AnswersProofs**. `Course` sorts the steps of a request: it arrives, is refused, shows
  something, waits, works, commits, or leaves. `OthersStayUntouched` (again `BatchesStayHome`).
  `DeletesLeaveAMember`: `MemberInv` says of the transaction, once a member was removed, that
  one is left, because the member was counted in the transaction that removes it. The
  remainders of the three handlers that commit in their middle follow the committed database
  from label to label (`EntryInv` until the first statement, then `ReplaceInv`, `PropertyInv`,
  `PrefixInv`): `ReplacesLoseAtMostTheirFeature`, `RefusedPropertiesHaveNoValues`,
  `RefusedBatchesKeepAPrefix`. Last the two reads of a property, `ReadsGiveTheValues` and
  `ListsAgree` (both under `TimesAscend`), for properties of any number of rows: a finite set
  of rows can be put in any strict order (`OrderedRows`, by induction over its subsets), so
  what ORDER BY returns holds each row once; and that the tables a read finds are finite,
  typed and have each property's rows in order (`Readable`, from the invariant that
  `ValuesStayInOrder` rests on) makes of it the segments in the order of time (`RowsInOrder`).
  `Readable` also says that a row without a value for each timestamp is the first of its
  property, the one it was created with (`Paired`: later rows passed `LengthsDiffer`). What a
  limit leaves of an order is closed towards its front (`InFront`, `FirstRows`); names being
  those of single properties, the first rows by name are those of the first properties
  (`PageShown`), and of each the last row decides what is listed (`LastNumber`, `ListShown`).
- **EffectsProofs**. `SuccessesAreCommitted`: the last statement of each handler, which leads
  to `finish`, leaves the promised effect in the transaction (`TookEffect`, one lemma per
  handler), and from there to the answer it is committed or the success is lost (`AcceptInv`).
  The loops carry their own invariants, over what is left of the body: `BulkInv` (each
  observation that was taken is in a trajectory, none lost an instant), `PostedInv` (the items
  taken are posted as the first with their id asks), `ReplacingInv`. `BatchesAreAtomic` follows
  from `BulkInv`; it assumes no Ctrl-C (`"interrupt" \notin Faults`), since the main block
  commits the part that was done.
- **ImplementationProofs**. `ServerImplementsContract`: `Spec => ImplementsContract`, for any
  requests, bodies of any length and the faults of the runs. First the documents of a database
  after each statement (one lemma per table, from what the statement does to its rows), and
  that a statement which is a whole operation of the contract meets its precondition and has
  its effect (`AddTrajectoryOperation`, `RemoveMemberOperation`, ...); a batch is gathered
  observation by observation (`Gathered`, `BatchGrows`), a Feature's row and geometry make one
  operation together (`AddPathOperation`). `OweInv` is the inductive invariant
  (`HandlersOweWhatTheyExecuted`): at each label, how the open transaction differs from the
  committed tables, seen as documents: not at all, by half a Feature, by the observations taken
  so far, or by just the operation that is due next, which is the last one of the plan at a
  `finish` that answers with success. `RoomInv` keeps the keys within the ages. The simulation
  (last section) goes through `Course` again: statements and the commits of tables alone are
  stutters, each other commit is a `Perform`, an `Accept` or a `Refuse`, and a connection lost
  around a commit is a `Refuse`, or a `Perform` that ends refused. `PlanOf` and `Committed` must
  agree there step by step: that a step leaves `Committed` alone, or a commit adds one to it,
  is what makes the operations happen in the order asked for. Hypotheses: `BatchesStayHome`
  (else a batch writes rows under another collection, which deleting that one removes from
  documents that are not its own), and no Ctrl-C (it commits half an operation).

### The others

- **BrowsingProofs**. Every documented path has one shape: a fixed segment, an identifier,
  and so on, broken off after one to seven segments. `Shaped` states it, the lemmas evaluate
  each of the router's tests on it, by length, fixed segments and the words in the
  identifiers, and go through the documented requests once for plain identifiers and, for the
  methods that write, once for any. `AskedInv` adds that the request being served is a
  documented one, with the query string of a next link at most if it reached a listing:
  `RequestsAreRouted` and `WritesAreNamed`, for any identifiers and any words in them.
  What a listing shows: `AnswerInv` says that the tables are finite and typed (`Like`) and
  that the last answer, if it is a listing or a feed, is one that the handler gives for the
  request on the database as it stands (the writes of other requests replace the answer).
  So the three properties are about the operators: `ListingsAreComplete` (a page of at least
  the limit has a next link; `SmallestSubset` finds a page at all), `ListingsShowTheInterval`
  (`AtTimeWithin`: what `atTime` keeps of the sequences, one after the other) and
  `FeedsHoldTheList` (`CollectedInv`: after each row, the groups and the open group together
  are the rows so far). The folds of the community modules, `FoldSet` over the features of a
  batch, `FoldLeft` and `FlattenSeq` over sequences, are CHOSEN functions of subsets: `LeastNumber`
  and `SubsetInduction` (the library's well-founded orderings in place of its induction
  theorems) show that such functions exist, and `FoldsStay`, `StepsExist`, `FlattenSteps` that
  a fold is a sequence of steps.
- **DispatchingProofs**, `FunctionsRunAsDeclared`, `MismatchesAreTheClients`,
  `SuccessesRanTheFunction`, `NotFoundWasNotThere`: `Progress` says for each step of a call
  what those before it have established. Until it is dispatched nothing ran; the parameters
  decoded and those left are together the given ones; what was decoded came from sound values,
  and what passed a decoder undecoded is no string and was labelled MF-JSON; a function about to answer ran on exactly its declared parameters.
- **ReferenceSystemsProofs**, `PostedFeaturesKeepTheirSystem`, `ClientsOfOneSystemAreServed`,
  from one invariant. `Posted` adds to the first property that the feature still has such a
  trajectory and that the trigger exists: a row of another SRID then makes the trigger raise,
  and without the first row it would not. The second needs to know where SRIDs come from:
  `Traced` says that each row's SRID is read, in one of the ways, from a crs its collection
  was told of, so that in a collection told of one system, which all ways read alike, all rows
  agree (`ConsistentReadings`, `TwoSrids`); `Told`, that a session is aborted only over a
  collection told of two. `TransactionKeeps` is the step: a transaction keeps all of it if the
  rows it would leave do, and if it fails only over such a collection.

### Only model-checked

- `RequestsEnd` and `PoisonIsCleared`: liveness under fairness needs ENABLED.

All invariants and action properties that the passing runs check are proved.

## 5. Not modelled

- The landing page, conformance and API description: constant documents.
- Geometry queries: which answer they give is modelled (found, invalid, no member, no
  speed); the curves are computed by MobilityDB.
- The `bbox` filter of the listing, as positions are left out.
- Data preparation (`data/`), the demonstration notebooks, `get-pip.py` and the vendored
  catalogue. Nearly all lines of the repository are theirs: the notebooks embed their
  outputs, `get-pip.py` an archive. The mapped lines are most of the server and of
  `mobilityapi`, and less than one per cent of everything.

## 6. Plan

Orientations, once positions and the second version of `temporal_geometries` are told
apart.
