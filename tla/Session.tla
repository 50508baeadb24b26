------------------------------ MODULE Session ------------------------------
(***************************************************************************)
(* What every request handler of server.py shares: the one database        *)
(* session of the process and the life of the one request it serves.       *)
(*                                                                         *)
(* server.py opens a single psycopg2 connection when it starts, never      *)
(* opens another and hands it to every handler; HTTPServer serves one      *)
(* request at a time.  So a transaction is not tied to a request: it runs  *)
(* until some handler commits or rolls back.  A handler is a sequence of   *)
(* steps: a step runs its queries and ends with the first statement that   *)
(* writes, with a commit, or with the response.  The CREATE statements     *)
(* between two commits count as one statement.                             *)
(***************************************************************************)
EXTENDS Database

CONSTANTS Requests,    \* the requests clients may send
          Faults,      \* the failures of the environment that may happen
          MaxSerial,   \* bound on the values drawn from SERIAL columns
          NoRequest,   \* no request is being served
          NoId         \* a Feature without an id

VARIABLES disk,     \* the committed database
          work,     \* the database as the open transaction sees it
          tx,       \* status of the session: "ok", "inerror" or "closed"
          serial,   \* last value drawn from the SERIAL columns
          req,      \* the request being served, or NoRequest
          before,   \* history: disk and tx as they were when req arrived
          pc,       \* the step the handler is at
          code,     \* the HTTP status it is about to send
          todo,     \* items of the body it has not processed
          made      \* created_feature_ids, and the created set of a bulk load

store   == <<disk, work, tx, serial>>
request == <<req, before>>
loop    == <<todo, made>>
vars    == <<store, request, pc, code, loop>>

-----------------------------------------------------------------------------
(* Requests.  A body is abstracted to its form, which says what its        *)
(* validation finds, and the items, name, times and values the handler     *)
(* reads.  An item is a Feature of a FeatureCollection, a temporal         *)
(* geometry, or an observation of a batch (then traj holds its one         *)
(* instant).  n is the {tGeometryId} of the path.                          *)

SilentReads  == {"get_collections", "get_collection_id",
                 "get_movement_single_moving_feature", "get_tgsequence"}
GuardedReads == {"get_collection_items", "get_tproperties", "get_temporal_property",
                 "get_distance", "get_velocity"}
\* Without a try: one streams a feed, the other asks the database nothing.
BareReads    == {"export_collection", "get_acceleration"}
Reads        == SilentReads \cup GuardedReads \cup BareReads
Writes       == {"post_collections", "put_collection", "delete_collection",
                 "post_collection_items", "put_single_moving_feature",
                 "delete_single_moving_feature", "post_bulk",
                 "post_tgsequence", "delete_single_temporal_primitive_geo",
                 "post_tproperties", "post_temporal_property",
                 "delete_temporal_property"}
Handlers     == Reads \cup Writes

Forms     == {"ok", "bad json", "invalid", "bad encoding", "corrupt",
              "with values", "with bad values", "neither", "filtered"}
ItemKinds == {"ok", "not a Feature", "no temporalGeometry",
              "empty temporalGeometry", "bad temporalGeometry"}
Items     == [kind : ItemKinds, id : FeatureIds \cup {NoId}, traj : Trajectories]
Request   == [op : Handlers, cid : CollectionIds, fid : FeatureIds, form : Forms,
              title : Titles, items : Seq(Items), n : Int,
              name : PropertyNames, times : Seq(Instants), values : Seq(ValueKinds)]

ASSUME RequestsAssumption ==
  /\ Requests \subseteq Request
  /\ NoRequest \notin Requests /\ NoId \notin FeatureIds
  /\ \A r \in Requests : r.op = "post_bulk" =>
        \A n \in DOMAIN r.items :
           /\ r.items[n].id \in FeatureIds
           /\ r.items[n].kind = "ok" /\ \E t \in Instants : r.items[n].traj = <<{t}>>
  /\ \A r \in Requests :
        r.op \in {"put_single_moving_feature", "post_tgsequence"} /\ r.form # "bad json"
        => Len(r.items) = 1

\* The trajectory of an item that converts has a member, a member an instant.
ASSUME TrajectoriesAssumption ==
  \A r \in Requests : \A n \in DOMAIN r.items : LET item == r.items[n] IN
     item.kind = "ok" =>
       item.traj # Null /\ \A m \in DOMAIN item.traj : item.traj[m] # {}

\* The bound is a SERIAL value.
ASSUME BoundAssumption == MaxSerial \in Nat

\* With a name or with datetimes, with both or with neither: what a body of
\* POST .../tproperties can be.
ASSUME FormsAssumption ==
  \A r \in Requests : r.op = "post_tproperties" =>
    r.form \in {"ok", "with values", "with bad values", "neither", "invalid", "bad json"}

\* Handlers whose except clause calls connection.rollback().
RollsBack == GuardedReads \cup Writes

-----------------------------------------------------------------------------
(* The steps of a handler.                                                 *)

\* Where the handler continues after a commit.
AfterCommit == [tables  |-> "insert collection", features |-> "insert feature",
                property |-> "insert values", finish |-> "respond"]
\* Steps that execute SQL statements.
Executing == {"check", "insert collection", "feature", "insert feature",
              "insert geometry", "observe", "append instant", "insert values"}
Labels == {"idle", "start", "except", "respond", "respond in except"}
            \cup Executing \cup DOMAIN AfterCommit

At(op, l) == pc = l /\ req.op = op

\* A statement goes through: the session is usable and the tables are there,
\* or the handler creates them or asks the catalogue for them.
Usable ==
  /\ tx = "ok"
  /\ "core" \in work.ddl \/ req.op \in {"post_collections", "delete_collection"}

Goto(l) == pc' = l /\ UNCHANGED <<store, request, code, loop>>

\* handle_error(...); return -- inside the handler's try block
Answer(status) ==
  pc' = "respond" /\ code' = status /\ UNCHANGED <<store, request, loop>>

\* handle_error(...) in an except clause of its own that does not roll back
AnswerInExcept(status) ==
  pc' = "respond in except" /\ code' = status /\ UNCHANGED <<store, request, loop>>

\* an exception that no statement raised
Raise(status) ==
  pc' = "except" /\ code' = status /\ UNCHANGED <<store, request, loop>>

\* a statement raises: the transaction is undone, and aborted until a rollback
StatementFails(status) ==
  /\ pc' = "except" /\ code' = status
  /\ tx' = IF tx = "closed" THEN "closed" ELSE "inerror"
  /\ work' = disk
  /\ UNCHANGED <<disk, serial, request, loop>>

\* statements that leave the transaction's view at db
Execute(db, l) == work' = db /\ pc' = l /\ UNCHANGED <<disk, tx, request>>

\* an INSERT that draws the next value of a SERIAL column; it stays drawn
Draw == serial' = serial + 1

FaultyExecuteLast_noCommit(db, status) ==
  Execute(db, "respond") /\ code' = status /\ UNCHANGED <<serial, loop>>
\* ... after which the handler commits and answers
ExecuteLast(db, status) ==
  Execute(db, "finish") /\ code' = status /\ UNCHANGED <<serial, loop>>

FaultyNextItem_noCommit(rest, l) == IF rest = <<>> THEN "respond" ELSE l
\* the step that follows an item: the next one, or the final commit
NextItem(rest, l) == IF rest = <<>> THEN "finish" ELSE l

\* The status of the except clause for an exception of the given kind.
ExceptStatus(op, kind) ==
  IF op = "put_single_moving_feature"
     \/ <<op, kind>> \in {<<"post_collection_items", "DataError">>, <<"post_bulk", "ValueError">>}
  THEN 400
  ELSE IF <<op, kind>> = <<"post_collection_items", "does not exist">> THEN 404
  ELSE IF <<op, kind>> = <<"post_bulk", "not increasing">> THEN 409
  ELSE 500

-----------------------------------------------------------------------------
(* A request arrives, is answered, or loses its client.                    *)

\* The identifiers a body names.
GivenIds(r) == {r.items[n].id : n \in DOMAIN r.items}

\* Bounds: the SERIAL values the request may draw, and a fresh identifier for
\* each Feature that brings none.
Draws(r) ==
  Len(r.items) + IF r.op = "post_tproperties" THEN 2
                 ELSE IF r.op = "post_temporal_property" THEN 1 ELSE 0

RoomFor(r) ==
  /\ serial + Draws(r) <= MaxSerial
  /\ r.op = "post_collection_items" =>
       Cardinality({n \in DOMAIN r.items : r.items[n].id = NoId})
         <= Cardinality(FeatureIds \ (DOMAIN disk.features \cup GivenIds(r)))

Receive ==
  /\ pc = "idle"
  /\ \E r \in Requests : RoomFor(r) /\ req' = r
  /\ before' = [db |-> disk, tx |-> tx]
  /\ pc' = "start"
  /\ UNCHANGED <<store, code, loop>>

Blank == [db |-> EmptyDatabase, tx |-> "ok"]

\* The handler returns, or an exception leaves it: the server takes the next
\* connection.  What the transaction holds stays as it is.
Leave ==
  /\ pc' = "idle" /\ req' = NoRequest /\ before' = Blank
  /\ code' = 0 /\ todo' = <<>> /\ made' = {}

Respond == pc \in {"respond", "respond in except"} /\ Leave /\ UNCHANGED store

FaultyRollback_forgotten == UNCHANGED store
FaultyRollback_commits == disk' = work /\ tx' = "ok" /\ UNCHANGED <<work, serial>>
\* connection.rollback(); on a connection that is gone it raises again.
Rollback == work' = disk /\ tx' = "ok" /\ UNCHANGED <<disk, serial>>

\* The client hung up: writing the response raises.  In the try block that
\* leads to the except clause, whose own answer raises out of the handler.
ClientGone ==
  /\ "client gone" \in Faults
  /\ pc \in {"respond", "respond in except"}
  /\ IF pc = "respond" /\ req.op \in RollsBack /\ tx # "closed"
     THEN Rollback ELSE UNCHANGED store
  /\ Leave

-----------------------------------------------------------------------------
(* Statements that fail, commits, except clauses.                          *)

\* A statement raises although the handler gave it sound data: the tables are
\* missing, the transaction is aborted already, the connection is gone, or the
\* database cancels it.
StatementError ==
  /\ \/ pc \in Executing /\ (Usable => "sql" \in Faults)
     \/ pc \in DOMAIN AfterCommit /\ tx = "closed"
  /\ pc = "feature" => Head(todo).kind # "not a Feature"
  /\ \E kind \in {"does not exist", "other"} :
        StatementFails(ExceptStatus(req.op, kind))

Commit ==
  /\ pc \in DOMAIN AfterCommit
  /\ tx = "ok"
  /\ disk' = work
  /\ pc' = AfterCommit[pc]
  /\ UNCHANGED <<work, tx, serial, request, code, loop>>

FaultyExcept_retries ==
  /\ pc = "except"
  /\ IF tx = "closed" THEN UNCHANGED store ELSE Rollback
  /\ pc' = "start" /\ UNCHANGED <<request, code, loop>>
\* except Exception: roll back (the silent reads do not) and answer.  The
\* handler without a try, and rollback() on a lost connection, answer nothing.
Except ==
  /\ pc = "except"
  /\ \/ /\ req.op \in RollsBack /\ tx # "closed"
        /\ Rollback
        /\ pc' = "respond in except" /\ UNCHANGED <<request, code, loop>>
     \/ /\ req.op \in SilentReads
        /\ pc' = "respond in except" /\ UNCHANGED <<store, request, code, loop>>
     \/ /\ req.op \in BareReads \/ (req.op \in RollsBack /\ tx = "closed")
        /\ Leave /\ UNCHANGED store

-----------------------------------------------------------------------------
(* The environment: the process and the database stop and start.           *)

\* PostgreSQL restarts: the session is gone for good.  A COMMIT under way may
\* have taken effect.
DatabaseRestart ==
  /\ "database" \in Faults
  /\ tx # "closed"
  /\ disk' \in IF pc \in DOMAIN AfterCommit /\ tx = "ok" THEN {disk, work} ELSE {disk}
  /\ work' = disk'
  /\ tx' = "closed"
  /\ UNCHANGED <<serial, request, pc, code, loop>>

\* The process is killed and started again.
Kill ==
  /\ "kill" \in Faults
  /\ work' = disk /\ tx' = "ok" /\ UNCHANGED <<disk, serial>>
  /\ Leave

\* Ctrl-C: KeyboardInterrupt leaves the handler, serve_forever and the main
\* block, which commits the session before it exits; the process is started
\* again.
Interrupt ==
  /\ "interrupt" \in Faults
  /\ disk' = IF tx = "ok" THEN work ELSE disk
  /\ work' = disk' /\ tx' = "ok" /\ UNCHANGED serial
  /\ Leave
=============================================================================
