---------------------------- MODULE Collections ----------------------------
(***************************************************************************)
(* The handlers of the collections themselves: POST /collections, and PUT  *)
(* and DELETE of /collections/{collectionId}.                              *)
(***************************************************************************)
EXTENDS Session

\* POST /collections: the tables are created and committed on every call, then
\* the collection is inserted in a transaction of its own.
post_collections ==
  /\ At("post_collections", "check") /\ Usable
  /\ Execute(CreateTables(work, {"core"}), "tables")
  /\ UNCHANGED <<serial, code, loop>>

post_collections_insert ==
  /\ At("post_collections", "insert collection") /\ Usable
  /\ \/ HasCollection(work, req.cid) /\ Answer(409)
     \/ /\ ~HasCollection(work, req.cid)
        /\ ExecuteLast(PutCollectionRow(work, req.cid, req.title), 201)

\* PUT /collections/{collectionId}
put_collection ==
  /\ At("put_collection", "check") /\ Usable
  /\ \/ ~HasCollection(work, req.cid) /\ Answer(404)
     \/ HasCollection(work, req.cid) /\ req.form = "invalid" /\ Answer(400)
     \/ /\ HasCollection(work, req.cid) /\ req.form # "invalid"
        /\ ExecuteLast(PutCollectionRow(work, req.cid, req.title), 204)

\* DELETE /collections/{collectionId}: asks the catalogue for the table first,
\* so that it answers 404, and not an error, before the first POST.
delete_collection ==
  /\ At("delete_collection", "check") /\ Usable
  /\ \/ ~HasCollection(work, req.cid) /\ Answer(404)
     \/ /\ HasCollection(work, req.cid)
        /\ ExecuteLast(DeleteCollectionRow(work, req.cid), 204)
=============================================================================
