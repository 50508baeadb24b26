--------------------------- MODULE Implementation ---------------------------
(***************************************************************************)
(* The server implements Documents.  The documents are what the committed  *)
(* tables say; the plan is what the request being served has not committed *)
(* yet, as far as the position of its handler tells.                       *)
(***************************************************************************)
EXTENDS MobilityAPI

\* What a request asks for, by its handler.
Removes(r) == [do |-> "remove feature", cid |-> r.cid, fid |-> r.fid]
AddsFeature(r, f, item) ==
  [do |-> "add feature", cid |-> r.cid, fid |-> f,
   paths |-> IF item.kind = "ok" THEN <<item.traj>> ELSE <<>>]
OnProperty(r, what) == [do |-> what, cid |-> r.cid, fid |-> r.fid, name |-> r.name]
AddsValues(r) ==
  [do |-> "add values", cid |-> r.cid, fid |-> r.fid, name |-> r.name, times |-> r.times]
Observes(r) ==
  [n \in DOMAIN r.items |->
     [fid |-> r.items[n].id, time |-> CHOOSE t \in r.items[n].traj[1] : TRUE]]

PlanOf(r) ==
  CASE r.op = "post_collections" ->
         <<[do |-> "create collection", cid |-> r.cid, title |-> r.title]>>
    [] r.op = "put_collection" ->
         <<[do |-> "replace collection", cid |-> r.cid, title |-> r.title]>>
    [] r.op = "delete_collection" -> <<[do |-> "remove collection", cid |-> r.cid]>>
    [] r.op = "post_collection_items" ->
         [n \in DOMAIN r.items |-> AddsFeature(r, r.items[n].id, r.items[n])]
    [] r.op = "put_single_moving_feature" /\ r.items # <<>> ->
         <<Removes(r), AddsFeature(r, r.fid, r.items[1])>>
    [] r.op = "delete_single_moving_feature" -> <<Removes(r)>>
    [] r.op = "post_bulk" ->
         <<[do |-> "load batch", cid |-> r.cid, observations |-> Observes(r)]>>
    [] r.op = "post_tgsequence" /\ r.items # <<>> ->
         <<[do |-> "add trajectory", cid |-> r.cid, fid |-> r.fid, path |-> r.items[1].traj]>>
    [] r.op = "delete_single_temporal_primitive_geo" ->
         <<[do |-> "remove member", cid |-> r.cid, fid |-> r.fid, n |-> r.n]>>
    [] r.op = "post_tproperties" ->
         IF r.form \in {"with values", "with bad values"}
         THEN <<OnProperty(r, "add property"), AddsValues(r)>> ELSE <<OnProperty(r, "add property")>>
    [] r.op = "post_temporal_property" -> <<AddsValues(r)>>
    [] r.op = "delete_temporal_property" -> <<OnProperty(r, "remove property")>>
    [] OTHER -> <<>>

\* How many of these operations are committed when the handler is at pc.  The
\* rows of a Feature are committed by the next one, after it made the tables.
Committed ==
  CASE req.op = "post_collection_items" ->
         LET taken == Len(req.items) - Len(todo)
         IN  CASE pc \in {"insert feature", "insert geometry"} -> taken
               [] pc \in {"feature", "features", "finish"} /\ taken > 0 -> taken - 1
               [] OTHER -> 0
    [] req.op = "put_single_moving_feature"
         /\ pc \in {"insert feature", "insert geometry", "finish"} -> 1
    [] req.op = "post_tproperties" /\ Len(PlanOf(req)) = 2
         /\ pc \in {"insert values", "finish"} -> 1
    [] OTHER -> 0

\* What the client can expect: once the session is unusable, a refusal.
StatusOf ==
  IF pc = "idle" THEN "idle"
  ELSE IF pc = "respond" /\ code < 300 THEN "accepted"
  ELSE IF pc \in {"except", "respond", "respond in except"} \/ tx # "ok" THEN "refused"
  ELSE "serving"

\* The SERIAL values are the ages.
PathsOf(db, f) == [g \in GeometriesOf(db, f) |-> db.geometries[g].traj]
NamesOf(db, f) == {db.properties[p].name : p \in PropertiesOf(db, f)}
ArraysOf(db, f, name) ==
  [v \in UNION {ValuesOf(db, p) : p \in PropertiesNamed(db, f, name)} |-> db.values[v].times]
ArraysByName(db, f) == [name \in NamesOf(db, f) |-> ArraysOf(db, f, name)]
DocumentOf(db, f) ==
  [cid |-> db.features[f].cid, paths |-> PathsOf(db, f), properties |-> ArraysByName(db, f)]

DocumentsOf(db) ==
  [collections |-> db.collections,
   features |-> [f \in DOMAIN db.features |-> DocumentOf(db, f)]]

\* What the request being served still asks for.
Outstanding ==
  IF StatusOf = "serving" THEN SubSeq(PlanOf(req), Committed + 1, Len(PlanOf(req))) ELSE <<>>

Contract == INSTANCE Documents WITH
  Plans  <- {PlanOf(r) : r \in Requests},
  Ages   <- 0..MaxSerial,
  docs   <- DocumentsOf(disk),
  plan   <- Outstanding,
  status <- StatusOf

\* Whatever fails and wherever it does, clients see documents that change by
\* whole operations, each under its precondition, in the order asked for, and a
\* success only after the last of them: the statements, commits and rollbacks of
\* every handler, and the transactions they inherit, implement the contract.
ImplementsContract == Contract!Spec
=============================================================================
