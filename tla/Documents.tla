----------------------------- MODULE Documents -----------------------------
(***************************************************************************)
(* What the API promises its clients, without tables and transactions: a   *)
(* store of documents, and requests that act on it by operations which     *)
(* each happen at once or not at all.                                      *)
(*                                                                         *)
(* A request asks for a few operations in a fixed order: one of them, or   *)
(* one per Feature of a FeatureCollection, two for the replacement of a    *)
(* feature and for a property that comes with values.  A request that is   *)
(* accepted has performed them all, one that is refused or unanswered a    *)
(* prefix of them.                                                         *)
(***************************************************************************)
EXTENDS Integers, Sequences, SequencesExt, Functions

CONSTANTS Plans,        \* what the requests that clients send ask for
          FeatureIds,   \* identifiers of moving features
          Ages,         \* what a feature gets later has the greater age
          NoId          \* a Feature without an id

VARIABLES docs,         \* the documents: collections and features
          plan,         \* operations the request being served still asks for
          status        \* "idle", or what its client can expect

vars == <<docs, plan, status>>

-----------------------------------------------------------------------------
(* Documents.  A feature carries its collection, its trajectories and the  *)
(* value arrays of its properties, each under its age.                     *)

Nothing == [x \in {} |-> x]
Contents(collections, features) == [collections |-> collections, features |-> features]
NoDocuments == Contents(Nothing, Nothing)

HasCollection(d, c) == c \in DOMAIN d.collections
HasFeature(d, c, f) == f \in DOMAIN d.features /\ d.features[f].cid = c

Set(t, key, value) == [k \in DOMAIN t \cup {key} |-> IF k = key THEN value ELSE t[k]]
Without(t, Gone) == Restrict(t, DOMAIN t \ Gone)
\* At most one thing, under its age.
Aged(things, age) == [a \in {age : n \in DOMAIN things} |-> things[1]]
Grows(t, age) == \A a \in DOMAIN t : a < age

Feature(c, paths, properties) == [cid |-> c, paths |-> paths, properties |-> properties]
WithPaths(feature, paths) == Feature(feature.cid, paths, feature.properties)
WithProperties(feature, properties) == Feature(feature.cid, feature.paths, properties)

WithCollection(d, c, title) == Contents(Set(d.collections, c, title), d.features)
WithFeature(d, f, feature) == Contents(d.collections, Set(d.features, f, feature))
WithoutFeatures(d, F) == Contents(d.collections, Without(d.features, F))

-----------------------------------------------------------------------------
(* The operations: new is what operation o can make of the documents old.  *)

CreateCollection(old, new, o) ==
  /\ o.do = "create collection" /\ ~HasCollection(old, o.cid)
  /\ new = WithCollection(old, o.cid, o.title)

ReplaceCollection(old, new, o) ==
  /\ o.do = "replace collection" /\ HasCollection(old, o.cid)
  /\ new = WithCollection(old, o.cid, o.title)

RemoveCollection(old, new, o) ==
  /\ o.do = "remove collection" /\ HasCollection(old, o.cid)
  /\ new = Contents(Without(old.collections, {o.cid}),
                    Without(old.features,
                            {f \in DOMAIN old.features : old.features[f].cid = o.cid}))

\* A Feature whose id is taken, in whatever collection, is not added.
AddFeature(old, new, o) ==
  /\ o.do = "add feature" /\ HasCollection(old, o.cid)
  /\ \E f \in IF o.fid = NoId THEN FeatureIds \ DOMAIN old.features ELSE {o.fid},
        age \in Ages :
        new = IF f \in DOMAIN old.features THEN old
              ELSE WithFeature(old, f, Feature(o.cid, Aged(o.paths, age), Nothing))

RemoveFeature(old, new, o) ==
  /\ o.do = "remove feature" /\ HasFeature(old, o.cid, o.fid)
  /\ new = WithoutFeatures(old, {o.fid})

\* What a batch observes of feature f, and what there was of it.
Seen(o) == {o.observations[n].fid : n \in DOMAIN o.observations}
TimesOf(o, f) ==
  {o.observations[n].time : n \in {m \in DOMAIN o.observations : o.observations[m].fid = f}}
PathsOf(d, f) == IF f \in DOMAIN d.features THEN d.features[f].paths ELSE Nothing

\* Observations continue every trajectory of their feature, or begin one.
Continued(path, times) == IF path = <<>> THEN <<>> ELSE [path EXCEPT ![Len(path)] = @ \cup times]
Observed(d, o, f, age) ==
  IF PathsOf(d, f) = Nothing THEN Aged(<<<<TimesOf(o, f)>>>>, age)
  ELSE [a \in DOMAIN PathsOf(d, f) |-> Continued(PathsOf(d, f)[a], TimesOf(o, f))]

\* An observation is not earlier than what its feature's trajectories hold, nor
\* than those before it, unless all the trajectories there are were emptied.
Continues(d, o) ==
  \A n \in DOMAIN o.observations : LET seen == o.observations[n]
                                      paths == PathsOf(d, seen.fid) IN
    /\ \A a \in DOMAIN paths : \A m \in DOMAIN paths[a] : \A t \in paths[a][m] : t <= seen.time
    /\ paths = Nothing \/ (\E a \in DOMAIN paths : paths[a] # <<>>)
         => \A k \in 1..n-1 : o.observations[k].fid = seen.fid => o.observations[k].time <= seen.time

\* A feature that is not there is created in c.
FeatureOr(d, f, c) ==
  IF f \in DOMAIN d.features THEN d.features[f] ELSE Feature(c, Nothing, Nothing)

LoadBatch(old, new, o) ==
  /\ o.do = "load batch" /\ HasCollection(old, o.cid) /\ Continues(old, o)
  /\ \E age \in [Seen(o) -> Ages] :
        new = Contents(old.collections,
               [f \in DOMAIN old.features \cup Seen(o) |->
                  IF f \notin Seen(o) THEN old.features[f]
                  ELSE WithPaths(FeatureOr(old, f, o.cid), Observed(old, o, f, age[f]))])

AddTrajectory(old, new, o) ==
  /\ o.do = "add trajectory" /\ HasFeature(old, o.cid, o.fid)
  /\ \E age \in Ages : LET feature == old.features[o.fid] IN
        /\ Grows(feature.paths, age)
        /\ new = WithFeature(old, o.fid, WithPaths(feature, Set(feature.paths, age, o.path)))

\* Members are addressed by their place.  A feature of one trajectory loses
\* the one named and keeps at least one; with several, each loses its own, and
\* one without such a member is emptied.
WithoutMember(path, n) == IF n \in DOMAIN path THEN RemoveAt(path, n) ELSE <<>>

RemoveMember(old, new, o) ==
  /\ o.do = "remove member" /\ HasFeature(old, o.cid, o.fid)
  /\ LET feature == old.features[o.fid]
         removed == [a \in DOMAIN feature.paths |-> WithoutMember(feature.paths[a], o.n)]
     IN  /\ \E a \in DOMAIN feature.paths : o.n \in DOMAIN feature.paths[a] /\ removed[a] # <<>>
         /\ new = WithFeature(old, o.fid, WithPaths(feature, removed))

AddProperty(old, new, o) ==
  /\ o.do = "add property" /\ HasFeature(old, o.cid, o.fid)
  /\ LET feature == old.features[o.fid]
     IN  /\ o.name \notin DOMAIN feature.properties
         /\ new = WithFeature(old, o.fid,
                     WithProperties(feature, Set(feature.properties, o.name, Nothing)))

\* Values that continue the property start after the end of each array it has.
AddValues(old, new, o) ==
  /\ o.do = "add values" /\ HasFeature(old, o.cid, o.fid)
  /\ \E age \in Ages : LET feature == old.features[o.fid]
                            arrays == feature.properties[o.name] IN
        /\ o.name \in DOMAIN feature.properties /\ Grows(arrays, age)
        /\ \A a \in DOMAIN arrays :
              arrays[a] # <<>> /\ o.times # <<>> => Last(arrays[a]) < Head(o.times)
        /\ new = WithFeature(old, o.fid,
                    WithProperties(feature, Set(feature.properties, o.name,
                                                Set(arrays, age, o.times))))

RemoveProperty(old, new, o) ==
  /\ o.do = "remove property" /\ HasFeature(old, o.cid, o.fid)
  /\ LET feature == old.features[o.fid]
     IN  /\ o.name \in DOMAIN feature.properties
         /\ new = WithFeature(old, o.fid,
                     WithProperties(feature, Without(feature.properties, {o.name})))

Operation(old, new, o) ==
  \/ CreateCollection(old, new, o) \/ ReplaceCollection(old, new, o)
  \/ RemoveCollection(old, new, o)
  \/ AddFeature(old, new, o) \/ RemoveFeature(old, new, o) \/ LoadBatch(old, new, o)
  \/ AddTrajectory(old, new, o) \/ RemoveMember(old, new, o)
  \/ AddProperty(old, new, o) \/ AddValues(old, new, o) \/ RemoveProperty(old, new, o)

-----------------------------------------------------------------------------
(* The life of a request.                                                  *)

Init == docs = NoDocuments /\ plan = <<>> /\ status = "idle"

\* A session that is not usable refuses the request from the start.
Begin ==
  /\ status = "idle"
  /\ \/ status' = "serving" /\ plan' \in Plans
     \/ status' = "refused" /\ plan' = <<>>
  /\ UNCHANGED docs

\* The next operation happens.  With it the request may be over: accepted if it
\* asked for no more, refused if the server cannot tell that it happened.
Perform ==
  /\ status = "serving" /\ plan # <<>>
  /\ Operation(docs, docs', Head(plan))
  /\ \/ status' = "serving" /\ plan' = Tail(plan)
     \/ status' = "accepted" /\ Len(plan) = 1 /\ plan' = <<>>
     \/ status' = "refused" /\ plan' = <<>>

Accept == status = "serving" /\ plan = <<>> /\ status' = "accepted" /\ UNCHANGED <<docs, plan>>
Refuse == status = "serving" /\ status' = "refused" /\ plan' = <<>> /\ UNCHANGED docs

\* The answer goes out, or the server stops or loses the client.
End == status # "idle" /\ status' = "idle" /\ plan' = <<>> /\ UNCHANGED docs

Next == Begin \/ Perform \/ Accept \/ Refuse \/ End

Spec == Init /\ [][Next]_vars
=============================================================================
