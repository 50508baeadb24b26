------------------------------ MODULE Routing ------------------------------
(***************************************************************************)
(* Which handler a request line reaches, and with which arguments.         *)
(*                                                                         *)
(* do_GET, do_POST, do_DELETE and do_PUT look for pieces of text in the    *)
(* path, one after the other, and take the arguments from fixed places of  *)
(* path.split('/').  Nothing is decoded, and most tests see the query      *)
(* string as well.  A path is the sequence of its segments; a segment is   *)
(* one of the fixed ones or an identifier as it is written in a URL.  Of   *)
(* an identifier only the words count that the tests look for.             *)
(***************************************************************************)
EXTENDS Integers, Sequences, FiniteSets

CONSTANTS Segments,    \* identifiers as they appear in a path
          WordsIn,    \* the words of Words that each of them contains ...
          WordsAtStart,  \* ... and those it starts with
          Ids          \* the identifiers clients use together: [c, f, x]

Fixed == {"collections", "items", "tgsequence", "tproperties", "export", "bulk",
          "distance", "velocity", "acceleration", "health", "conformance", "api"}
Words == {"tgsequence", "items", "distance", "velocity", "acceleration"}

ASSUME SegmentsAssumption ==
  /\ Segments \cap Fixed = {} /\ Ids \subseteq [c : Segments, f : Segments, x : Segments]
  /\ WordsIn \in [Segments -> SUBSET Words] /\ WordsAtStart \in [Segments -> SUBSET Words]
  /\ \A s \in Segments : WordsAtStart[s] \subseteq WordsIn[s]

\* A query string may hold a slash: datetime=2011-07-14/2011-07-15.
Queries == {"none", "plain", "slash"}
Target  == [path : Seq(Segments \cup Fixed), query : Queries]

-----------------------------------------------------------------------------
(* Tests on self.path.  Words in a query string are not modelled.          *)

Has(s, word)    == s = word \/ (s \in Segments /\ word \in WordsIn[s])
Begins(s, word) == s = word \/ (s \in Segments /\ word \in WordsAtStart[s])

\* 'word' in self.path;  '/word' in self.path;  '/word/' in self.path
Mentions(t, word) == \E k \in DOMAIN t.path : Has(t.path[k], word)
Opens(t, word)    == \E k \in DOMAIN t.path : Begins(t.path[k], word)
Inside(t, word)   == \E k \in DOMAIN t.path : k < Len(t.path) /\ t.path[k] = word

\* The path, with or without its query string, ends with '/word'.
EndsWith(t, word)      == t.path # <<>> /\ t.path[Len(t.path)] = word
EndsPlainly(t, word)   == EndsWith(t, word) /\ t.query = "none"

\* self.path.startswith('/collections/')
InCollections(t) == Len(t.path) > 1 /\ t.path[1] = "collections"

\* len(self.path.split('/')), and its element k: a segment, which has the query
\* string on it if it is the last one, or a piece of the query string.
Size(t) == 1 + Len(t.path) + (IF t.query = "slash" THEN 1 ELSE 0)
Piece == [text |-> "", query |-> TRUE]
Part(t, k) == IF k <= Len(t.path)
              THEN [text |-> t.path[k], query |-> k = Len(t.path) /\ t.query # "none"]
              ELSE Piece
LastPart(t) == Part(t, Size(t) - 1)

\* urlparse(self.path).path
WithoutQuery(t) == [t EXCEPT !.query = "none"]

-----------------------------------------------------------------------------
(* Outcomes.                                                               *)

Reach(handler, args) == [handler |-> handler, args |-> args]
NoAnswer == Reach("no answer", <<>>)

\* The arguments at the given places; an IndexError leaves do_GET and its like.
Take(handler, t, places) ==
  IF \E n \in DOMAIN places : places[n] >= Size(t) THEN NoAnswer
  ELSE Reach(handler, [n \in DOMAIN places |-> Part(t, places[n])])

\* The two tgsequence handlers split self.path themselves, inside their try
\* block: an IndexError there is a 500.
TakeInTry(handler, t, places) ==
  IF \E n \in DOMAIN places : places[n] >= Size(t) THEN Reach("error 500", <<>>)
  ELSE Take(handler, t, places)

-----------------------------------------------------------------------------
(* The four methods.                                                       *)

\* The derived queries; a path too short for its query falls through.
Derived(t, word) == Inside(t, "tgsequence") /\ Opens(t, word)

Faultydo_GET_itemsFirst(t) ==
  IF Opens(t, "items") /\ InCollections(t) THEN Take("get_collection_items", t, <<2>>)
  ELSE Take("get_collection_id", t, <<2>>)
do_GET(t) ==
  IF Derived(t, "distance") /\ Size(t) >= 7
    THEN Take("get_distance", t, <<2, 4, 6>>)
  ELSE IF Derived(t, "velocity") /\ ~Derived(t, "distance") /\ Size(t) >= 7
    THEN Take("get_velocity", t, <<2, 4, 6>>)
  ELSE IF /\ Derived(t, "acceleration") /\ Size(t) >= 7
          /\ ~Derived(t, "distance") /\ ~Derived(t, "velocity")
    THEN Take("get_acceleration", t, <<2, 4, 6>>)
  ELSE IF Inside(t, "tproperties")
    THEN Take("get_temporal_property", WithoutQuery(t), <<2, 4, 6>>)
  ELSE IF EndsWith(t, "tproperties")
    THEN Take("get_tproperties", WithoutQuery(t), <<2, 4>>)
  ELSE IF Mentions(t, "tgsequence")
    THEN TakeInTry("get_tgsequence", t, <<2, 4>>)
  ELSE IF InCollections(t) /\ Inside(t, "items") /\ Size(t) = 5
    THEN Take("get_movement_single_moving_feature", t, <<2, 4>>)
  ELSE IF Opens(t, "items") /\ InCollections(t)
    THEN Take("get_collection_items", t, <<2>>)
  ELSE IF t.path = <<"collections">> /\ t.query = "none"
    THEN Reach("get_collections", <<>>)
  ELSE IF InCollections(t) /\ EndsWith(t, "export")
    THEN Take("export_collection", WithoutQuery(t), <<2>>)
  ELSE IF InCollections(t)
    THEN Reach("get_collection_id", <<LastPart(WithoutQuery(t))>>)
  ELSE IF Len(t.path) = 1 /\ t.path[1] \in {"health", "conformance", "api"} /\ t.query = "none"
    THEN Reach(t.path[1], <<>>)
  ELSE IF t.path = <<>> /\ t.query = "none"
    THEN Reach("home", <<>>)
  ELSE NoAnswer

do_POST(t) ==
  IF EndsPlainly(t, "tproperties")
    THEN Take("post_tproperties", t, <<2, 4>>)
  ELSE IF Inside(t, "tproperties")
    THEN Take("post_temporal_property", t, <<2, 4, 6>>)
  ELSE IF Mentions(t, "tgsequence")
    THEN TakeInTry("post_tgsequence", t, <<2, 4>>)
  ELSE IF t.path = <<"collections">> /\ t.query = "none"
    THEN Reach("post_collections", <<>>)
  ELSE IF InCollections(t) /\ EndsPlainly(t, "bulk")
    THEN Take("post_bulk", t, <<2>>)
  ELSE IF Opens(t, "items") /\ InCollections(t)
    THEN Take("post_collection_items", t, <<2>>)
  ELSE NoAnswer

Faultydo_DELETE_noItemsTest(t) ==
  IF Mentions(t, "tgsequence")
    THEN Take("delete_single_temporal_primitive_geo", t, <<2, 4, 6>>)
  ELSE IF InCollections(t) THEN Reach("delete_collection", <<LastPart(t)>>)
  ELSE NoAnswer
do_DELETE(t) ==
  IF Mentions(t, "tgsequence")
    THEN Take("delete_single_temporal_primitive_geo", t, <<2, 4, 6>>)
  ELSE IF InCollections(t) /\ ~Mentions(t, "items")
    THEN Reach("delete_collection", <<LastPart(t)>>)
  ELSE IF InCollections(t) /\ Inside(t, "items") /\ Size(t) = 5
    THEN Take("delete_single_moving_feature", t, <<2, 4>>)
  ELSE IF Inside(t, "tproperties")
    THEN Take("delete_temporal_property", t, <<2, 4, 6>>)
  ELSE NoAnswer

do_PUT(t) ==
  IF InCollections(t) /\ Inside(t, "items") /\ Size(t) = 5
    THEN Take("put_single_moving_feature", t, <<2, 4>>)
  ELSE IF InCollections(t)
    THEN Reach("put_collection", <<LastPart(t)>>)
  ELSE NoAnswer

Dispatch(method, t) ==
  CASE method = "GET"    -> do_GET(t)
    [] method = "POST"   -> do_POST(t)
    [] method = "DELETE" -> do_DELETE(t)
    [] method = "PUT"    -> do_PUT(t)

-----------------------------------------------------------------------------
(* The API as it is documented: what do_api lists, and the comments that   *)
(* stand over the tests.                                                   *)

\* Every path is the beginning of /collections/{c}/items/{f}, up to depth, and
\* then the rest, in which "x" stands for a third identifier.
Route(method, depth, rest) == [method |-> method, depth |-> depth, rest |-> rest]

Routes ==
  [get_collections        |-> Route("GET", 1, <<>>),
   post_collections       |-> Route("POST", 1, <<>>),
   get_collection_id      |-> Route("GET", 2, <<>>),
   put_collection         |-> Route("PUT", 2, <<>>),
   delete_collection      |-> Route("DELETE", 2, <<>>),
   export_collection      |-> Route("GET", 2, <<"export">>),
   post_bulk              |-> Route("POST", 2, <<"bulk">>),
   get_collection_items   |-> Route("GET", 3, <<>>),
   post_collection_items  |-> Route("POST", 3, <<>>),
   get_movement_single_moving_feature |-> Route("GET", 4, <<>>),
   put_single_moving_feature    |-> Route("PUT", 4, <<>>),
   delete_single_moving_feature |-> Route("DELETE", 4, <<>>),
   get_tgsequence         |-> Route("GET", 4, <<"tgsequence">>),
   post_tgsequence        |-> Route("POST", 4, <<"tgsequence">>),
   delete_single_temporal_primitive_geo |-> Route("DELETE", 4, <<"tgsequence", "x">>),
   get_distance           |-> Route("GET", 4, <<"tgsequence", "x", "distance">>),
   get_velocity           |-> Route("GET", 4, <<"tgsequence", "x", "velocity">>),
   get_acceleration       |-> Route("GET", 4, <<"tgsequence", "x", "acceleration">>),
   get_tproperties        |-> Route("GET", 4, <<"tproperties">>),
   post_tproperties       |-> Route("POST", 4, <<"tproperties">>),
   get_temporal_property  |-> Route("GET", 4, <<"tproperties", "x">>),
   post_temporal_property |-> Route("POST", 4, <<"tproperties", "x">>),
   delete_temporal_property |-> Route("DELETE", 4, <<"tproperties", "x">>)]

Endpoints == DOMAIN Routes
\* The handlers that read a query string: the listing takes limit, bbox and
\* datetime, properties and derived queries datetime, the export its format.
Querying == {"get_collection_items", "export_collection", "get_tproperties",
             "get_temporal_property", "get_distance", "get_velocity", "get_acceleration"}

\* The documented request line for an endpoint ...
Request(handler, ids, query) ==
  LET route == Routes[handler]
      rest  == [n \in DOMAIN route.rest |-> IF route.rest[n] = "x" THEN ids.x ELSE route.rest[n]]
  IN  [method |-> route.method,
       target |-> [path  |-> SubSeq(<<"collections", ids.c, "items", ids.f>>, 1, route.depth) \o rest,
                   query |-> query]]

\* ... and what it should reach: that handler, with the identifiers as they are.
Documented(handler, ids) ==
  LET route == Routes[handler]
      args  == SubSeq(<<ids.c, ids.f>>, 1, route.depth \div 2)
                 \o IF \E n \in DOMAIN route.rest : route.rest[n] = "x" THEN <<ids.x>> ELSE <<>>
  IN  Reach(handler, [n \in DOMAIN args |-> [text |-> args[n], query |-> FALSE]])
=============================================================================
