---------------------------- MODULE Dispatching ----------------------------
(***************************************************************************)
(* The dispatcher framework of src/mobilityapi: a MEOS function is found   *)
(* in the catalogue, its parameters are decoded, validated and handed to   *)
(* the function, and the result is encoded.  POST /functions/{name} calls  *)
(* any function; the read routes of movfeat.py call one each.  Nothing is  *)
(* kept between calls, so one call at a time shows everything.             *)
(***************************************************************************)
EXTENDS Integers, Sequences

CONSTANTS Catalog,     \* function name -> entry of meos-idl.json
          Parameters,  \* names of parameters, declared or not
          Decoders,    \* the encodings the WireCodec decodes ...
          Encoders,    \* ... and those it encodes
          Resolvable   \* the functions the resolver knows

None == "none"
\* What movfeat.py dispatches.
DERIVED_FN == [velocity |-> "tpoint_speed", distance |-> "tpoint_cumulative_length"]
EXPORT_FN  == "temporal_as_mfjson"
Dispatched == {"tgsequence", "tproperties"} \cup DOMAIN DERIVED_FN

\* kind and decode are those of wire.params, decode being that of the element
\* for an array; encode is that of wire.result.
ASSUME CatalogAssumption ==
  \A n \in DOMAIN Catalog :
     /\ Catalog[n].exposable \in {"yes", "no", "missing"}
     /\ Catalog[n].params \in Seq(Parameters)
     /\ DOMAIN Catalog[n].wire \subseteq Parameters
     /\ \A p \in DOMAIN Catalog[n].wire : Catalog[n].wire[p].kind \in {"serialized", "array", "json"}

VARIABLES pc,       \* the step of the call, "idle" between calls
          call,     \* its route, function and wire values
          left,     \* parameters still to be decoded
          args,     \* those that are, as they go to the function
          ran,      \* history: what functions ran on
          status    \* of the answer, 0 before

vars == <<pc, call, left, args, ran, status>>

-----------------------------------------------------------------------------
(* The catalogue.                                                          *)

FaultyExposed_explicitly == {n \in DOMAIN Catalog : Catalog[n].exposable = "yes"}
Exposed == {n \in DOMAIN Catalog : Catalog[n].exposable # "no"}

Declared(n) == {Catalog[n].params[k] : k \in DOMAIN Catalog[n].params}

FaultyEncodingOf_inverted(n, p) ==
  IF p \in DOMAIN Catalog[n].wire /\ Catalog[n].wire[p].kind = "json"
  THEN Catalog[n].wire[p].decode ELSE None
\* decode_per_param
EncodingOf(n, p) ==
  IF p \in DOMAIN Catalog[n].wire /\ Catalog[n].wire[p].kind # "json"
  THEN Catalog[n].wire[p].decode ELSE None

-----------------------------------------------------------------------------
(* A call.                                                                 *)

\* What a client may send for a parameter, or a FeatureStore hold: a string that
\* its decoder decodes, one that makes it raise, or no string at all, that is an
\* object, an array, a number.
WireValues == {"sound", "malformed", "not a string"}

NoArgs == [p \in {} |-> p]
NoCall == [route |-> None, name |-> None, given |-> NoArgs, stored |-> None]

Begin(c) ==
  /\ pc = "idle" /\ call' = c /\ pc' = "look up"
  /\ UNCHANGED <<left, args, ran, status>>

\* POST /functions/{name} with {"params": ...}
Invoke ==
  \E n \in DOMAIN Catalog \cup {"no such function"}, P \in SUBSET Parameters :
  \E given \in [P -> WireValues] :
    Begin([route |-> "functions", name |-> n, given |-> given, stored |-> None])

\* GET /collections/{c}/items/{f}/tgsequence and its like; stored is what the
\* FeatureStore has.
Get ==
  \E route \in Dispatched \cup {"acceleration", "heading"},
     stored \in {"no store", "nothing"} \cup WireValues :
    Begin([route |-> route, given |-> NoArgs, stored |-> stored,
           name |-> IF route \in DOMAIN DERIVED_FN THEN DERIVED_FN[route] ELSE EXPORT_FN])

Answer(code) == pc' = "answered" /\ status' = code /\ UNCHANGED <<call, left, args, ran>>

\* What get_derived, _ctx, the routes and _dispatch_unary answer without
\* decoding anything; 0 if they go on.
RouteRefusal ==
  IF call.route = "acceleration" THEN 501
  ELSE IF call.route \notin Dispatched THEN 404
  ELSE IF call.stored = "no store" THEN 501
  ELSE IF call.stored = "nothing" THEN 404
  ELSE IF call.name \notin Exposed THEN 501
  ELSE IF Catalog[call.name].params = <<>> THEN 500 ELSE 0

LookUpFunction ==
  /\ pc = "look up" /\ call.route = "functions"
  /\ \/ call.name \notin Exposed /\ Answer(404)
     \/ /\ call.name \in Exposed
        /\ pc' = "decode" /\ left' = DOMAIN call.given
        /\ UNCHANGED <<call, args, ran, status>>

\* A route passes what is stored as the first parameter, and no other.
LookUpFeature ==
  /\ pc = "look up" /\ call.route # "functions"
  /\ \/ RouteRefusal # 0 /\ Answer(RouteRefusal)
     \/ /\ RouteRefusal = 0
        /\ LET p == Head(Catalog[call.name].params) IN
             left' = {p} /\ call' = [call EXCEPT !.given = [q \in {p} |-> call.stored]]
        /\ pc' = "decode" /\ UNCHANGED <<args, ran, status>>

\* The encoding a parameter is decoded with: a route always uses MF-JSON.
EncodingUsed(p) == IF call.route = "functions" THEN EncodingOf(call.name, p) ELSE "mfjson"

\* A decoder that is missing is a KeyError, and so is one that the value makes
\* decode raise; other exceptions of a decoder leave the handler.
DecodeFailure(keyError) == IF keyError /\ call.route = "functions" THEN 400 ELSE 500

FaultyPassesThrough_everywhere(encoding, value) == value = "not a string"
\* The production codec: its MF-JSON decoder returns what is no string as it came.
\* The others hand it to PyMEOS, which raises.
PassesThrough(encoding, value) == encoding = "mfjson" /\ value = "not a string"

\* One parameter, in the order of the body.  An array reaches the decoder of its
\* elements as a whole.
DecodeOne ==
  /\ pc = "decode"
  /\ \E p \in left :
       LET encoding == EncodingUsed(p)
           given == call.given[p]
           Got(value) == /\ args' = [q \in DOMAIN args \cup {p} |->
                                       IF q = p THEN value ELSE args[q]]
                         /\ left' = left \ {p}
                         /\ UNCHANGED <<pc, call, ran, status>>
       IN  \/ encoding = None /\ Got("as it came")
           \/ encoding # None /\ encoding \notin Decoders /\ Answer(DecodeFailure(TRUE))
           \/ /\ encoding \in Decoders
              /\ \/ given = "sound" /\ Got("decoded")
                 \/ PassesThrough(encoding, given) /\ Got("as it came")
                 \/ /\ given # "sound" /\ ~PassesThrough(encoding, given)
                    /\ \E keyError \in BOOLEAN : Answer(DecodeFailure(keyError))

Decoded ==
  /\ pc = "decode" /\ left = {}
  /\ pc' = "dispatch" /\ UNCHANGED <<call, left, args, ran, status>>

FaultyMismatch_missingOnly(n, given) == Declared(n) \ given # {}
\* missing or unexpected
Mismatch(n, given) == Declared(n) # given

\* A TypeError is the client's for POST /functions/{name}; the routes do not
\* catch it.
TypeErrorStatus == IF call.route = "functions" THEN 400 ELSE 500

\* _validate_params, then the resolver, then the function.
dispatch ==
  /\ pc = "dispatch"
  /\ IF Mismatch(call.name, DOMAIN args) THEN Answer(TypeErrorStatus)
     ELSE IF call.name \notin Resolvable THEN Answer(500)
     ELSE /\ ran' = Append(ran, [name |-> call.name, args |-> args])
          /\ \/ pc' = "encode" /\ UNCHANGED status
             \/ pc' = "answered" /\ status' \in {TypeErrorStatus, 500}
          /\ UNCHANGED <<call, left, args>>

\* Without encode_return a result is returned as it is, which JSON may not take.
ResultEncoding ==
  IF call.route = "functions" THEN Catalog[call.name].encode ELSE "mfjson"

Encode ==
  /\ pc = "encode"
  /\ \/ ResultEncoding \in Encoders \cup {None} /\ Answer(200)
     \/ Answer(500)

End ==
  /\ pc = "answered"
  /\ pc' = "idle" /\ call' = NoCall /\ left' = {} /\ args' = NoArgs /\ ran' = <<>> /\ status' = 0

Init ==
  pc = "idle" /\ call = NoCall /\ left = {} /\ args = NoArgs /\ ran = <<>> /\ status = 0

Next == Invoke \/ Get \/ LookUpFunction \/ LookUpFeature \/ DecodeOne \/ Decoded \/ dispatch \/ Encode \/ End
Spec == Init /\ [][Next]_vars

-----------------------------------------------------------------------------
(* Properties.                                                             *)

\* Parameters that the catalogue labels with a decoder, for the value or for its
\* elements.
Opaque(n) == {p \in DOMAIN Catalog[n].wire :
  Catalog[n].wire[p].kind \in {"serialized", "array"} /\ Catalog[n].wire[p].decode # None}

\* What reaches a function undecoded, although it is labelled with a decoder: only
\* what is no string, and only as MF-JSON.
ComesAsItIs(p) ==
  /\ call.given[p] = "not a string"
  /\ call.route = "functions" => Catalog[call.name].wire[p].decode = "mfjson"

\* No function runs that the catalogue does not expose, and none with a parameter
\* missing or too many.  Whatever the order in which parameters fail, none runs on
\* a string that is still encoded, and on anything else that is not decoded only
\* where MF-JSON is declared; none runs twice for one call.
RunsAsDeclared ==
  /\ Len(ran) <= 1
  /\ \A k \in DOMAIN ran : LET n == ran[k].name IN
       /\ n \in DOMAIN Catalog /\ Catalog[n].exposable # "no"
       /\ DOMAIN ran[k].args = Declared(n)
       /\ \A p \in Opaque(n) \cap Declared(n) :
             ran[k].args[p] = "decoded" \/ (ran[k].args[p] = "as it came" /\ ComesAsItIs(p))

\* "missing / extra params [surface] as 400 errors": a call with another set of
\* parameters runs nothing and is the client's fault, unless a decoder raised
\* before the set was looked at.
MismatchIsTheClients ==
  /\ pc = "answered" /\ call.route = "functions" /\ call.name \in Exposed
  /\ DOMAIN call.given # Declared(call.name)
  => /\ ran = <<>>
     /\ status = 400 \/ (status = 500 /\ left # {})

\* A success is one: the function that was asked for ran, once, and a route
\* answered with something that is stored.  No value was malformed, and what was no
\* string only where the MF-JSON decoder lets it pass.
SuccessRanTheFunction ==
  status = 200 =>
    /\ Len(ran) = 1 /\ ran[1].name = call.name
    /\ call.route # "functions" => call.stored \in {"sound", "not a string"}
    /\ \A p \in Opaque(call.name) \cap DOMAIN call.given :
          call.given[p] = "sound" \/ ComesAsItIs(p)

\* "not found" is said of what is not there only: an unknown function, feature or
\* measure, and never after anything was decoded or ran.
NotFoundIsNotThere ==
  status = 404 =>
    /\ ran = <<>> /\ args = NoArgs
    /\ \/ call.route = "functions" /\ (call.name \in DOMAIN Catalog => Catalog[call.name].exposable = "no")
       \/ call.stored = "nothing" \/ call.route = "heading"
=============================================================================
