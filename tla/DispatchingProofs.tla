------------------------- MODULE DispatchingProofs -------------------------
(***************************************************************************)
(* Proofs about Dispatching, for every catalogue, codec and resolver.      *)
(*                                                                         *)
(* What a function runs on was decided by earlier steps: the catalogue was *)
(* asked, each parameter was decoded, the set of parameters was compared.  *)
(* Progress says, for each step, what those before it have established; it *)
(* is inductive together with the properties.                              *)
(***************************************************************************)
EXTENDS Dispatching, TLAPS

Steps == {"idle", "look up", "decode", "dispatch", "encode", "answered"}

IsCall(c) == c = [route |-> c.route, name |-> c.name, given |-> c.given, stored |-> c.stored]

\* What has passed its decoder, parameter by parameter, was sound, or no string
\* where MF-JSON is declared.
DecodedSoFar ==
  /\ \A p \in DOMAIN args \cap Opaque(call.name) :
        \/ args[p] = "decoded" /\ call.given[p] = "sound"
        \/ args[p] = "as it came" /\ ComesAsItIs(p)
  /\ call.route # "functions" =>
        /\ DOMAIN call.given # {}
        /\ \A p \in DOMAIN call.given : call.given[p] = call.stored
        /\ \A p \in DOMAIN args : call.given[p] \in {"sound", "not a string"}

Progress ==
  /\ pc \in Steps
  /\ IsCall(call)
  /\ pc # "answered" => status = 0
  /\ pc \in {"idle", "look up", "decode", "dispatch"} => ran = <<>>
  /\ pc \in {"idle", "look up"} => args = NoArgs
  /\ pc \in {"decode", "dispatch", "encode"} => call.name \in Exposed /\ DecodedSoFar
  /\ pc = "decode" => DOMAIN args \cup left = DOMAIN call.given
  /\ pc \in {"dispatch", "encode"} => DOMAIN args = DOMAIN call.given
  /\ pc = "encode" =>
        /\ DOMAIN args = Declared(call.name)
        /\ ran = <<[name |-> call.name, args |-> args]>>

Inv == Progress /\ RunsAsDeclared /\ MismatchIsTheClients /\ SuccessRanTheFunction

\* A property of what ran, of an answer or of a success is kept by a step that
\* runs nothing, does not answer, or does not succeed.
LEMMA RunKept == RunsAsDeclared /\ UNCHANGED <<ran, call>> => RunsAsDeclared'
<1> SUFFICES ASSUME RunsAsDeclared, UNCHANGED <<ran, call>>
             PROVE  RunsAsDeclared'
  OBVIOUS
<1>1. \A p : ComesAsItIs(p) => ComesAsItIs(p)'
  BY DEF ComesAsItIs
<1>2. QED
  BY <1>1 DEF RunsAsDeclared
LEMMA NothingRan == ran' = <<>> => RunsAsDeclared'
  BY DEF RunsAsDeclared
LEMMA StillServed == pc' # "answered" => MismatchIsTheClients'
  BY DEF MismatchIsTheClients
LEMMA NoSuccess == status' # 200 => SuccessRanTheFunction'
  BY DEF SuccessRanTheFunction
LEMMA NoAnswerYet == status' = 0 => SuccessRanTheFunction'
<1>1. status' = 0 => status' # 200
  OBVIOUS
<1>2. QED
  BY <1>1, NoSuccess

\* The route's refusals are errors, and without one its function is exposed.
LEMMA RefusalIsAnError == RouteRefusal \in {0, 404, 500, 501}
  BY DEF RouteRefusal
LEMMA NoRefusal == RouteRefusal = 0 => call.name \in Exposed
<1>1. ASSUME call.name \notin Exposed
      PROVE  RouteRefusal \in {404, 501}
  BY <1>1 DEF RouteRefusal
<1>2. QED
  BY <1>1

\* The invariant holds while no call is served.
LEMMA InitInv == Init => Inv
  BY DEF Init, Inv, Progress, Steps, IsCall, NoCall, RunsAsDeclared, MismatchIsTheClients,
         SuccessRanTheFunction

\* Every step of a call keeps it.
LEMMA NextInv == Inv /\ [Next]_vars => Inv'
<1> SUFFICES ASSUME Inv, [Next]_vars
             PROVE  Inv'
  OBVIOUS
<1> USE DEF Inv
<1>1. CASE Invoke
  <2>0. pc = "idle" /\ pc' = "look up" /\ UNCHANGED <<left, args, ran, status>>
    BY <1>1 DEF Invoke, Begin
  <2>1. Progress'
    <3>1. IsCall(call')
      BY <1>1 DEF Invoke, Begin, IsCall
    <3>2. QED
      BY <2>0, <3>1 DEF Progress, Steps
  <2>2. RunsAsDeclared'
    BY <2>0, NothingRan DEF Progress
  <2>3. MismatchIsTheClients'
    BY <1>1, StillServed DEF Invoke, Begin, Progress
  <2>4. SuccessRanTheFunction'
    <3>1. status' = 0
      BY <2>0 DEF Progress
    <3>2. QED
      BY <3>1, NoAnswerYet
  <2>5. QED
    BY <2>1, <2>2, <2>3, <2>4
<1>2. CASE Get
  <2>0. pc = "idle" /\ pc' = "look up" /\ UNCHANGED <<left, args, ran, status>>
    BY <1>2 DEF Get, Begin
  <2>1. Progress'
    <3>1. IsCall(call')
      BY <1>2 DEF Get, Begin, IsCall
    <3>2. QED
      BY <2>0, <3>1 DEF Progress, Steps
  <2>2. RunsAsDeclared'
    BY <2>0, NothingRan DEF Progress
  <2>3. MismatchIsTheClients'
    BY <1>2, StillServed DEF Get, Begin, Progress
  <2>4. SuccessRanTheFunction'
    <3>1. status' = 0
      BY <2>0 DEF Progress
    <3>2. QED
      BY <3>1, NoAnswerYet
  <2>5. QED
    BY <2>1, <2>2, <2>3, <2>4
<1>3. CASE LookUpFunction
  <2>1. Progress'
    BY <1>3 DEF LookUpFunction, Answer, NoArgs, Progress, Steps, IsCall, DecodedSoFar
  <2>2. RunsAsDeclared'
    BY <1>3, RunKept DEF LookUpFunction, Answer
  <2>3. MismatchIsTheClients'
    BY <1>3 DEF LookUpFunction, Answer, MismatchIsTheClients
  <2>4. SuccessRanTheFunction'
    <3>1. status = 0
      BY <1>3 DEF LookUpFunction, Progress
    <3>2. status' \in {0, 404}
      BY <1>3, <3>1 DEF LookUpFunction, Answer
    <3>3. QED
      BY <3>2, NoAnswerYet, NoSuccess
  <2>5. QED
    BY <2>1, <2>2, <2>3, <2>4
<1>4. CASE LookUpFeature
  <2>1. Progress'
    <3>1. CASE pc' = "answered"
      BY <1>4, <3>1 DEF LookUpFeature, Answer, Progress, Steps
    <3>2. CASE pc' # "answered"
      <4> DEFINE p == Head(Catalog[call.name].params)
      <4>1. /\ pc = "look up" /\ call.route # "functions" /\ RouteRefusal = 0 /\ pc' = "decode"
            /\ left' = {p} /\ call' = [call EXCEPT !.given = [q \in {p} |-> call.stored]]
            /\ UNCHANGED <<args, ran, status>>
        BY <1>4, <3>2 DEF LookUpFeature, Answer
      <4>2. call.name \in Exposed
        BY <4>1, NoRefusal
      <4>3. /\ call' = [route |-> call.route, name |-> call.name, stored |-> call.stored,
                        given |-> [q \in {p} |-> call.stored]]
            /\ IsCall(call')
        BY <4>1 DEF Progress, IsCall
      <4>4. args' = NoArgs /\ ran' = <<>> /\ status' = 0
        BY <4>1 DEF Progress
      <4>5. DecodedSoFar'
        BY <4>3, <4>4 DEF DecodedSoFar, NoArgs
      <4>6. DOMAIN args' \cup left' = DOMAIN call'.given
        BY <4>1, <4>3, <4>4 DEF NoArgs
      <4>7. QED
        BY <4>1, <4>2, <4>3, <4>4, <4>5, <4>6 DEF Progress, Steps
    <3>3. QED
      BY <3>1, <3>2
  <2>2. RunsAsDeclared'
    BY <1>4, NothingRan DEF LookUpFeature, Answer, Progress
  <2>3. MismatchIsTheClients'
    BY <1>4 DEF LookUpFeature, Answer, MismatchIsTheClients, Progress, IsCall
  <2>4. SuccessRanTheFunction'
    <3>1. status = 0
      BY <1>4 DEF LookUpFeature, Progress
    <3>2. status' \in {0, 404, 500, 501}
      BY ZenonT(60), <1>4, <3>1, RefusalIsAnError DEF LookUpFeature, Answer
    <3>3. QED
      BY <3>2, NoAnswerYet, NoSuccess
  <2>5. QED
    BY <2>1, <2>2, <2>3, <2>4
<1>5. CASE DecodeOne
  <2>1. Progress'
    <3>1. CASE pc' = "answered"
      BY <1>5, <3>1 DEF DecodeOne, Answer, Progress, Steps
    <3>2. CASE pc' # "answered"
      <4>1. PICK p \in left, value \in {"as it came", "decoded"} :
              /\ args' = [q \in DOMAIN args \cup {p} |-> IF q = p THEN value ELSE args[q]]
              /\ left' = left \ {p} /\ UNCHANGED <<pc, call, ran, status>>
              /\ value = "decoded" => call.given[p] = "sound"
              /\ value = "as it came" =>
                   EncodingUsed(p) = None \/ PassesThrough(EncodingUsed(p), call.given[p])
        BY <1>5, <3>2 DEF DecodeOne, Answer
      <4>a. /\ value = "as it came" /\ call.route # "functions" => call.given[p] = "not a string"
            /\ value = "as it came" /\ p \in Opaque(call.name) => ComesAsItIs(p)
        BY <4>1 DEF EncodingUsed, EncodingOf, PassesThrough, Opaque, ComesAsItIs, None
      <4>2. DecodedSoFar'
        BY ZenonT(60), <1>5, <4>1, <4>a DEF DecodeOne, Progress, DecodedSoFar, Opaque, ComesAsItIs
      <4>3. QED
        BY <1>5, <4>1, <4>2 DEF DecodeOne, Progress, Steps, Exposed
    <3>3. QED
      BY <3>1, <3>2
  <2>2. RunsAsDeclared'
    BY <1>5, RunKept DEF DecodeOne, Answer
  <2>3. MismatchIsTheClients'
    BY <1>5 DEF DecodeOne, DecodeFailure, Answer, MismatchIsTheClients, Progress
  <2>4. SuccessRanTheFunction'
    <3>1. status = 0
      BY <1>5 DEF DecodeOne, Progress
    <3>2. status' \in {0, 400, 500}
      BY <1>5, <3>1 DEF DecodeOne, DecodeFailure, Answer
    <3>3. QED
      BY <3>2, NoAnswerYet, NoSuccess
  <2>5. QED
    BY <2>1, <2>2, <2>3, <2>4
<1>6. CASE Decoded
  <2>1. Progress'
    BY <1>6 DEF Decoded, Progress, Steps, IsCall, DecodedSoFar, ComesAsItIs
  <2>2. RunsAsDeclared'
    BY <1>6, RunKept DEF Decoded
  <2>3. MismatchIsTheClients'
    BY <1>6, StillServed DEF Decoded
  <2>4. SuccessRanTheFunction'
    <3>1. status' # 200
      BY <1>6 DEF Decoded, Progress
    <3>2. QED
      BY <3>1, NoSuccess
  <2>5. QED
    BY <2>1, <2>2, <2>3, <2>4
<1>7. CASE dispatch
  <2> DEFINE run == [name |-> call.name, args |-> args]
  <2>a. /\ pc = "dispatch" /\ ran = <<>> /\ status = 0 /\ UNCHANGED <<call, left, args>>
        /\ call.name \in Exposed /\ DecodedSoFar /\ DOMAIN args = DOMAIN call.given
    BY <1>7 DEF dispatch, Answer, Progress
  <2>b. ASSUME UNCHANGED ran, pc' = "answered"
        PROVE  Progress' /\ RunsAsDeclared'
    <3>1. Progress'
      BY <2>a, <2>b DEF Progress, Steps, IsCall
    <3>2. QED
      BY <2>a, <2>b, <3>1, RunKept
  <2>c. ASSUME DOMAIN args = Declared(call.name), ran' = Append(ran, run),
               \/ pc' = "encode" /\ UNCHANGED status
               \/ pc' = "answered"
        PROVE  Progress' /\ RunsAsDeclared'
    <3>1. ran' = <<run>>
      BY <2>a, <2>c
    <3>2. DecodedSoFar'
      BY <2>a DEF DecodedSoFar, Opaque, ComesAsItIs
    <3>3. Progress'
      BY <2>a, <2>c, <3>1, <3>2 DEF Progress, Steps, IsCall, Declared, Exposed
    <3>4. call.name \in DOMAIN Catalog /\ Catalog[call.name].exposable # "no"
      BY <2>a DEF Exposed
    <3>5. \A p \in Opaque(call.name) \cap Declared(call.name) :
            args[p] = "decoded" \/ (args[p] = "as it came" /\ ComesAsItIs(p))
      BY <2>a, <2>c DEF DecodedSoFar
    <3>6. RunsAsDeclared'
      <4>1. Len(ran') <= 1 /\ \A k \in DOMAIN ran' : ran'[k] = run
        BY <3>1
      <4>2. run.name = call.name /\ run.args = args /\ DOMAIN run.args = Declared(run.name)
        BY <2>c
      <4>3. \A p : ComesAsItIs(p) => ComesAsItIs(p)'
        BY Zenon, <2>a DEF ComesAsItIs
      <4>4. \A p \in Opaque(run.name) \cap Declared(run.name) :
              run.args[p] = "decoded" \/ (run.args[p] = "as it came" /\ ComesAsItIs(p)')
        BY Zenon, <3>5, <4>2, <4>3
      <4>5. QED
        <5> HIDE DEF run
        <5> QED
          BY Zenon, <3>4, <4>1, <4>2, <4>4 DEF RunsAsDeclared
    <3>7. QED
      BY <3>3, <3>6
  <2>1. Progress' /\ RunsAsDeclared'
    BY <1>7, <2>b, <2>c DEF dispatch, Mismatch, Answer
  <2>3. MismatchIsTheClients'
    BY <1>7 DEF dispatch, Mismatch, TypeErrorStatus, Answer, MismatchIsTheClients, Progress
  <2>4. SuccessRanTheFunction'
    <3>1. status' # 200
      BY <1>7 DEF dispatch, TypeErrorStatus, Answer, Progress
    <3>2. QED
      BY <3>1, NoSuccess
  <2>5. QED
    BY <2>1, <2>3, <2>4
<1>8. CASE Encode
  <2>1. Progress'
    BY <1>8 DEF Encode, Answer, Progress, Steps, IsCall, DecodedSoFar, ComesAsItIs
  <2>2. RunsAsDeclared'
    BY <1>8, RunKept DEF Encode, Answer
  <2>3. MismatchIsTheClients'
    BY <1>8 DEF Encode, Answer, MismatchIsTheClients, Progress
  <2>4. SuccessRanTheFunction'
    <3>1. CASE status' = 200
      <4>1. /\ call' = call /\ ran' = ran /\ DecodedSoFar /\ DOMAIN args = DOMAIN call.given
            /\ ran = <<[name |-> call.name, args |-> args]>>
        BY <1>8 DEF Encode, Answer, Progress
      <4>2. Len(ran') = 1 /\ ran'[1].name = call.name
        BY <4>1
      <4>3. call.route # "functions" => call.stored \in {"sound", "not a string"}
        BY <4>1 DEF DecodedSoFar
      <4>4. \A p \in Opaque(call.name) \cap DOMAIN call.given :
              call.given[p] = "sound" \/ ComesAsItIs(p)
        BY <4>1 DEF DecodedSoFar
      <4>5. \A p : ComesAsItIs(p) => ComesAsItIs(p)'
        BY <4>1 DEF ComesAsItIs
      <4>6. QED
        BY <4>1, <4>2, <4>3, <4>4, <4>5 DEF SuccessRanTheFunction
    <3>2. QED
      BY <3>1, NoSuccess
  <2>5. QED
    BY <2>1, <2>2, <2>3, <2>4
<1>9. CASE End
  <2>1. Progress'
    BY <1>9 DEF End, NoCall, NoArgs, Progress, Steps, IsCall, DecodedSoFar, ComesAsItIs
  <2>2. RunsAsDeclared'
    BY <1>9, NothingRan DEF End
  <2>3. MismatchIsTheClients'
    BY <1>9, StillServed DEF End
  <2>4. SuccessRanTheFunction'
    <3>1. status' # 200
      BY <1>9 DEF End
    <3>2. QED
      BY <3>1, NoSuccess
  <2>5. QED
    BY <2>1, <2>2, <2>3, <2>4
<1>10. CASE UNCHANGED vars
  <2>1. Progress'
    <3>1. UNCHANGED <<pc, call, left, args, ran, status>>
      BY <1>10 DEF vars
    <3>2. DecodedSoFar => DecodedSoFar'
      BY <3>1 DEF DecodedSoFar, ComesAsItIs
    <3>3. QED
      BY <3>1, <3>2 DEF Progress, Steps, IsCall, NoArgs
  <2>2. QED
    <3>1. \A p : ComesAsItIs(p) => ComesAsItIs(p)'
      BY <1>10 DEF vars, ComesAsItIs
    <3>2. QED
      BY <1>10, <2>1, <3>1, RunKept DEF vars, MismatchIsTheClients, SuccessRanTheFunction
<1>11. QED
  BY <1>1, <1>2, <1>3, <1>4, <1>5, <1>6, <1>7, <1>8, <1>9, <1>10 DEF Next

\* So it is an invariant.
LEMMA AlwaysInv == Spec => []Inv
  BY InitInv, NextInv, PTL DEF Spec

\* No function runs that is not exposed, on parameters it does not declare, on a
\* string that is still encoded, or twice in one call; what is no string reaches it
\* undecoded only where MF-JSON is declared.  For every catalogue, and whatever
\* decoders and encoders are registered.
THEOREM FunctionsRunAsDeclared == Spec => []RunsAsDeclared
<1>1. Inv => RunsAsDeclared
  BY DEF Inv
<1>2. QED
  BY <1>1, AlwaysInv, PTL

\* A wrong set of parameters runs nothing and is answered as the client's fault.
THEOREM MismatchesAreTheClients == Spec => []MismatchIsTheClients
<1>1. Inv => MismatchIsTheClients
  BY DEF Inv
<1>2. QED
  BY <1>1, AlwaysInv, PTL

\* A success means that the function ran, once, on what was sent or stored, and that
\* nothing of it was malformed.
THEOREM SuccessesRanTheFunction == Spec => []SuccessRanTheFunction
<1>1. Inv => SuccessRanTheFunction
  BY DEF Inv
<1>2. QED
  BY <1>1, AlwaysInv, PTL

-----------------------------------------------------------------------------
(* What 404 says.  The routes are a closed list, so that a route that is   *)
(* not dispatched is one of the two that refuse outright.                  *)

Routes == {"functions", "acceleration", "heading"} \cup Dispatched
RouteKnown == pc = "idle" \/ call.route \in Routes

\* A route refuses with 404 only what is not stored, or heading.
LEMMA RefusedAsNotThere ==
  ASSUME call.route \in Routes, call.route # "functions", RouteRefusal = 404
  PROVE  call.stored = "nothing" \/ call.route = "heading"
<1>1. call.route = "acceleration" => RouteRefusal = 501
  BY DEF RouteRefusal
<1>2. ASSUME call.route \in Dispatched, call.stored # "nothing"
      PROVE  RouteRefusal \in {0, 500, 501}
  BY <1>2 DEF RouteRefusal
<1>3. QED
  BY <1>1, <1>2 DEF Routes

LEMMA NotFoundKept ==
  /\ status' # 404 => NotFoundIsNotThere'
  /\ NotFoundIsNotThere /\ UNCHANGED <<status, ran, args, call>> => NotFoundIsNotThere'
  BY DEF NotFoundIsNotThere

\* Only the two look-ups answer 404, before anything is decoded.
LEMMA NextFound ==
  Inv /\ RouteKnown /\ NotFoundIsNotThere /\ [Next]_vars => RouteKnown' /\ NotFoundIsNotThere'
<1> SUFFICES ASSUME Inv, RouteKnown, NotFoundIsNotThere, [Next]_vars
             PROVE  RouteKnown' /\ NotFoundIsNotThere'
  OBVIOUS
<1>0. /\ IsCall(call)
      /\ pc # "answered" => status = 0
      /\ pc = "look up" => ran = <<>> /\ args = NoArgs
  BY DEF Inv, Progress
<1>1. CASE Invoke
  <2>1. pc = "idle" /\ status' = status
    BY <1>1 DEF Invoke, Begin
  <2>2. PICK name, given :
          call' = [route |-> "functions", name |-> name, given |-> given, stored |-> None]
    BY <1>1 DEF Invoke, Begin
  <2>3. RouteKnown'
    BY <2>2 DEF RouteKnown, Routes
  <2>4. QED
    BY <1>0, <2>1, <2>3, NotFoundKept
<1>2. CASE Get
  <2>1. pc = "idle" /\ status' = status
    BY <1>2 DEF Get, Begin
  <2>2. PICK route \in Dispatched \cup {"acceleration", "heading"} :
          \E name, stored :
            call' = [route |-> route, given |-> NoArgs, stored |-> stored, name |-> name]
    BY <1>2 DEF Get, Begin
  <2>3. RouteKnown'
    BY <2>2 DEF RouteKnown, Routes
  <2>4. QED
    BY <1>0, <2>1, <2>3, NotFoundKept
<1>3. CASE LookUpFunction
  <2>1. /\ pc = "look up" /\ call.route = "functions"
        /\ UNCHANGED <<call, args, ran>>
        /\ call.name \notin Exposed \/ status' = status
    BY <1>3 DEF LookUpFunction, Answer
  <2>2. RouteKnown'
    BY <2>1 DEF RouteKnown, Routes
  <2>3. CASE call.name \notin Exposed
    BY <1>0, <2>1, <2>2, <2>3 DEF NotFoundIsNotThere, Exposed
  <2>4. CASE status' = status
    BY <1>0, <2>1, <2>2, <2>4, NotFoundKept
  <2>5. QED
    BY <2>1, <2>3, <2>4
<1>4. CASE LookUpFeature
  <2>1. /\ pc = "look up" /\ call.route # "functions" /\ call.route \in Routes
        /\ call'.route = call.route /\ UNCHANGED <<args, ran>>
        /\ status' = status \/ (status' = RouteRefusal /\ call' = call)
    BY <1>0, <1>4 DEF LookUpFeature, Answer, RouteKnown, IsCall
  <2>2. RouteKnown'
    BY <2>1 DEF RouteKnown
  <2>3. CASE status' = status
    <3>1. status = 0
      BY <1>0, <2>1
    <3>2. status' # 404
      BY <2>3, <3>1
    <3>3. QED
      BY <2>2, <3>2, NotFoundKept
  <2>4. CASE status' = RouteRefusal /\ call' = call
    BY <1>0, <2>1, <2>2, <2>4, RefusedAsNotThere DEF NotFoundIsNotThere
  <2>5. QED
    BY <2>1, <2>3, <2>4
<1>5. CASE DecodeOne
  <2>1. pc = "decode" /\ call' = call /\ status' \in {status, 400, 500}
    BY ZenonT(60), <1>5 DEF DecodeOne, DecodeFailure, Answer
  <2>2. QED
    BY <1>0, <2>1, NotFoundKept DEF RouteKnown
<1>6. CASE Decoded
  BY <1>0, <1>6, NotFoundKept DEF Decoded, RouteKnown
<1>7. CASE dispatch
  <2>1. pc = "dispatch" /\ call' = call /\ status' \in {status, 400, 500}
    BY <1>7 DEF dispatch, TypeErrorStatus, Answer
  <2>2. QED
    BY <1>0, <2>1, NotFoundKept DEF RouteKnown
<1>8. CASE Encode
  <2>1. pc = "encode" /\ call' = call /\ status' \in {200, 500}
    BY <1>8 DEF Encode, Answer
  <2>2. QED
    BY <1>0, <2>1, NotFoundKept DEF RouteKnown
<1>9. CASE End
  BY <1>9, NotFoundKept DEF End, RouteKnown
<1>10. CASE UNCHANGED vars
  BY <1>10, NotFoundKept DEF vars, RouteKnown
<1>11. QED
  BY <1>1, <1>2, <1>3, <1>4, <1>5, <1>6, <1>7, <1>8, <1>9, <1>10 DEF Next

\* "not found" is said of functions, features and measures that are not there,
\* and never after anything was decoded or ran.
THEOREM NotFoundWasNotThere == Spec => []NotFoundIsNotThere
<1>1. Init => RouteKnown /\ NotFoundIsNotThere
  BY DEF Init, RouteKnown, NotFoundIsNotThere
<1>2. QED
  BY <1>1, AlwaysInv, NextFound, PTL DEF Spec
=============================================================================
