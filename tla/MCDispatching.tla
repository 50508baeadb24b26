--------------------------- MODULE MCDispatching ---------------------------
(***************************************************************************)
(* A small catalogue for TLC: the functions the routes dispatch, with the  *)
(* parameters of the vendored meos-idl.json as far as they differ in kind, *)
(* and functions of other shapes.                                          *)
(***************************************************************************)
EXTENDS Dispatching, TLC

Entry(exposable, params, wire, encode) ==
  [exposable |-> exposable, params |-> params, wire |-> wire, encode |-> encode]
Serialized(encoding) == [kind |-> "serialized", decode |-> encoding]

MCCatalog ==
  [n \in {"temporal_as_mfjson", "tpoint_speed", "tpoint_cumulative_length",
          "temporal_merge_array", "tbigint_shift", "meos_initialize"} |->
   CASE n = "temporal_as_mfjson" ->
          Entry("yes", <<"temp", "flags">>,
                [p \in {"temp", "flags"} |-> IF p = "temp" THEN Serialized("mfjson")
                                             ELSE [kind |-> "json", decode |-> None]], None)
     [] n = "tpoint_speed" ->
          Entry("missing", <<"temp">>, "temp" :> Serialized("mfjson"), "mfjson")
     [] n = "tpoint_cumulative_length" ->
          Entry("no", <<"temp">>, "temp" :> Serialized("mfjson"), "mfjson")
     [] n = "temporal_merge_array" ->
          Entry("yes", <<"temp">>, "temp" :> [kind |-> "array", decode |-> "wkb"], "text")
     [] n = "tbigint_shift" ->
          Entry("yes", <<"temp", "flags">>, "temp" :> Serialized("tbigint_in"), "temporal_out")
     [] n = "meos_initialize" -> Entry("yes", <<>>, NoArgs, None)]
=============================================================================
