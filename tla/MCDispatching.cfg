SPECIFICATION Spec
CONSTANTS
  Catalog <- MCCatalog
  Parameters = {"temp", "flags", "other"}
  Decoders = {"mfjson", "wkb"}
  Encoders = {"mfjson"}
  Resolvable = {"temporal_as_mfjson", "tpoint_cumulative_length", "tpoint_speed", "temporal_merge_array"}
INVARIANTS RunsAsDeclared MismatchIsTheClients SuccessRanTheFunction NotFoundIsNotThere
