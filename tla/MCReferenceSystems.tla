------------------------- MODULE MCReferenceSystems -------------------------
(***************************************************************************)
(* A small instance of ReferenceSystems for TLC.                           *)
(***************************************************************************)
EXTENDS ReferenceSystems, TLC

CONSTANTS c1, c2, f1, f2

\* urn:ogc:def:crs:EPSG::25832, urn:ogc:def:crs:OGC:1.3:CRS84, and a name
\* without a number.
MCCrs == {"epsg 25832", "crs84", "local"}
MCFirstNumber == [crs \in MCCrs |->
  CASE crs = "epsg 25832" -> 25832 [] crs = "crs84" -> 1 [] crs = "local" -> NoNumber]
MCEpsgCode == [crs \in MCCrs |-> IF crs = "epsg 25832" THEN 25832 ELSE NoNumber]

\* No collection and no feature is special.
Symmetric == Permutations({c1, c2}) \cup Permutations({f1, f2})
=============================================================================
