----------------------------- MODULE GeoDatasets -----------------------------
(***************************************************************************)
(* The geo datasets as their readers see them: versions that are stored    *)
(* whole, at most one of them active, and the verdict geo_validate_position *)
(* derives from the active one.  GeoImport implements this specification;  *)
(* GeoValidation reads it.                                                 *)
(*                                                                         *)
(* A polygon is represented by its spots: the sampled positions it covers  *)
(* and, of land, those on either side within the coastal tolerance of its  *)
(* boundary (edge).                                                        *)
(***************************************************************************)
CONSTANTS Versions,
          NoVersion,   \* no row of geo_dataset_versions is active
          Positions,
          Layerings    \* what an import may store: pairs of a version and its layers

Tables == {"land", "water", "overrides"}
Spots == [at : Positions, edge : BOOLEAN]
Layers == [Tables -> SUBSET Spots]
NoLayers == [t \in Tables |-> {}]

GeoDatasetsAssumption ==
  /\ NoVersion \notin Versions
  /\ Layerings \subseteq Versions \X Layers

VARIABLES
  active,   \* the version with is_active
  rows      \* per version: its rows in the three geometry tables

datasetVars == <<active, rows>>

DatasetsInit ==
  /\ active = NoVersion
  /\ rows = [v \in Versions |-> NoLayers]

-----------------------------------------------------------------------------
\* ensureImportHasData.
HasData(layers) == layers["land"] # {} /\ layers["water"] # {}

\* An import's transaction commits: a version appears with all its rows and takes over.
Activate(v, layers) ==
  /\ rows[v] = NoLayers
  /\ HasData(layers)
  /\ rows' = [rows EXCEPT ![v] = layers]
  /\ active' = v

DatasetsNext == \E x \in Layerings : Activate(x[1], x[2])

Datasets == DatasetsInit /\ [][DatasetsNext]_datasetVars

-----------------------------------------------------------------------------
Covers(layers, t, p) == \E s \in layers[t] : s.at = p
NearShore(layers, p) == \E s \in layers["land"] : s.at = p /\ s.edge

Reasons == {"dataset_unavailable", "manual_allow", "navigable_water", "coastal_tolerance",
            "deep_land", "not_land"}

\* geo_validate_position, in its order; the function is STABLE, so all its queries see the
\* snapshot of the statement that calls it.
ReasonBy(v, p) ==
  IF v = NoVersion THEN "dataset_unavailable"
  ELSE IF Covers(rows[v], "overrides", p) THEN "manual_allow"
  ELSE IF Covers(rows[v], "water", p) THEN "navigable_water"
  ELSE IF NearShore(rows[v], p) THEN "coastal_tolerance"
  ELSE IF Covers(rows[v], "land", p) THEN "deep_land"
  ELSE "not_land"
=============================================================================
