------------------------------ MODULE MCServices ------------------------------
(***************************************************************************)
(* Instances for TLC of the six machines of Services.                      *)
(***************************************************************************)
EXTENDS Services, TLC

CONSTANTS i1, i2, i3, p1, p2,   \* geo imports and versions, positions
          e1, e2                \* listed entities

-----------------------------------------------------------------------------
(* Geo imports: i1 and i2 load the same two sources in either order, and   *)
(* lock the tables in that order; i3 runs under the test switch.           *)

Spot(edge) == [at |-> p1, edge |-> edge]
Feature(line, fclass, covered, edge) ==
  [spots |-> {Spot(edge)}, line |-> line, fclass |-> fclass, covered |-> covered]
Source(target, operation, fclasses, features) ==
  [target |-> target, located |-> TRUE, operation |-> operation, fclasses |-> fclasses,
   features |-> features, intact |-> TRUE]
Land == Source("land", "polygon", {}, {Feature(FALSE, "none", TRUE, FALSE),
                                      Feature(FALSE, "none", FALSE, TRUE)})
Rivers == Source("water", "line_buffer", {"river"}, {Feature(TRUE, "river", TRUE, FALSE),
                                                    Feature(TRUE, "drain", TRUE, TRUE)})
TheManifest == i1 :> <<Land, Rivers>> @@ i2 :> <<Rivers, Land>> @@ i3 :> <<Rivers>>
TheOverrides == <<Source("overrides", "polygon", {}, {Feature(FALSE, "none", TRUE, FALSE)})>>

-----------------------------------------------------------------------------
(* Geo checks: two versions that disagree about p1 and about p2, which    *)
(* have the same cache key.                                                *)

Inside(x) == [at |-> x, edge |-> FALSE]
Edge(x) == [at |-> x, edge |-> TRUE]
Layer(land, water, overrides) ==
  [t \in {"land", "water", "overrides"} |->
     CASE t = "land" -> land [] t = "water" -> water [] OTHER -> overrides]
TheLayerings == {<<i1, Layer({Inside(p1)}, {Inside(p2)}, {})>>,
                 <<i2, Layer({Inside(p1), Edge(p2)}, {Inside(p1)}, {Inside(p1)})>>}
TheAsked == <<{p1}, {p2}>>
TheConfigs == {[enabled |-> TRUE, failOpen |-> FALSE, cached |-> TRUE, precision |-> 1]}
TheBucket == [k \in {1} |-> [p \in {p1, p2} |-> 1]]

-----------------------------------------------------------------------------
(* Sanctions: a list of two vessels gives way to one of one; an entity     *)
(* with the vessel's IMO comes to have its MMSI instead, another has its   *)
(* name.                                                                   *)

ThePublished == <<{e1, e2}, {e1}>>

Listing(imo, mmsi, name) == [imo |-> imo, mmsi |-> mmsi, name |-> name, aliases |-> {}]
TheListings == e1 :> <<Listing("imo", Null, "other"), Listing(Null, "mmsi", "other")>> @@
               e2 :> <<Listing(Null, Null, "STAR")>>
TheProfiles == <<[imo |-> Null, mmsi |-> "mmsi", name |-> Null],
                 [imo |-> "imo", mmsi |-> "mmsi", name |-> "STAR"]>>
TheNormal == "STAR" :> "star" @@ "other" :> "other"

-----------------------------------------------------------------------------
(* The reports of a vessel that changes once: padded, half valid, refused, *)
(* old, and a position with another name.                                  *)

Columns == {"dimensionToBow", "dimensionToStern", "dimensionToPort", "dimensionToStarboard",
            "name", "callSign", "destination", "imo", "shipType"}
Over(says, base) == [c \in Columns |-> IF c \in DOMAIN says THEN says[c] ELSE base]
Report(type, says) ==
  [type |-> type, time |-> "recent", valid |-> TRUE, validA |-> TRUE, validB |-> TRUE,
   inRange |-> TRUE, metaName |-> "absent", says |-> says]
Full == Report("ShipStaticData",
          Over([name |-> "n1", imo |-> "i1", destination |-> "d1",
                dimensionToBow |-> "5", dimensionToStern |-> "unknown"], "absent"))
Padded == Report("ShipStaticData",
            Over([name |-> "n2", imo |-> "illegal", destination |-> "d2"], "unknown"))
PartB == [Report("StaticDataReport", Over([name |-> "n3", callSign |-> "c1"], "unknown"))
            EXCEPT !.validA = FALSE]
Position == [Report("PositionReport", Over([c \in {} |-> 0], "absent")) EXCEPT !.metaName = "m"]
Refused == Report("ShipStaticData", Over([name |-> "n4", shipType |-> "illegal"], "absent"))
Old == [Report("ShipStaticData", Over([name |-> "n0", imo |-> "i0"], "absent"))
          EXCEPT !.time = "old"]
TheLives == <<{Full, Position, Old}, {Padded, PartB, Position, Refused}>>
TheReports == {Full, Padded, PartB, Position, Refused, Old}
=============================================================================
