---------------------------- MODULE VesselProfile ----------------------------
(***************************************************************************)
(* What the system knows of one vessel: the AIS reports it repeats, the    *)
(* normalizer that makes canonical events of them                          *)
(* (src/ingestion/aisstream/aisstream.normalizer.ts), and the statements   *)
(* that merge the events into the vessel's row (VesselsRepository).  The   *)
(* bus delivers events late, in any order and again; upsertProfile does    *)
(* not look at their instant.                                              *)
(*                                                                         *)
(* A raw field is absent, a padding or zero that means unknown, a value    *)
(* the contracts refuse, or a value.                                       *)
(***************************************************************************)
EXTENDS Naturals, Sequences

CONSTANTS Lives,       \* the vessel's data over time: per stretch, the reports it repeats
          Reports,     \* all of those reports
          Null,
          MaxRepeats   \* bound: redeliveries

Sides == {"dimensionToBow", "dimensionToStern", "dimensionToPort", "dimensionToStarboard"}
Texts == {"name", "callSign", "destination"}
Columns == Sides \cup Texts \cup {"imo", "shipType"}

VesselProfileAssumption ==
  /\ Lives \in Seq(SUBSET Reports) /\ Lives # <<>>
  /\ \A r \in Reports :
       /\ r.type \in {"PositionReport", "ExtendedClassBPositionReport", "StaticDataReport",
                      "ShipStaticData"}
       /\ r.time \in {"recent", "old", "unreadable"}
       /\ {r.valid, r.validA, r.validB, r.inRange} \subseteq BOOLEAN
       /\ DOMAIN r.says = Columns
  /\ Null \notin {"absent", "unknown", "illegal"}
  /\ MaxRepeats \in Nat

VARIABLES
  life,      \* the stretch the vessel is in
  flight,    \* reports on their way through the adapter and the bus
  profile,   \* the vessel's row: per column a value or Null, and before there is a row Null
  repeats    \* counter

vars == <<life, flight, profile, repeats>>

Nothing == [c \in Columns |-> Null]

-----------------------------------------------------------------------------
(* The normalizer.                                                         *)

\* cleanString.
Text(raw) == IF raw \in {"absent", "unknown"} THEN Null ELSE raw

\* The seven digits of an IMO number, or nothing.
Imo(raw) == IF raw \in {"absent", "unknown", "illegal"} THEN Null ELSE raw

\* A ship type above 0, whether or not the contract has it.
ShipType(raw) == IF raw \in {"absent", "unknown"} THEN Null ELSE raw

\* Mutant: a zero is a dimension like any other.
ZeroDimensions(says) == [s \in Sides |-> IF says[s] = "absent" THEN Null ELSE says[s]]

\* dimensionsOrNull: four zeros mean unknown, one zero is a distance.
Dimensions(says) ==
  IF \A s \in Sides : says[s] = "unknown" THEN [s \in Sides |-> Null]
  ELSE [s \in Sides |-> IF says[s] = "absent" THEN Null ELSE says[s]]

\* parseAisStreamTimestamp, or else the time of receipt.
OccurredAt(r) == IF r.time = "old" THEN "old" ELSE "recent"

IsStatic(r) == r.type \in {"StaticDataReport", "ShipStaticData"}

\* normalizePosition: of the profile, a position only has the name, and the metadata's
\* comes before an embedded one.
FromPosition(r) ==
  [Nothing EXCEPT !["name"] =
     IF Text(r.metaName) # Null \/ r.type # "ExtendedClassBPositionReport"
     THEN Text(r.metaName) ELSE Text(r.says["name"])]

\* fromStaticDataReport: each part counts if it is marked valid.
FromStaticDataReport(r) ==
  LET dim == Dimensions(r.says) IN
  [c \in Columns |->
     CASE c = "name" /\ r.validA -> Text(r.says[c])
       [] c = "callSign" /\ r.validB -> Text(r.says[c])
       [] c = "shipType" /\ r.validB -> ShipType(r.says[c])
       [] c \in Sides /\ r.validB -> dim[c]
       [] OTHER -> Null]

\* fromShipStaticData.
FromShipStaticData(r) ==
  LET dim == Dimensions(r.says) IN
  [c \in Columns |->
     CASE c \in Texts -> Text(r.says[c])
       [] c = "imo" -> Imo(r.says[c])
       [] c = "shipType" -> ShipType(r.says[c])
       [] OTHER -> dim[c]]

Fields(r) == CASE r.type = "StaticDataReport" -> FromStaticDataReport(r)
               [] r.type = "ShipStaticData" -> FromShipStaticData(r)
               [] OTHER -> FromPosition(r)

\* normalize gives an event: the report is valid, and CanonicalEventSchema accepts all of it.
Accepted(r) ==
  /\ IF r.type = "StaticDataReport" THEN r.validA \/ r.validB ELSE r.valid
  /\ r.inRange
  /\ \A c \in Columns : Fields(r)[c] # "illegal"

-----------------------------------------------------------------------------
(* The vessel's row.                                                       *)

\* Mutant: what the event does not say is cleared.
Overwritten(fields) == fields

\* Mutant: what is known is kept, as for the name in a position.
FirstWins(fields) == [c \in Columns |-> IF profile[c] # Null THEN profile[c] ELSE fields[c]]

\* upsertProfile: COALESCE(EXCLUDED.c, vessels.c).
Merged(fields) == [c \in Columns |-> IF fields[c] # Null THEN fields[c] ELSE profile[c]]

\* upsertVesselFromPosition: COALESCE(vessels.name, EXCLUDED.name).
Named(fields) == [profile EXCEPT !["name"] = IF @ # Null THEN @ ELSE fields["name"]]

TypeOK ==
  /\ life \in DOMAIN Lives
  /\ flight \subseteq Reports
  /\ DOMAIN profile = Columns
  /\ \A c \in Columns : profile[c] \notin {"absent", "illegal"}
  /\ \A c \in Columns \ Sides : profile[c] # "unknown"
  /\ repeats \in 0..MaxRepeats

Init ==
  /\ life = 1
  /\ flight = {}
  /\ profile = Nothing
  /\ repeats = 0

\* The vessel broadcasts one of its reports, as it does every few minutes.
Broadcast(r) ==
  /\ r \in Lives[life]
  /\ flight' = flight \cup {r}
  /\ UNCHANGED <<life, profile, repeats>>

\* A new name, destination or draught is keyed in.
Change ==
  /\ life + 1 \in DOMAIN Lives
  /\ life' = life + 1
  /\ UNCHANGED <<flight, profile, repeats>>

\* The handler of a report's event runs: a stale one is dropped (dropIfStaleTelemetry), and
\* one that normalize refuses never gets here.  The acknowledgement may be lost.
Handle(r) ==
  /\ r \in flight
  /\ profile' = IF ~Accepted(r) \/ OccurredAt(r) = "old" THEN profile
                ELSE IF IsStatic(r) THEN Merged(Fields(r)) ELSE Named(Fields(r))
  /\ \/ flight' = flight \ {r} /\ UNCHANGED repeats
     \/ repeats < MaxRepeats /\ repeats' = repeats + 1 /\ UNCHANGED flight
  /\ UNCHANGED life

Next == Change \/ \E r \in Reports : Broadcast(r) \/ Handle(r)

Spec == Init /\ [][Next]_vars

\* The vessel repeats its reports, and the bus delivers them.
FairSpec == Spec /\ \A r \in Reports : WF_vars(Broadcast(r)) /\ WF_vars(Handle(r))

-----------------------------------------------------------------------------
(* Correctness.                                                            *)

\* Whatever the order, a column only learns: what is known of a vessel is never lost to a
\* report that leaves it out, pads it, has zeros on all sides or is half valid, and a known
\* name never gives way to the name in a position's metadata.
Learns ==
  \A c \in Columns : profile'[c] # profile[c] =>
    /\ profile'[c] # Null
    /\ \E r \in flight :
         /\ \/ profile'[c] = r.says[c]
            \/ c = "name" /\ profile'[c] = r.metaName
         /\ c \in Sides => \E s \in Sides : r.says[s] # "unknown"
         /\ IsStatic(r) \/ profile[c] = Null
OnlyLearns == [][Learns]_vars

\* An old report delivered last does overwrite a newer one; the vessel's repetitions repair
\* it: in the end every column of a vessel that is heard says what the vessel says, of all
\* it says of the column.
Told(c) == {Fields(r)[c] : r \in {q \in Lives[life] : IsStatic(q) /\ Accepted(q)
                                                     /\ OccurredAt(q) = "recent"}} \ {Null}
Agrees == \A c \in Columns : Told(c) # {} => profile[c] \in Told(c)
Converges == (flight # {}) ~> []Agrees
=============================================================================
