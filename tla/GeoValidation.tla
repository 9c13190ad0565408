---------------------------- MODULE GeoValidation ----------------------------
(***************************************************************************)
(* The geo check of incoming positions (src/geo): validations of several   *)
(* positions run at once, each reads the active dataset version, looks in  *)
(* the Redis cache of that version, and on a miss asks PostGIS, which reads *)
(* the active version again.  An import may activate another version       *)
(* between any two of these awaits, a query or a cache command may fail,   *)
(* entries expire, and the process restarts, with another configuration,   *)
(* over the cache of the one before.                                       *)
(***************************************************************************)
EXTENDS GeoDatasets, Naturals

CONSTANTS Calls,      \* slots for concurrent validations
          Asked,      \* bound: per slot, the positions it is called with
          Configs,    \* GEO_VALIDATION_ENABLED, _FAIL_OPEN, GEO_CACHE_ENABLED, _PRECISION
          Buckets,
          Bucket,     \* Bucket[precision][position]: toFixed of both coordinates
          NoEntry,
          MaxFaults   \* bound: failed commands and restarts

Precisions == {cfg.precision : cfg \in Configs}
Keys == (Versions \cup {"any"}) \X Precisions \X Buckets

GeoValidationAssumption ==
  /\ GeoDatasetsAssumption
  /\ Configs \subseteq [enabled : BOOLEAN, failOpen : BOOLEAN, cached : BOOLEAN, precision : Nat]
  /\ Positions # {} /\ Asked \in [Calls -> SUBSET Positions]
  /\ Bucket \in [Precisions -> [Positions -> Buckets]]
  /\ MaxFaults \in Nat

VARIABLES
  config,   \* of the running process
  call,     \* per slot: the state of a validation
  cache,    \* Redis: per key the stored result
  span,     \* history: the versions active at some time in the current call
  faults    \* counter

vars == <<datasetVars, config, call, cache, span, faults>>

-----------------------------------------------------------------------------
(* Results.                                                                *)

VerdictOf(reason) ==
  CASE reason = "coastal_tolerance" -> "uncertain"
    [] reason = "deep_land" -> "reject"
    [] OTHER -> "allow"

\* toResult and shouldDrop.
ToResult(v, reason) ==
  [reason |-> reason, verdict |-> VerdictOf(reason), version |-> v, drop |-> reason = "deep_land"]

Disabled == [reason |-> "disabled", verdict |-> "allow", version |-> NoVersion, drop |-> FALSE]

\* handleValidationError.
Failure == [reason |-> "geo_validation_error",
            verdict |-> IF config.failOpen THEN "allow" ELSE "reject",
            version |-> NoVersion, drop |-> ~config.failOpen]

Results == [reason : Reasons \cup {"disabled", "geo_validation_error"},
            verdict : {"allow", "uncertain", "reject"},
            version : Versions \cup {NoVersion}, drop : BOOLEAN]

\* Mutant: the key leaves the dataset version out.
KeyOfPlace(v, p) == <<"any", config.precision, Bucket[config.precision][p]>>

\* buildKey.
BuildKey(v, p) == <<v, config.precision, Bucket[config.precision][p]>>

-----------------------------------------------------------------------------
CallStates == [pc : {"idle", "version", "lookup", "evaluate", "write", "answered"},
               pos : Positions, seen : Versions \cup {NoVersion}, result : Results,
               source : {"none", "bypass", "cache", "postgis", "error"}]

Idle == [pc |-> "idle", pos |-> CHOOSE p \in Positions : TRUE, seen |-> NoVersion,
         result |-> Disabled, source |-> "none"]

TypeOK ==
  /\ active \in Versions \cup {NoVersion}
  /\ \A v \in Versions : rows[v] # NoLayers => <<v, rows[v]>> \in Layerings
  /\ config \in Configs
  /\ call \in [Calls -> CallStates]
  /\ cache \in [Keys -> Results \cup {NoEntry}]
  /\ span \in [Calls -> SUBSET (Versions \cup {NoVersion})]
  /\ faults \in 0..MaxFaults

Init ==
  /\ DatasetsInit
  /\ config \in Configs
  /\ call = [c \in Calls |-> Idle]
  /\ cache = [k \in Keys |-> NoEntry]
  /\ span = [c \in Calls |-> {}]
  /\ faults = 0

Running(c) == call[c].pc \notin {"idle", "answered"}
Fault == faults < MaxFaults /\ faults' = faults + 1

Goto(c, pc) == call' = [call EXCEPT ![c].pc = pc]

\* recordResult, and the answer to the pipeline.
Answer(c, result, source) ==
  call' = [call EXCEPT ![c] = [@ EXCEPT !.pc = "answered", !.seen = NoVersion,
                                        !.result = result, !.source = source]]

-----------------------------------------------------------------------------
\* validatePosition is called.
Begin(c, p) ==
  /\ ~Running(c)
  /\ call' = [call EXCEPT ![c] =
       IF config.enabled THEN [Idle EXCEPT !.pc = "version", !.pos = p]
       ELSE [Idle EXCEPT !.pc = "answered", !.pos = p, !.source = "bypass"]]
  /\ span' = [span EXCEPT ![c] = {active}]
  /\ UNCHANGED <<datasetVars, config, cache, faults>>

\* getActiveDatasetVersion.
ReadVersion(c) ==
  /\ call[c].pc = "version"
  /\ call' = [call EXCEPT ![c].seen = active,
                          ![c].pc = IF active = NoVersion THEN "evaluate" ELSE "lookup"]
  /\ UNCHANGED <<datasetVars, config, cache, span, faults>>

\* readCache: a miss, an error and a disabled cache all lead to PostGIS.
ReadCache(c) ==
  LET entry == cache[BuildKey(call[c].seen, call[c].pos)] IN
  /\ call[c].pc = "lookup"
  /\ \/ /\ config.cached /\ entry # NoEntry
        /\ Answer(c, entry, "cache")
        /\ UNCHANGED faults
     \/ /\ ~config.cached \/ entry = NoEntry
        /\ Goto(c, "evaluate")
        /\ UNCHANGED faults
     \/ /\ config.cached /\ Fault
        /\ Goto(c, "evaluate")
  /\ UNCHANGED <<datasetVars, config, cache, span>>

\* repository.validatePosition: one statement, whatever was read before it.
Evaluate(c) ==
  LET result == ToResult(active, ReasonBy(active, call[c].pos)) IN
  /\ call[c].pc = "evaluate"
  /\ IF active = NoVersion
       THEN Answer(c, result, "postgis")
       ELSE call' = [call EXCEPT ![c].pc = "write", ![c].result = result]
  /\ UNCHANGED <<datasetVars, config, cache, span, faults>>

\* writeCache, whose errors are swallowed.
WriteCache(c) ==
  LET result == call[c].result IN
  /\ call[c].pc = "write"
  /\ Answer(c, result, "postgis")
  /\ \/ /\ cache' = IF config.cached
                     THEN [cache EXCEPT ![BuildKey(result.version, call[c].pos)] = result]
                     ELSE cache
        /\ UNCHANGED faults
     \/ config.cached /\ Fault /\ UNCHANGED cache
  /\ UNCHANGED <<datasetVars, config, span>>

\* One of the two queries rejects.
Fails(c) ==
  /\ call[c].pc \in {"version", "evaluate"}
  /\ Fault
  /\ Answer(c, Failure, "error")
  /\ UNCHANGED <<datasetVars, config, cache, span>>

\* Redis drops an entry: its time to live is over.
Expire(k) ==
  /\ cache[k] # NoEntry
  /\ cache' = [cache EXCEPT ![k] = NoEntry]
  /\ UNCHANGED <<datasetVars, config, call, span, faults>>

\* The process ends and starts again; the calls of the old one are gone.
Restart ==
  /\ Fault
  /\ config' \in Configs
  /\ call' = [c \in Calls |-> Idle]
  /\ span' = [c \in Calls |-> {}]
  /\ UNCHANGED <<datasetVars, cache>>

\* An import activates a version.
Import ==
  /\ DatasetsNext
  /\ span' = [c \in Calls |-> IF Running(c) THEN span[c] \cup {active'} ELSE span[c]]
  /\ UNCHANGED <<config, call, cache, faults>>

Step(c) == ReadVersion(c) \/ ReadCache(c) \/ Evaluate(c) \/ WriteCache(c)

Next ==
  \/ \E c \in Calls : (\E p \in Asked[c] : Begin(c, p)) \/ Step(c) \/ Fails(c)
  \/ \E k \in Keys : Expire(k)
  \/ Restart
  \/ Import

Spec == Init /\ [][Next]_vars

-----------------------------------------------------------------------------
\* Verdicts that hold in version v for some position q that has p's key.
FitsBucket(result, v, p, precision) ==
  \E q \in Positions :
    Bucket[precision][q] = Bucket[precision][p] /\ result = ToResult(v, ReasonBy(v, q))

\* Whatever is activated, cached by another call or another process, expires or fails
\* between the awaits of validatePosition: an answer is the verdict that a version active
\* at some time during this very call gives to the position, or, when it came from the
\* cache, to a position of its bucket; without a verdict a position is only dropped by a
\* failure under GEO_VALIDATION_FAIL_OPEN=false.
AnswersFit ==
  \A c \in Calls : call[c].pc = "answered" =>
    LET r == call[c].result
        p == call[c].pos IN
    CASE call[c].source = "bypass" -> ~r.drop
      [] call[c].source = "error" -> r.drop = ~config.failOpen
      [] call[c].source = "postgis" ->
           r.version \in span[c] /\ r = ToResult(r.version, ReasonBy(r.version, p))
      [] call[c].source = "cache" ->
           r.version \in span[c] /\ FitsBucket(r, r.version, p, config.precision)
=============================================================================
