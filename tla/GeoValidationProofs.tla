------------------------- MODULE GeoValidationProofs -------------------------
(***************************************************************************)
(* Verdicts of the geo check fit a version active during the call, for any *)
(* number of versions, overlapping calls, positions, buckets, restarts and *)
(* failures, and for every configuration.                                  *)
(***************************************************************************)
EXTENDS GeoValidation, TLAPS

-----------------------------------------------------------------------------
(***************************************************************************)
(* The invariant.                                                          *)
(***************************************************************************)

\* The version is in the tables, where it no longer changes.
Stored(v) == v \in Versions /\ rows[v] # NoLayers

\* The result is the verdict of its own version, which is stored or is no version.
Holds(r, p) ==
  /\ r.version = NoVersion \/ Stored(r.version)
  /\ r = ToResult(r.version, ReasonBy(r.version, p))

\* A cache entry is a verdict of the version in its key, for a position of its bucket.
EntryFits(k) ==
  cache[k] # NoEntry =>
    /\ Stored(k[1]) /\ cache[k].version = k[1]
    /\ \E q \in Positions : Bucket[k[2]][q] = k[3] /\ Holds(cache[k], q)

\* An answer by its source.
AnswerFits(c) ==
  LET r == call[c].result IN
  /\ call[c].source \in {"bypass", "error", "postgis", "cache"}
  /\ call[c].source = "bypass" => ~r.drop
  /\ call[c].source = "error" => r.drop = ~config.failOpen
  /\ call[c].source = "postgis" => r.version \in span[c] /\ Holds(r, call[c].pos)
  /\ call[c].source = "cache" =>
       /\ r.version \in span[c]
       /\ \E q \in Positions :
            /\ Bucket[config.precision][q] = Bucket[config.precision][call[c].pos]
            /\ Holds(r, q)

\* What a call has read is of a version that was active since it began.
CallFits(c) ==
  LET r == call[c].result IN
  /\ Running(c) => active \in span[c]
  /\ call[c].pc = "lookup" => Stored(call[c].seen) /\ call[c].seen \in span[c]
  /\ call[c].pc = "write" => Stored(r.version) /\ r.version \in span[c] /\ Holds(r, call[c].pos)
  /\ call[c].pc = "answered" => AnswerFits(c)

DataType ==
  /\ rows \in [Versions -> Layers]
  /\ active = NoVersion \/ Stored(active)

IInv ==
  /\ TypeOK /\ DataType
  /\ \A k \in Keys : EntryFits(k)
  /\ \A c \in Calls : CallFits(c)

-----------------------------------------------------------------------------
(***************************************************************************)
(* What stays as it is.                                                    *)
(***************************************************************************)

\* Whatever happens to the datasets, a version that is stored keeps its rows.
Extends ==
  /\ rows' \in [Versions -> Layers]
  /\ \A v \in Versions : Stored(v) => rows'[v] = rows[v]

LEMMA HoldsStands ==
  ASSUME Extends, NEW r, NEW p, Holds(r, p)
  PROVE  /\ Stored(r.version) => rows'[r.version] # NoLayers
         /\ r.version = NoVersion \/ (r.version \in Versions /\ rows'[r.version] # NoLayers)
         /\ Holds(r, p)'
<1>1. CASE r.version = NoVersion
  BY <1>1 DEF Holds, ReasonBy, Extends, Stored
<1>2. CASE Stored(r.version)
  <2>1. r.version \in Versions /\ rows'[r.version] = rows[r.version]
    BY <1>2 DEF Stored, Extends
  <2>2. ReasonBy(r.version, p)' = ReasonBy(r.version, p)
    BY <2>1 DEF ReasonBy, Covers, NearShore
  <2>3. QED
    BY <1>2, <2>1, <2>2 DEF Holds, Stored
<1>3. QED
  BY <1>1, <1>2 DEF Holds

LEMMA EntryStands ==
  ASSUME Extends, NEW k \in Keys, EntryFits(k), cache'[k] = cache[k]
  PROVE  EntryFits(k)'
<1>1. SUFFICES ASSUME cache[k] # NoEntry
               PROVE  EntryFits(k)'
  BY DEF EntryFits
<1>2. Stored(k[1]) /\ cache[k].version = k[1]
  BY <1>1 DEF EntryFits
<1>3. PICK q \in Positions : Bucket[k[2]][q] = k[3] /\ Holds(cache[k], q)
  BY <1>1 DEF EntryFits
<1>4. Holds(cache[k], q)'
  <2>1. \A r : Holds(r, q) => Holds(r, q)'
    BY HoldsStands
  <2>2. QED
    BY <1>3, <2>1 DEF Holds, Stored, ReasonBy, Covers, NearShore
<1>5. Stored(k[1])'
  BY <1>2 DEF Stored, Extends
<1>6. QED
  BY <1>2, <1>3, <1>4, <1>5 DEF EntryFits

LEMMA CallStands ==
  ASSUME Extends, NEW c \in Calls, CallFits(c), call'[c] = call[c], config' = config,
         span[c] \subseteq span'[c], Running(c) => active' \in span'[c]
  PROVE  CallFits(c)'
<1> DEFINE s == call[c]
<1>1. \A q : Holds(s.result, q) => Holds(s.result, q)'
  <2>1. ASSUME NEW r, NEW q, r = s.result, Holds(r, q)
        PROVE  Holds(s.result, q)'
    <3>1. Holds(r, q)'
      BY <2>1, HoldsStands
    <3>2. r = s'.result
      BY <2>1
    <3>3. QED
      BY <3>1, <3>2 DEF Holds, Stored, ReasonBy, Covers, NearShore
  <2>2. QED
    BY <2>1
<1>2. \A v : Stored(v) => Stored(v)'
  BY DEF Extends, Stored
<1>3. (Running(c) => active \in span[c])'
  BY DEF Running
<1>4. (s.pc = "lookup" => Stored(s.seen) /\ s.seen \in span[c])'
  <2>1. s.pc = "lookup" => Stored(s.seen) /\ s.seen \in span[c]
    BY DEF CallFits
  <2>2. QED
    BY <2>1 DEF Stored, Extends
<1>5. (s.pc = "write" => /\ Stored(s.result.version) /\ s.result.version \in span[c]
                         /\ Holds(s.result, s.pos))'
  <2>1. s.pc = "write" => /\ Stored(s.result.version) /\ s.result.version \in span[c]
                          /\ Holds(s.result, s.pos)
    BY DEF CallFits
  <2>2. s.pc = "write" => Holds(s.result, s.pos)'
    BY <2>1, <1>1
  <2>3. s.pc = "write" => Stored(s.result.version)' /\ s.result.version \in span'[c]
    BY <2>1 DEF Stored, Extends
  <2>4. QED
    BY <2>2, <2>3
<1>6. (s.pc = "answered" => AnswerFits(c))'
  <2>1. SUFFICES ASSUME s.pc = "answered"
                 PROVE  AnswerFits(c)'
    OBVIOUS
  <2>2. AnswerFits(c)
    BY <2>1 DEF CallFits
  <2>3. s.source = "postgis" => Holds(s.result, s.pos)'
    BY <2>2, <1>1 DEF AnswerFits
  <2>4. s.source = "cache" =>
          \E q \in Positions : /\ Bucket[config.precision][q] = Bucket[config.precision][s.pos]
                               /\ Holds(s.result, q)'
    BY <2>2, <1>1 DEF AnswerFits
  <2>5. QED
    BY <2>2, <2>3, <2>4 DEF AnswerFits
<1>7. QED
  BY <1>3, <1>4, <1>5, <1>6 DEF CallFits

\* A step that leaves the datasets and the configuration alone touches one call at most.
LEMMA StepOf ==
  ASSUME IInv, NEW c \in Calls, UNCHANGED <<datasetVars, config>>, TypeOK',
         \A d \in Calls \ {c} : call'[d] = call[d] /\ span'[d] = span[d],
         CallFits(c)',
         \A k \in Keys : cache'[k] = cache[k] \/ EntryFits(k)'
  PROVE  IInv'
<1>1. DataType' /\ Extends
  BY DEF IInv, DataType, Extends, datasetVars, Stored
<1>2. ASSUME NEW k \in Keys
      PROVE  EntryFits(k)'
  <2>1. EntryFits(k)
    BY DEF IInv
  <2>2. cache'[k] = cache[k] => EntryFits(k)'
    BY <2>1, <1>1, EntryStands
  <2>3. QED
    BY <2>2
<1>3. ASSUME NEW d \in Calls \ {c}
      PROVE  CallFits(d)'
  <2>1. CallFits(d)
    BY DEF IInv
  <2>2. Running(d) => active' \in span'[d]
    BY <2>1 DEF CallFits, datasetVars
  <2>3. QED
    BY <2>1, <2>2, <1>1, CallStands
<1>4. QED
  BY <1>1, <1>2, <1>3 DEF IInv

-----------------------------------------------------------------------------
(***************************************************************************)
(* Results and keys.                                                       *)
(***************************************************************************)

LEMMA ResultTyped ==
  ASSUME NEW v \in Versions \cup {NoVersion}, NEW reason \in Reasons
  PROVE  /\ ToResult(v, reason) \in Results
         /\ ToResult(v, reason).version = v
BY DEF ToResult, VerdictOf, Results, Reasons

LEMMA ReasonTyped ==
  ASSUME NEW v, NEW p
  PROVE  ReasonBy(v, p) \in Reasons
BY DEF ReasonBy, Reasons

\* The verdict of PostGIS holds, and it is of the active version.
LEMMA ActiveHolds ==
  ASSUME TypeOK, DataType, NEW p
  PROVE  LET r == ToResult(active, ReasonBy(active, p)) IN
         r \in Results /\ r.version = active /\ Holds(r, p)
<1>1. active \in Versions \cup {NoVersion}
  BY DEF TypeOK
<1>2. ReasonBy(active, p) \in Reasons
  BY ReasonTyped
<1>3. QED
  BY <1>1, <1>2, ResultTyped DEF Holds, DataType

LEMMA KeyTyped ==
  ASSUME GeoValidationAssumption, config \in Configs, NEW v \in Versions, NEW p \in Positions
  PROVE  /\ BuildKey(v, p) \in Keys
         /\ BuildKey(v, p)[1] = v
         /\ BuildKey(v, p)[2] = config.precision
         /\ BuildKey(v, p)[3] = Bucket[config.precision][p]
<1>1. config.precision \in Precisions
  BY DEF Precisions
<1>2. Bucket[config.precision][p] \in Buckets
  BY <1>1 DEF GeoValidationAssumption
<1>3. QED
  BY <1>1, <1>2 DEF BuildKey, Keys

LEMMA FailureTyped ==
  ASSUME GeoValidationAssumption, config \in Configs
  PROVE  Failure \in Results /\ Failure.drop = ~config.failOpen
<1>1. config.failOpen \in BOOLEAN
  BY DEF GeoValidationAssumption
<1>2. QED
  BY <1>1 DEF Failure, Results

LEMMA IdleTyped ==
  ASSUME GeoValidationAssumption
  PROVE  /\ Idle \in CallStates
         /\ Idle.pc = "idle" /\ Idle.result = Disabled /\ ~Disabled.drop
<1>1. Disabled \in Results
  BY DEF Disabled, Results
<1>2. Positions # {}
  BY DEF GeoValidationAssumption
<1>3. (CHOOSE p \in Positions : TRUE) \in Positions
  BY <1>2
<1>4. QED
  BY <1>1, <1>3 DEF Idle, CallStates, Disabled

-----------------------------------------------------------------------------
(***************************************************************************)
(* The actions of a call.                                                  *)
(***************************************************************************)

LEMMA AnswerStep ==
  ASSUME TypeOK, NEW c \in Calls, NEW result \in Results,
         NEW source \in {"bypass", "error", "postgis", "cache"},
         Answer(c, result, source)
  PROVE  /\ call' \in [Calls -> CallStates]
         /\ \A d \in Calls \ {c} : call'[d] = call[d]
         /\ call'[c].pc = "answered" /\ call'[c].pos = call[c].pos
         /\ call'[c].result = result /\ call'[c].source = source
<1>1. call \in [Calls -> CallStates] /\ call[c] \in CallStates
  BY DEF TypeOK
<1> DEFINE x == [call[c] EXCEPT !.pc = "answered", !.seen = NoVersion,
                                !.result = result, !.source = source]
<1>2. x \in CallStates /\ x.pc = "answered" /\ x.pos = call[c].pos
      /\ x.result = result /\ x.source = source
  BY <1>1 DEF CallStates
<1>3. call' = [call EXCEPT ![c] = x]
  BY DEF Answer
<1> HIDE DEF x
<1>4. QED
  BY <1>1, <1>2, <1>3

LEMMA BeginKeeps ==
  ASSUME GeoValidationAssumption, IInv, NEW c \in Calls, NEW p \in Asked[c], Begin(c, p)
  PROVE  IInv'
<1> DEFINE x == IF config.enabled THEN [Idle EXCEPT !.pc = "version", !.pos = p]
                ELSE [Idle EXCEPT !.pc = "answered", !.pos = p, !.source = "bypass"]
<1>1. p \in Positions
  BY DEF GeoValidationAssumption
<1>2. x \in CallStates /\ x.result = Disabled
  BY <1>1, IdleTyped DEF CallStates
<1>3. x.pc = "version" \/ (x.pc = "answered" /\ x.source = "bypass")
  BY IdleTyped DEF CallStates
<1>4. call' = [call EXCEPT ![c] = x] /\ span' = [span EXCEPT ![c] = {active}]
      /\ UNCHANGED <<datasetVars, config, cache, faults>>
  BY DEF Begin
<1>5. call \in [Calls -> CallStates] /\ active \in Versions \cup {NoVersion}
      /\ span \in [Calls -> SUBSET (Versions \cup {NoVersion})]
  BY DEF IInv, TypeOK
<1> HIDE DEF x
<1>6. call'[c] = x /\ span'[c] = {active}
      /\ \A d \in Calls \ {c} : call'[d] = call[d] /\ span'[d] = span[d]
  BY <1>4, <1>5
<1>7. TypeOK'
  BY <1>2, <1>4, <1>5 DEF IInv, TypeOK, datasetVars
<1>8. CallFits(c)'
  <2>1. (Running(c) => active \in span[c])'
    BY <1>4, <1>6 DEF datasetVars
  <2>2. (call[c].pc = "answered" => AnswerFits(c))'
    BY <1>2, <1>3, <1>6, IdleTyped DEF AnswerFits
  <2>3. QED
    BY <1>3, <1>6, <2>1, <2>2 DEF CallFits
<1>9. QED
  BY <1>4, <1>6, <1>7, <1>8, StepOf

LEMMA ReadVersionKeeps ==
  ASSUME GeoValidationAssumption, IInv, NEW c \in Calls, ReadVersion(c)
  PROVE  IInv'
<1> DEFINE x == [call[c] EXCEPT !.seen = active,
                                !.pc = IF active = NoVersion THEN "evaluate" ELSE "lookup"]
<1>1. call \in [Calls -> CallStates] /\ call[c] \in CallStates
      /\ active \in Versions \cup {NoVersion}
  BY DEF IInv, TypeOK
<1>2. x \in CallStates /\ x.seen = active
      /\ x.pc = IF active = NoVersion THEN "evaluate" ELSE "lookup"
  BY <1>1 DEF CallStates
<1>3. call' = [call EXCEPT ![c] = x] /\ UNCHANGED <<datasetVars, config, cache, span, faults>>
  BY <1>1 DEF ReadVersion
<1>4. active \in span[c]
  BY DEF ReadVersion, IInv, CallFits, Running
<1> HIDE DEF x
<1>5. call'[c] = x /\ \A d \in Calls \ {c} : call'[d] = call[d] /\ span'[d] = span[d]
  BY <1>1, <1>3
<1>6. TypeOK'
  BY <1>1, <1>2, <1>3 DEF IInv, TypeOK, datasetVars
<1>7. CallFits(c)'
  <2>1. (Running(c) => active \in span[c])'
    BY <1>3, <1>4 DEF datasetVars
  <2>2. (call[c].pc = "lookup" => Stored(call[c].seen) /\ call[c].seen \in span[c])'
    BY <1>2, <1>3, <1>4, <1>5 DEF IInv, DataType, Stored, datasetVars
  <2>3. call'[c].pc \notin {"write", "answered"}
    BY <1>2, <1>5
  <2>4. QED
    BY <2>1, <2>2, <2>3 DEF CallFits
<1>8. QED
  BY <1>3, <1>5, <1>6, <1>7, StepOf

LEMMA GotoEvaluateKeeps ==
  ASSUME IInv, NEW c \in Calls, Running(c), Goto(c, "evaluate"), faults' \in 0..MaxFaults,
         UNCHANGED <<datasetVars, config, cache, span>>
  PROVE  IInv'
<1> DEFINE x == [call[c] EXCEPT !.pc = "evaluate"]
<1>1. call \in [Calls -> CallStates] /\ call[c] \in CallStates
  BY DEF IInv, TypeOK
<1>2. x \in CallStates /\ x.pc = "evaluate"
  BY <1>1 DEF CallStates
<1>3. call' = [call EXCEPT ![c] = x]
  BY <1>1 DEF Goto
<1> HIDE DEF x
<1>4. call'[c] = x /\ \A d \in Calls \ {c} : call'[d] = call[d] /\ span'[d] = span[d]
  BY <1>1, <1>3
<1>5. TypeOK'
  BY <1>1, <1>2, <1>3 DEF IInv, TypeOK, datasetVars
<1>6. CallFits(c)'
  <2>1. (Running(c) => active \in span[c])'
    BY DEF IInv, CallFits, datasetVars
  <2>2. QED
    BY <1>2, <1>4, <2>1 DEF CallFits
<1>7. QED
  BY <1>4, <1>5, <1>6, StepOf

\* An answer that fits, whatever else the step writes to the cache.
LEMMA AnswerKeeps ==
  ASSUME IInv, NEW c \in Calls, NEW result \in Results,
         NEW source \in {"bypass", "error", "postgis", "cache"},
         Answer(c, result, source), AnswerFits(c)', faults' \in 0..MaxFaults,
         cache' \in [Keys -> Results \cup {NoEntry}],
         \A k \in Keys : cache'[k] = cache[k] \/ EntryFits(k)',
         UNCHANGED <<datasetVars, config, span>>
  PROVE  IInv'
<1>1. /\ call' \in [Calls -> CallStates] /\ call'[c].pc = "answered"
      /\ \A d \in Calls \ {c} : call'[d] = call[d]
  BY AnswerStep DEF IInv
<1>2. TypeOK'
  BY <1>1 DEF IInv, TypeOK, datasetVars
<1>3. CallFits(c)'
  BY <1>1 DEF CallFits, Running
<1>4. QED
  BY <1>1, <1>2, <1>3, StepOf

LEMMA ReadCacheKeeps ==
  ASSUME GeoValidationAssumption, IInv, NEW c \in Calls, ReadCache(c)
  PROVE  IInv'
<1> DEFINE k == BuildKey(call[c].seen, call[c].pos)
           entry == cache[k]
<1>1. /\ call[c].pc = "lookup" /\ Running(c) /\ Stored(call[c].seen) /\ call[c].seen \in span[c]
      /\ call[c].pos \in Positions /\ config \in Configs /\ faults \in 0..MaxFaults
      /\ cache \in [Keys -> Results \cup {NoEntry}] /\ call[c] \in CallStates
      /\ MaxFaults \in Nat
  BY DEF ReadCache, IInv, TypeOK, CallFits, Running, CallStates, GeoValidationAssumption
<1>2. UNCHANGED <<datasetVars, config, cache, span>>
  BY DEF ReadCache
<1>3. /\ k \in Keys /\ k[1] = call[c].seen /\ k[2] = config.precision
      /\ k[3] = Bucket[config.precision][call[c].pos]
  BY <1>1, KeyTyped DEF Stored
<1>4. CASE entry # NoEntry /\ Answer(c, entry, "cache") /\ UNCHANGED faults
  <2>1. entry \in Results /\ entry.version = call[c].seen
        /\ \E q \in Positions : Bucket[k[2]][q] = k[3] /\ Holds(entry, q)
    BY <1>1, <1>3, <1>4 DEF IInv, EntryFits
  <2>2. call'[c].result = entry /\ call'[c].source = "cache" /\ call'[c].pos = call[c].pos
    BY <1>4, <2>1, AnswerStep DEF IInv
  <2>3. PICK q \in Positions : Bucket[k[2]][q] = k[3] /\ Holds(entry, q)
    BY <2>1
  <2>4. Holds(call[c].result, q)'
    BY <2>2, <2>3, <1>2 DEF Holds, Stored, ReasonBy, Covers, NearShore, datasetVars
  <2>5. AnswerFits(c)'
    BY <2>1, <2>2, <2>3, <2>4, <1>1, <1>2, <1>3 DEF AnswerFits
  <2>6. QED
    BY <1>1, <1>2, <1>4, <2>1, <2>5, AnswerKeeps
<1>5. CASE Goto(c, "evaluate") /\ (UNCHANGED faults \/ Fault)
  BY <1>1, <1>2, <1>5, GotoEvaluateKeeps DEF Fault
<1>6. QED
  BY <1>4, <1>5 DEF ReadCache

LEMMA EvaluateKeeps ==
  ASSUME GeoValidationAssumption, IInv, NEW c \in Calls, Evaluate(c)
  PROVE  IInv'
<1> DEFINE r == ToResult(active, ReasonBy(active, call[c].pos))
           x == [call[c] EXCEPT !.pc = "write", !.result = r]
<1>1. /\ call \in [Calls -> CallStates] /\ call[c] \in CallStates /\ call[c].pos \in Positions
      /\ faults \in 0..MaxFaults /\ cache \in [Keys -> Results \cup {NoEntry}]
  BY DEF IInv, TypeOK, CallStates
<1>2. UNCHANGED <<datasetVars, config, cache, span, faults>>
  BY DEF Evaluate
<1>3. r \in Results /\ r.version = active /\ Holds(r, call[c].pos)
  BY ActiveHolds DEF IInv
<1>4. active \in span[c]
  BY DEF Evaluate, IInv, CallFits, Running
<1>5. CASE active = NoVersion /\ Answer(c, r, "postgis")
  <2>1. call'[c].result = r /\ call'[c].source = "postgis" /\ call'[c].pos = call[c].pos
    BY <1>3, <1>5, AnswerStep DEF IInv
  <2>2. Holds(call[c].result, call[c].pos)'
    BY <2>1, <1>2, <1>3 DEF Holds, Stored, ReasonBy, Covers, NearShore, datasetVars
  <2>3. AnswerFits(c)'
    BY <2>1, <2>2, <1>2, <1>3, <1>4 DEF AnswerFits
  <2>4. QED
    BY <1>1, <1>2, <1>3, <1>5, <2>3, AnswerKeeps
<1>6. CASE active # NoVersion /\ call' = [call EXCEPT ![c].pc = "write", ![c].result = r]
  <2>1. x \in CallStates /\ x.pc = "write" /\ x.result = r /\ x.pos = call[c].pos
    BY <1>1, <1>3 DEF CallStates
  <2>2. call' = [call EXCEPT ![c] = x]
    BY <1>1, <1>6
  <2> HIDE DEF x
  <2>3. call'[c] = x /\ \A d \in Calls \ {c} : call'[d] = call[d] /\ span'[d] = span[d]
    BY <1>1, <1>2, <2>2
  <2>4. TypeOK'
    BY <1>1, <1>2, <2>1, <2>2 DEF IInv, TypeOK, datasetVars
  <2>5. Holds(call[c].result, call[c].pos)'
    BY <2>1, <2>3, <1>2, <1>3 DEF Holds, Stored, ReasonBy, Covers, NearShore, datasetVars
  <2>6. (Stored(call[c].result.version) /\ call[c].result.version \in span[c])'
    BY <1>2, <1>3, <1>4, <1>6, <2>1, <2>3 DEF IInv, DataType, Stored, datasetVars
  <2>7. (Running(c) => active \in span[c])'
    BY <1>2, <1>4 DEF datasetVars
  <2>8. CallFits(c)'
    BY <2>1, <2>3, <2>5, <2>6, <2>7 DEF CallFits
  <2>9. QED
    BY <1>2, <2>3, <2>4, <2>8, StepOf
<1>7. QED
  BY <1>5, <1>6 DEF Evaluate

LEMMA FailsKeeps ==
  ASSUME GeoValidationAssumption, IInv, NEW c \in Calls, Fails(c)
  PROVE  IInv'
<1>1. /\ Answer(c, Failure, "error") /\ UNCHANGED <<datasetVars, config, cache, span>>
      /\ faults' = faults + 1 /\ faults < MaxFaults
  BY DEF Fails, Fault
<1>2. config \in Configs /\ faults \in 0..MaxFaults /\ MaxFaults \in Nat
      /\ cache \in [Keys -> Results \cup {NoEntry}]
  BY DEF IInv, TypeOK, GeoValidationAssumption
<1>3. Failure \in Results /\ Failure.drop = ~config.failOpen
  BY <1>2, FailureTyped
<1>4. call'[c].result = Failure /\ call'[c].source = "error"
  BY <1>1, <1>3, AnswerStep DEF IInv
<1>5. AnswerFits(c)'
  BY <1>1, <1>3, <1>4 DEF AnswerFits
<1>6. faults' \in 0..MaxFaults
  BY <1>1, <1>2
<1>7. QED
  BY <1>1, <1>2, <1>3, <1>5, <1>6, AnswerKeeps

\* What writeCache stores fits its key.
LEMMA WriteEntry ==
  ASSUME IInv, NEW r \in Results, NEW p \in Positions, NEW k \in Keys,
         UNCHANGED datasetVars, Stored(r.version), Holds(r, p),
         k[1] = r.version, Bucket[k[2]][p] = k[3], cache' = [cache EXCEPT ![k] = r]
  PROVE  /\ cache' \in [Keys -> Results \cup {NoEntry}]
         /\ \A j \in Keys : cache'[j] = cache[j] \/ EntryFits(j)'
<1>1. cache \in [Keys -> Results \cup {NoEntry}]
  BY DEF IInv, TypeOK
<1>2. cache'[k] = r /\ cache' \in [Keys -> Results \cup {NoEntry}]
      /\ \A j \in Keys \ {k} : cache'[j] = cache[j]
  BY <1>1
<1>3. Stored(k[1])' /\ Holds(r, p)'
  BY DEF Stored, Holds, ReasonBy, Covers, NearShore, datasetVars
<1>4. EntryFits(k)'
  <2>1. Holds(cache[k], p)'
    BY <1>2, <1>3 DEF Holds, Stored, ReasonBy, Covers, NearShore
  <2>2. QED
    BY <1>2, <1>3, <2>1 DEF EntryFits
<1>5. QED
  BY <1>2, <1>4

LEMMA WriteCacheKeeps ==
  ASSUME GeoValidationAssumption, IInv, NEW c \in Calls, WriteCache(c)
  PROVE  IInv'
<1> DEFINE r == call[c].result
           p == call[c].pos
           k == BuildKey(r.version, p)
<1>1. /\ r \in Results /\ Stored(r.version) /\ r.version \in span[c] /\ Holds(r, p)
      /\ p \in Positions /\ config \in Configs
      /\ cache \in [Keys -> Results \cup {NoEntry}]
      /\ faults \in 0..MaxFaults /\ MaxFaults \in Nat
  BY DEF WriteCache, IInv, TypeOK, CallFits, CallStates, GeoValidationAssumption
<1>2. Answer(c, r, "postgis") /\ UNCHANGED <<datasetVars, config, span>>
  BY DEF WriteCache
<1>3. call'[c].result = r /\ call'[c].source = "postgis" /\ call'[c].pos = p
  BY <1>1, <1>2, AnswerStep DEF IInv
<1>4. Holds(call[c].result, call[c].pos)'
  BY <1>1, <1>2, <1>3 DEF Holds, Stored, ReasonBy, Covers, NearShore, datasetVars
<1>5. AnswerFits(c)'
  BY <1>1, <1>2, <1>3, <1>4 DEF AnswerFits
<1>6. faults' \in 0..MaxFaults
  BY <1>1 DEF WriteCache, Fault
<1>7. CASE UNCHANGED cache
  BY <1>1, <1>2, <1>5, <1>6, <1>7, AnswerKeeps
<1>8. CASE cache' = [cache EXCEPT ![k] = r]
  <2>1. k \in Keys /\ k[1] = r.version /\ Bucket[k[2]][p] = k[3]
    BY <1>1, KeyTyped DEF Stored
  <2>2. /\ cache' \in [Keys -> Results \cup {NoEntry}]
        /\ \A j \in Keys : cache'[j] = cache[j] \/ EntryFits(j)'
    BY <1>1, <1>2, <1>8, <2>1, WriteEntry
  <2>3. QED
    BY <1>1, <1>2, <1>5, <1>6, <2>2, AnswerKeeps
<1>9. QED
  BY <1>7, <1>8 DEF WriteCache

-----------------------------------------------------------------------------
(***************************************************************************)
(* The other actions.                                                      *)
(***************************************************************************)

LEMMA ExpireKeeps ==
  ASSUME IInv, NEW k \in Keys, Expire(k)
  PROVE  IInv'
<1>1. /\ cache' = [cache EXCEPT ![k] = NoEntry]
      /\ UNCHANGED <<datasetVars, config, call, span, faults>>
  BY DEF Expire
<1>2. cache \in [Keys -> Results \cup {NoEntry}]
  BY DEF IInv, TypeOK
<1>3. cache' \in [Keys -> Results \cup {NoEntry}]
      /\ \A j \in Keys : cache'[j] = cache[j] \/ cache'[j] = NoEntry
  BY <1>1, <1>2
<1>4. TypeOK' /\ DataType' /\ Extends
  BY <1>1, <1>3 DEF IInv, TypeOK, DataType, Extends, datasetVars, Stored
<1>5. \A j \in Keys : EntryFits(j)'
  <2>1. ASSUME NEW j \in Keys, cache'[j] = cache[j]
        PROVE  EntryFits(j)'
    BY <1>4, <2>1, EntryStands DEF IInv
  <2>2. ASSUME NEW j \in Keys, cache'[j] = NoEntry
        PROVE  EntryFits(j)'
    BY <2>2 DEF EntryFits
  <2>3. QED
    BY <1>3, <2>1, <2>2
<1>6. ASSUME NEW c \in Calls
      PROVE  CallFits(c)'
  <2>1. CallFits(c) /\ (Running(c) => active' \in span'[c])
    BY <1>1 DEF IInv, CallFits, datasetVars
  <2>2. QED
    BY <1>1, <1>4, <2>1, CallStands
<1>7. QED
  BY <1>4, <1>5, <1>6 DEF IInv

LEMMA RestartKeeps ==
  ASSUME GeoValidationAssumption, IInv, Restart
  PROVE  IInv'
<1>1. /\ config' \in Configs /\ call' = [c \in Calls |-> Idle] /\ span' = [c \in Calls |-> {}]
      /\ UNCHANGED <<datasetVars, cache>> /\ faults < MaxFaults /\ faults' = faults + 1
  BY DEF Restart, Fault
<1>2. faults \in 0..MaxFaults /\ MaxFaults \in Nat
  BY DEF IInv, TypeOK, GeoValidationAssumption
<1>3. Idle \in CallStates /\ Idle.pc = "idle"
  BY IdleTyped
<1>4. faults' \in 0..MaxFaults
  BY <1>1, <1>2
<1>5. TypeOK' /\ DataType' /\ Extends
  BY <1>1, <1>3, <1>4 DEF IInv, TypeOK, DataType, Extends, datasetVars, Stored
<1>6. \A j \in Keys : EntryFits(j)'
  BY <1>1, <1>5, EntryStands DEF IInv
<1>7. \A c \in Calls : CallFits(c)'
  BY <1>1, <1>3 DEF CallFits, Running
<1>8. QED
  BY <1>5, <1>6, <1>7 DEF IInv

LEMMA ImportKeeps ==
  ASSUME GeoValidationAssumption, IInv, Import
  PROVE  IInv'
<1>1. PICK x \in Layerings : Activate(x[1], x[2])
  BY DEF Import, DatasetsNext
<1> DEFINE v == x[1]
           layers == x[2]
<1>2. x \in Versions \X Layers
  BY DEF GeoValidationAssumption, GeoDatasetsAssumption
<1>3. v \in Versions /\ layers \in Layers /\ x = <<v, layers>>
  BY <1>2
<1>4. /\ rows[v] = NoLayers /\ HasData(layers)
      /\ rows' = [rows EXCEPT ![v] = layers] /\ active' = v
  BY <1>1 DEF Activate
<1>5. /\ span' = [c \in Calls |-> IF Running(c) THEN span[c] \cup {active'} ELSE span[c]]
      /\ UNCHANGED <<config, call, cache, faults>>
  BY DEF Import
<1>6. layers # NoLayers
  BY <1>4 DEF HasData, NoLayers, Tables
<1>7. rows \in [Versions -> Layers] /\ span \in [Calls -> SUBSET (Versions \cup {NoVersion})]
  BY DEF IInv, TypeOK, DataType
<1> HIDE DEF v, layers
<1>8. rows' \in [Versions -> Layers] /\ rows'[v] = layers
      /\ \A w \in Versions \ {v} : rows'[w] = rows[w]
  BY <1>3, <1>4, <1>7
<1>9. Extends
  BY <1>4, <1>8 DEF Extends, Stored
<1>10. DataType'
  BY <1>3, <1>4, <1>6, <1>8 DEF DataType, Stored
<1>11. span' \in [Calls -> SUBSET (Versions \cup {NoVersion})]
       /\ \A c \in Calls : span[c] \subseteq span'[c] /\ (Running(c) => active' \in span'[c])
  BY <1>3, <1>4, <1>5, <1>7
<1>12. \A w \in Versions : rows'[w] # NoLayers => <<w, rows'[w]>> \in Layerings
  <2>1. <<v, layers>> \in Layerings
    BY <1>1, <1>3
  <2>2. \A w \in Versions : rows[w] # NoLayers => <<w, rows[w]>> \in Layerings
    BY DEF IInv, TypeOK
  <2>3. QED
    BY <1>8, <2>1, <2>2
<1>13. TypeOK'
  BY <1>3, <1>4, <1>5, <1>11, <1>12 DEF IInv, TypeOK
<1>14. \A k \in Keys : EntryFits(k)'
  BY <1>5, <1>9, EntryStands DEF IInv
<1>15. \A c \in Calls : CallFits(c)'
  BY <1>5, <1>9, <1>11, CallStands DEF IInv
<1>16. QED
  BY <1>10, <1>13, <1>14, <1>15 DEF IInv

LEMMA StutterKeeps ==
  ASSUME IInv, UNCHANGED vars
  PROVE  IInv'
BY DEF IInv, TypeOK, DataType, EntryFits, CallFits, AnswerFits, Holds, Stored, Running,
       ReasonBy, Covers, NearShore, vars, datasetVars

-----------------------------------------------------------------------------
(***************************************************************************)
(* The theorems.                                                           *)
(***************************************************************************)

LEMMA InitFits ==
  ASSUME GeoValidationAssumption, Init
  PROVE  IInv
<1>1. NoLayers \in Layers
  BY DEF NoLayers, Layers
<1>2. active = NoVersion /\ rows = [v \in Versions |-> NoLayers]
  BY DEF Init, DatasetsInit
<1>3. config \in Configs /\ call = [c \in Calls |-> Idle] /\ cache = [k \in Keys |-> NoEntry]
      /\ span = [c \in Calls |-> {}] /\ faults = 0
  BY DEF Init
<1>4. Idle \in CallStates /\ Idle.pc = "idle" /\ 0 \in 0..MaxFaults
  BY IdleTyped DEF GeoValidationAssumption
<1>5. TypeOK
  BY <1>2, <1>3, <1>4 DEF TypeOK
<1>6. DataType
  BY <1>1, <1>2 DEF DataType
<1>7. \A k \in Keys : EntryFits(k)
  BY <1>3 DEF EntryFits
<1>8. \A c \in Calls : CallFits(c)
  BY <1>3, <1>4 DEF CallFits, Running
<1>9. QED
  BY <1>5, <1>6, <1>7, <1>8 DEF IInv

LEMMA NextFits ==
  ASSUME GeoValidationAssumption, IInv, [Next]_vars
  PROVE  IInv'
<1>1. ASSUME NEW c \in Calls, NEW p \in Asked[c], Begin(c, p)
      PROVE  IInv'
  BY <1>1, BeginKeeps
<1>2. ASSUME NEW c \in Calls, Step(c)
      PROVE  IInv'
  BY <1>2, ReadVersionKeeps, ReadCacheKeeps, EvaluateKeeps, WriteCacheKeeps DEF Step
<1>3. ASSUME NEW c \in Calls, Fails(c)
      PROVE  IInv'
  BY <1>3, FailsKeeps
<1>4. ASSUME NEW k \in Keys, Expire(k)
      PROVE  IInv'
  BY <1>4, ExpireKeeps
<1>5. CASE Restart
  BY <1>5, RestartKeeps
<1>6. CASE Import
  BY <1>6, ImportKeeps
<1>7. CASE UNCHANGED vars
  BY <1>7, StutterKeeps
<1>8. QED
  BY <1>1, <1>2, <1>3, <1>4, <1>5, <1>6, <1>7 DEF Next

LEMMA InvariantAnswers ==
  ASSUME IInv
  PROVE  AnswersFit
<1>1. SUFFICES ASSUME NEW c \in Calls, call[c].pc = "answered"
               PROVE  LET r == call[c].result
                          p == call[c].pos IN
                      CASE call[c].source = "bypass" -> ~r.drop
                        [] call[c].source = "error" -> r.drop = ~config.failOpen
                        [] call[c].source = "postgis" ->
                             /\ r.version \in span[c]
                             /\ r = ToResult(r.version, ReasonBy(r.version, p))
                        [] call[c].source = "cache" ->
                             r.version \in span[c] /\ FitsBucket(r, r.version, p, config.precision)
  BY DEF AnswersFit
<1>2. AnswerFits(c)
  BY <1>1 DEF IInv, CallFits
<1>3. CASE call[c].source = "bypass"
  BY <1>2, <1>3 DEF AnswerFits
<1>4. CASE call[c].source = "error"
  BY <1>2, <1>4 DEF AnswerFits
<1>5. CASE call[c].source = "postgis"
  BY <1>2, <1>5 DEF AnswerFits, Holds
<1>6. CASE call[c].source = "cache"
  BY <1>2, <1>6 DEF AnswerFits, Holds, FitsBucket
<1>7. QED
  BY <1>2, <1>3, <1>4, <1>5, <1>6 DEF AnswerFits

\* The inductive invariant holds of every behaviour.
THEOREM GeoInvariant ==
  ASSUME GeoValidationAssumption
  PROVE  Spec => []IInv
<1>1. Init => IInv
  BY InitFits
<1>2. IInv /\ [Next]_vars => IInv'
  BY NextFits
<1>3. QED
  BY <1>1, <1>2, PTL DEF Spec

\* Every variable of the geo check keeps its type.
THEOREM GeoTypes ==
  ASSUME GeoValidationAssumption
  PROVE  Spec => []TypeOK
<1>1. IInv => TypeOK
  BY DEF IInv
<1>2. QED
  BY <1>1, GeoInvariant, PTL

\* validatePosition never answers with a verdict of a version that was not active during
\* the call, nor with one the version does not give to a position of the bucket, and drops
\* without a verdict only as GEO_VALIDATION_FAIL_OPEN says.
THEOREM GeoAnswersFit ==
  ASSUME GeoValidationAssumption
  PROVE  Spec => []AnswersFit
<1>1. IInv => AnswersFit
  BY InvariantAnswers
<1>2. QED
  BY <1>1, GeoInvariant, PTL
=============================================================================
