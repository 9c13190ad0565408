------------------------------- MODULE Services -------------------------------
(***************************************************************************)
(* The six machines that share no state with each other: geo imports, geo  *)
(* checks, imports of the sanctions list, judgements of a vessel, the      *)
(* provider's feed, and a vessel's profile.  A behaviour belongs to one of *)
(* them, its part; the others rest in their initial states, where their    *)
(* properties say nothing.  What two machines call by the same name        *)
(* (Entities, Null, NoVersion, MaxFaults) has one value here.              *)
(***************************************************************************)
EXTENDS Naturals, Sequences, FiniteSets

CONSTANTS
  Imports, Places, Manifest, Overrides, FailAfterLoad, NoTable, NoVersion,      \* geo imports
  Versions, Positions, Layerings, Calls, Asked, Configs, Buckets, Bucket, NoEntry,
                                                                                \* geo checks
  Workers, Entities, Published, BatchSize, NoSession, Ghost,             \* sanctions lists
  MatchJobs, Listings, Profiles, Normal, Null,                                \* judgements
  Sockets, NoSocket, ApiKey, MaxAttempt,                             \* the provider's feed
  Lives, Reports, MaxRepeats,                                                   \* profiles
  MaxFaults

VARIABLES
  part,
  pc, next, staged, written, locked, shared, off, active, rows, ok, victims, importFaults,
  activeNow, rowsNow, config, call, cache, span, checkFaults,
  current, worker, scheduled, waiting, orphans, holder, table, log, lockLost, listFaults,
  listed, fingerprint, job, decided, row, always, ever, jobFaults,
  started, closing, socket, wire, timer, attempt, listening, failures, late,
  life, flight, profile, repeats

Import == INSTANCE GeoImport WITH Positions <- Places, faults <- importFaults
Check == INSTANCE GeoValidation WITH active <- activeNow, rows <- rowsNow, faults <- checkFaults
Lists == INSTANCE SanctionsImport WITH faults <- listFaults
Matching == INSTANCE SanctionsMatching WITH
  Jobs <- MatchJobs, profile <- fingerprint, faults <- jobFaults
Feed == INSTANCE ProviderAdapter
Profile == INSTANCE VesselProfile

importVars ==
  <<pc, next, staged, written, locked, shared, off, active, rows, ok, victims, importFaults>>
checkVars == <<activeNow, rowsNow, config, call, cache, span, checkFaults>>
listVars ==
  <<current, worker, scheduled, waiting, orphans, holder, table, log, lockLost, listFaults>>
matchVars == <<listed, fingerprint, job, decided, row, always, ever, jobFaults>>
feedVars == <<started, closing, socket, wire, timer, attempt, listening, failures, late>>
profileVars == <<life, flight, profile, repeats>>
vars == <<part, importVars, checkVars, listVars, matchVars, feedVars, profileVars>>

ASSUME ServicesAssumption ==
  /\ Import!GeoImportAssumption
  /\ Check!GeoValidationAssumption
  /\ Lists!SanctionsImportAssumption
  /\ Matching!SanctionsMatchingAssumption
  /\ Feed!ProviderAdapterAssumption
  /\ Profile!VesselProfileAssumption

-----------------------------------------------------------------------------
Parts == {"import", "check", "lists", "matching", "feed", "profile"}

Init ==
  /\ part \in Parts
  /\ Import!Init /\ Check!Init /\ Lists!Init /\ Matching!Init /\ Feed!Init /\ Profile!Init

\* What the steps of a part leave alone.
notImport == <<part, checkVars, listVars, matchVars, feedVars, profileVars>>
notCheck == <<part, importVars, listVars, matchVars, feedVars, profileVars>>
notLists == <<part, importVars, checkVars, matchVars, feedVars, profileVars>>
notMatching == <<part, importVars, checkVars, listVars, feedVars, profileVars>>
notFeed == <<part, importVars, checkVars, listVars, matchVars, profileVars>>
notProfile == <<part, importVars, checkVars, listVars, matchVars, feedVars>>

Next ==
  \/ part = "import" /\ Import!Next /\ UNCHANGED notImport
  \/ part = "check" /\ Check!Next /\ UNCHANGED notCheck
  \/ part = "lists" /\ Lists!Next /\ UNCHANGED notLists
  \/ part = "matching" /\ Matching!Next /\ UNCHANGED notMatching
  \/ part = "feed" /\ Feed!Next /\ UNCHANGED notFeed
  \/ part = "profile" /\ Profile!Next /\ UNCHANGED notProfile

Spec == Init /\ [][Next]_vars

\* The steps that the machines' own FairSpec is fair to.
Proceed(i) == part = "import" /\ Import!Proceed(i) /\ UNCHANGED notImport
ImportJob == part = "lists" /\ Lists!ImportJob /\ UNCHANGED notLists
SessionEnds == part = "lists" /\ Lists!SessionEnds /\ UNCHANGED notLists
Take == part = "lists" /\ (\E w \in Workers : Lists!Take(w, "import")) /\ UNCHANGED notLists
Boot(w) == part = "lists" /\ Lists!Boot(w) /\ UNCHANGED notLists
Work(w) == part = "lists" /\ Lists!Step(w) /\ UNCHANGED notLists
Judge(j) == part = "matching" /\ Matching!Step(j) /\ UNCHANGED notMatching
Reconnect(s) == part = "feed" /\ Feed!Reconnect(s) /\ UNCHANGED notFeed
Shakes(s) == part = "feed" /\ Feed!Shakes(s) /\ UNCHANGED notFeed
Opens == part = "feed" /\ (\E s \in Sockets : Feed!Open(s)) /\ UNCHANGED notFeed
Broadcast(r) == part = "profile" /\ Profile!Broadcast(r) /\ UNCHANGED notProfile
Handle(r) == part = "profile" /\ Profile!Handle(r) /\ UNCHANGED notProfile

FairSpec ==
  /\ Spec
  /\ \A i \in Imports : WF_vars(Proceed(i))
  /\ WF_vars(ImportJob) /\ WF_vars(SessionEnds) /\ WF_vars(Take)
  /\ \A w \in Workers : WF_vars(Boot(w)) /\ WF_vars(Work(w))
  /\ \A j \in MatchJobs : WF_vars(Judge(j))
  /\ \A s \in Sockets : WF_vars(Reconnect(s)) /\ WF_vars(Shakes(s))
  /\ SF_vars(Opens)
  /\ \A r \in Reports : WF_vars(Broadcast(r)) /\ WF_vars(Handle(r))

-----------------------------------------------------------------------------
\* Every machine keeps its types.
TypeOK ==
  /\ part \in Parts
  /\ Import!TypeOK /\ Check!TypeOK /\ Lists!TypeOK /\ Matching!TypeOK /\ Feed!TypeOK
  /\ Profile!TypeOK

\* Overlapping, failing and killed geo imports show their readers whole versions only
\* (GeoImport).
ImplementsDatasets == Import!ImplementsDatasets

\* Without faults a geo import is only lost to another that gets through (GeoImport).
LosersHaveWinners == Import!LosersHaveWinners

\* A verdict is that of a version active during the call, cached or not (GeoValidation).
AnswersFit == Check!AnswersFit

\* A completed sanctions run stands for every vessel of its list (SanctionsImport).
CompletedStands == Lists!CompletedStands

\* A judgement over three reads is one that the moments of the job justify
\* (SanctionsMatching).
JudgedInSpan == Matching!JudgedInSpan

\* Results that were torn or late give way to the one that stands (SanctionsMatching).
StatusSettles == part = "matching" => Matching!StatusSettles

\* The provider's feed has one socket or one timer, and is not hammered (ProviderAdapter).
FeedHeld == Feed!OneConnection /\ Feed!BackoffGrows

\* A report never takes from the profile what it does not say (VesselProfile).
OnlyLearns == Profile!OnlyLearns

\* Late reports of an older profile are repaired (VesselProfile).
Converges == Profile!Converges

\* Whatever overlaps, fails, dies or closes, each service gets on: geo imports end, the
\* published sanctions list arrives, the feed is connected again (GeoImport,
\* SanctionsImport, ProviderAdapter).
ServicesGetOn == Import!ImportsEnd /\ Lists!ListArrives /\ Feed!StaysConnected
=============================================================================
