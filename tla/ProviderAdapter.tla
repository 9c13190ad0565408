--------------------------- MODULE ProviderAdapter ---------------------------
(***************************************************************************)
(* The AISStream adapter (src/ingestion/aisstream/aisstream.adapter.ts) as *)
(* the provider registry starts and stops it: one WebSocket at a time, a   *)
(* timer that opens the next one after a close, a backoff that any frame   *)
(* resets.  The events of a socket come when the ws library emits them,    *)
(* before or after start(), stop() and the timer, and a socket may close   *)
(* long after the adapter has dropped it.                                  *)
(***************************************************************************)
EXTENDS Naturals, FiniteSets

CONSTANTS Sockets,    \* WebSocket objects; a closed one stands for a new one
          NoSocket,
          ApiKey,     \* whether AISSTREAM_API_KEY is set
          MaxAttempt  \* bound: attempts that are told apart; from 5 on, after 1, 2, 4, 8
                      \* and 16 s, the delay stays at 30 s

ProviderAdapterAssumption ==
  /\ NoSocket \notin Sockets
  /\ ApiKey \in BOOLEAN
  /\ MaxAttempt \in 0..5

VARIABLES
  started, closing,
  socket,     \* the adapter's socket
  wire,       \* per socket: its readyState, "none" before it is made and after its close event
  timer,      \* reconnectTimer is set
  attempt,    \* connectAttempt, up to MaxAttempt
  listening,  \* the emitter has the pipeline's listener
  failures,   \* history: closes since the last frame, up to MaxAttempt
  late        \* history: a frame reached the pipeline after stop()

adapterVars == <<started, closing, socket, timer, attempt, listening>>
vars == <<adapterVars, wire, failures, late>>

States == {"none", "connecting", "open", "closing"}

TypeOK ==
  /\ started \in BOOLEAN /\ closing \in BOOLEAN
  /\ socket \in Sockets \cup {NoSocket}
  /\ wire \in [Sockets -> States]
  /\ timer \in BOOLEAN
  /\ attempt \in 0..MaxAttempt
  /\ listening \in BOOLEAN
  /\ failures \in 0..MaxAttempt
  /\ late \in BOOLEAN

Init ==
  /\ started = FALSE /\ closing = FALSE
  /\ socket = NoSocket
  /\ wire = [s \in Sockets |-> "none"]
  /\ timer = FALSE
  /\ attempt = 0
  /\ listening = TRUE   \* onMessage is called before the registry starts its providers
  /\ failures = 0
  /\ late = FALSE

AtMost(n) == IF n > MaxAttempt THEN MaxAttempt ELSE n

\* nextBackoffMs: the least and the greatest delay of an attempt, in milliseconds.
ExpMs(n) == IF 1000 * 2 ^ n > 30000 THEN 30000 ELSE 1000 * 2 ^ n
LeastMs(n) == (ExpMs(n) * 8) \div 10
GreatestMs(n) == (ExpMs(n) * 12) \div 10

-----------------------------------------------------------------------------
\* connect: s is a new WebSocket.
Connect(s) ==
  IF closing
    THEN UNCHANGED <<socket, wire>>
    ELSE /\ wire[s] = "none"
         /\ socket' = s
         /\ wire' = [wire EXCEPT ![s] = "connecting"]

\* start, called by onModuleInit of the registry; without a key the process does not come up.
Start(s) ==
  /\ ~started /\ ~closing /\ ApiKey
  /\ started' = TRUE
  /\ Connect(s)
  /\ UNCHANGED <<closing, timer, attempt, listening, failures, late>>

\* Mutant: stop leaves the timer.
StopKeepingTimer ==
  /\ ~closing
  /\ closing' = TRUE
  /\ wire' = IF socket # NoSocket THEN [wire EXCEPT ![socket] = "closing"] ELSE wire
  /\ socket' = NoSocket
  /\ listening' = FALSE
  /\ UNCHANGED <<started, timer, attempt, failures, late>>

\* stop, called by onModuleDestroy of the registry.
Stop ==
  /\ ~closing
  /\ closing' = TRUE
  /\ timer' = FALSE
  /\ wire' = IF socket # NoSocket THEN [wire EXCEPT ![socket] = "closing"] ELSE wire
  /\ socket' = NoSocket
  /\ listening' = FALSE
  /\ UNCHANGED <<started, attempt, failures, late>>

\* Mutant: the backoff is reset by the handshake.
OpenResets(s) ==
  /\ wire[s] = "connecting"
  /\ wire' = [wire EXCEPT ![s] = "open"]
  /\ attempt' = 0
  /\ UNCHANGED <<started, closing, socket, timer, listening, failures, late>>

\* The 'open' event: the subscription is sent.
Open(s) ==
  /\ wire[s] = "connecting"
  /\ wire' = [wire EXCEPT ![s] = "open"]
  /\ UNCHANGED <<adapterVars, failures, late>>

\* What AISStream may send: text that is not JSON, an error object, a type not asked for, a
\* message without its envelope, an MMSI that is no vessel's, a vessel's message.
Frames == {"not_json", "no_type", "other_type", "no_envelope", "odd_mmsi", "vessel"}

\* AisStreamRawFilter.accept.
Verdict(frame) ==
  CASE frame = "vessel" -> "accepted"
    [] frame \in {"no_type", "no_envelope"} -> "invalid"
    [] OTHER -> "non_vessel_mmsi"

\* The 'message' event, which a closing socket still emits.
Message(s, frame) ==
  /\ wire[s] \in {"open", "closing"}
  /\ IF frame = "not_json"
       THEN UNCHANGED <<attempt, failures, late>>
       ELSE /\ attempt' = 0
            /\ failures' = 0
            /\ late' = (late \/ (Verdict(frame) = "accepted" /\ listening /\ closing))
  /\ UNCHANGED <<started, closing, socket, wire, timer, listening>>

\* scheduleReconnect.
ScheduleReconnect ==
  /\ timer' = TRUE
  /\ attempt' = AtMost(attempt + 1)

\* Mutant: only a connection that was open is tried again.
CloseAfterOpen(s) ==
  /\ wire[s] # "none"
  /\ wire' = [wire EXCEPT ![s] = "none"]
  /\ socket' = NoSocket
  /\ failures' = AtMost(failures + 1)
  /\ IF closing \/ wire[s] = "connecting" THEN UNCHANGED <<timer, attempt>> ELSE ScheduleReconnect
  /\ UNCHANGED <<started, closing, listening, late>>

\* The 'close' event, after an 'error' event or without one, at any time.
Close(s) ==
  /\ wire[s] # "none"
  /\ wire' = [wire EXCEPT ![s] = "none"]
  /\ socket' = NoSocket
  /\ failures' = AtMost(failures + 1)
  /\ IF closing THEN UNCHANGED <<timer, attempt>> ELSE ScheduleReconnect
  /\ UNCHANGED <<started, closing, listening, late>>

\* The reconnect timer fires.
Reconnect(s) ==
  /\ timer
  /\ timer' = FALSE
  /\ Connect(s)
  /\ UNCHANGED <<started, closing, attempt, listening, failures, late>>

Next ==
  \/ Stop
  \/ \E s \in Sockets :
       Start(s) \/ Open(s) \/ Close(s) \/ Reconnect(s) \/ \E frame \in Frames : Message(s, frame)

Spec == Init /\ [][Next]_vars

Shakes(s) == wire[s] = "connecting" /\ (Open(s) \/ Close(s))

\* Timers fire, and a handshake either succeeds or ends in a close event; the service
\* accepts a connection now and then.
FairSpec ==
  /\ Spec
  /\ \A s \in Sockets : /\ WF_vars(Reconnect(s))
                        /\ WF_vars(Shakes(s))
  /\ SF_vars(\E s \in Sockets : Open(s))

-----------------------------------------------------------------------------
(* Correctness.                                                            *)

Live == {s \in Sockets : wire[s] \in {"connecting", "open"}}

\* Whatever close events come late and wherever stop() falls between timer and sockets: the
\* running adapter has its one socket or its timer, never both, never neither; the stopped
\* one has no timer, makes no socket, and hands no frame on.
OneConnection ==
  /\ started /\ ~closing =>
       /\ Cardinality(Live) + (IF timer THEN 1 ELSE 0) = 1
       /\ Live = {s \in Sockets : s = socket}
  /\ closing => ~timer /\ Live = {} /\ ~late

\* A service that accepts connections and drops them without a frame is asked less and less
\* often: every such close makes the next delay longer than any before it, up to the cap.
BackoffGrows ==
  ~closing => /\ attempt = failures
              /\ attempt > 0 => LeastMs(attempt) > GreatestMs(attempt - 1)

\* The feed comes back: whatever closes, the adapter gets to an open connection, or is
\* stopped.
StaysConnected == (started /\ ~closing) ~> (closing \/ \E s \in Sockets : wire[s] = "open")
=============================================================================
