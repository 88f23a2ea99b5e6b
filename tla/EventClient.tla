---------------------------- MODULE EventClient ----------------------------
(***************************************************************************)
(* The browser's end of the event stream: SseClient (web lib/sse.ts).  A   *)
(* client that is not stopped waits for exactly one thing: a ticket, a     *)
(* stream, or the timer before the next attempt.                           *)
(*                                                                         *)
(* generation is counted by nobody but its own comparisons, so a ticket    *)
(* request is either of the present generation (asks) or of an earlier one *)
(* (strays); a step that increments the counter makes strays of all asks.  *)
(* attempt sets the length of the backoff and nothing else: left out.      *)
(***************************************************************************)
EXTENDS Naturals

VARIABLES stopped,     \* stopped
          connecting,  \* connecting
          asks,        \* ticket requests under way, of this generation
          strays,      \* ... and of earlier ones
          timer,       \* reconnectTimer is set
          beat,        \* heartbeatTimer is set
          source,      \* source: none, requested, or open (onopen was called)
          everOpen,    \* everOpen
          lastId       \* lastId: id of the last event received

client == <<stopped, connecting, asks, strays, timer, beat, source, everOpen, lastId>>

ClientTypeOK ==
    /\ {stopped, connecting, timer, beat, everOpen} \subseteq BOOLEAN
    /\ {asks, strays, lastId} \subseteq Nat
    /\ source \in {"none", "requested", "open"}
    /\ beat <=> source # "none"
    /\ connecting => asks > 0

(* The instant after start(), as the provider calls it: connect() has run. *)
ClientInit ==
    /\ stopped = FALSE
    /\ connecting = TRUE
    /\ asks = 1
    /\ strays = 0
    /\ timer = FALSE
    /\ beat = FALSE
    /\ source = "none"
    /\ everOpen = FALSE
    /\ lastId = 0

(* connect(): asks for a ticket, unless it is asking already. *)
Connect ==
    /\ connecting' = TRUE
    /\ asks' = IF connecting THEN asks ELSE asks + 1

(* start() of a stopped client. *)
Start ==
    /\ stopped
    /\ stopped' = FALSE
    /\ Connect
    /\ UNCHANGED <<strays, timer, beat, source, everOpen, lastId>>

(* Faulty: the generation is kept. *)
StopKeepingGeneration ==
    /\ stopped' = TRUE
    /\ connecting' = FALSE
    /\ timer' = FALSE
    /\ beat' = FALSE
    /\ source' = "none"
    /\ UNCHANGED <<asks, strays, everOpen, lastId>>

(* stop(): a new generation, no timer, no stream. *)
Stop ==
    /\ stopped' = TRUE
    /\ connecting' = FALSE
    /\ asks' = 0
    /\ strays' = strays + asks
    /\ timer' = FALSE
    /\ beat' = FALSE
    /\ source' = "none"
    /\ UNCHANGED <<everOpen, lastId>>

(* The reconnect timer fires, or retryNow() fires it early. *)
TimerFires ==
    /\ timer
    /\ timer' = FALSE
    /\ Connect
    /\ UNCHANGED <<stopped, strays, beat, source, everOpen, lastId>>

(* The ticket comes and attach() opens a stream with it. *)
Ticket ==
    /\ asks > 0
    /\ asks' = asks - 1
    /\ connecting' = FALSE
    /\ source' = "requested"
    /\ beat' = TRUE
    /\ UNCHANGED <<stopped, strays, timer, everOpen, lastId>>

(* A ticket, or an error, for a request of an earlier generation: nothing  *)
(* but the flag, which by now may stand for a later request.               *)
StrayAnswer ==
    /\ strays > 0
    /\ strays' = strays - 1
    /\ connecting' = FALSE
    /\ UNCHANGED <<stopped, asks, timer, beat, source, everOpen, lastId>>

(* scheduleReconnect(), for a client that is neither stopped nor asking    *)
(* and has not scheduled one: a new generation, no stream, one timer.      *)
ScheduleReconnect(pending) ==
    /\ timer' = TRUE
    /\ beat' = FALSE
    /\ source' = "none"
    /\ asks' = 0
    /\ strays' = strays + pending
    /\ UNCHANGED <<stopped, everOpen, lastId>>

(* No ticket: connect() catches and schedules. *)
NoTicket ==
    /\ asks > 0
    /\ ~timer
    /\ connecting' = FALSE
    /\ ScheduleReconnect(asks - 1)

(* onerror, or the heartbeat timer: the stream is given up. *)
GiveUp ==
    /\ source # "none"
    /\ ~timer /\ ~connecting
    /\ UNCHANGED connecting
    /\ ScheduleReconnect(asks)

(* onopen.  The provider refetches everything unless this is the first. *)
Opened ==
    /\ source = "requested"
    /\ source' = "open"
    /\ everOpen' = TRUE
    /\ UNCHANGED <<stopped, connecting, asks, strays, timer, beat, lastId>>

(* receive(): the id is kept for the next ticket's replay. *)
Receive(id) ==
    /\ source = "open"
    /\ lastId' = id
    /\ UNCHANGED <<stopped, connecting, asks, strays, timer, beat, source, everOpen>>

(* A client that is not stopped waits for exactly one thing, and a stopped *)
(* one for none: lib/sse.ts:112-113 and 302-303, one ticket and one stream *)
(* per drop, against stop() and start() around requests under way, answers *)
(* that come late, and errors that meet the heartbeat.                     *)
OneWayForward ==
    asks + (IF timer THEN 1 ELSE 0) + (IF source # "none" THEN 1 ELSE 0)
        = IF stopped THEN 0 ELSE 1
=============================================================================
