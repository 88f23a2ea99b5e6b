------------------------------ MODULE EventHub ------------------------------
(***************************************************************************)
(* The server's end of the event stream: SseHub (sse/hub.ts), the tickets  *)
(* of sse/tickets.ts and the route that joins them (routes/events.ts), for *)
(* one user.  Events are numbered by the process, kept in a bounded        *)
(* history for replay, and written to the connection of the one browser    *)
(* the model has.  Connections whose browser has gone count against the    *)
(* limit until the server notices.  EventStream composes these operations  *)
(* with the browser and with the rounds that publish.                      *)
(***************************************************************************)
EXTENDS Naturals, Sequences, FiniteSets

CONSTANTS HistoryLimit,  \* historyLimit: events kept for replay
          MaxPerUser     \* maxPerUser: connections of one user

ASSUME HubBounds == HistoryLimit \in Nat /\ MaxPerUser \in Nat \ {0}

NoId == 0   \* lastEventId absent: the ids of a process begin at 1

VARIABLES seq,       \* #seq: the last id this process gave
          history,   \* #history: the last events, oldest first
          window,    \* #pending: a message:new waits for its window to end
          attached,  \* the browser's present stream is in #clients
          channel,   \* written to that stream and not yet read
          halfOpen   \* streams in #clients whose browser has gone

hub == <<seq, history, window, attached, channel, halfOpen>>

Kinds == {"start", "retry", "done", "new"}   \* sync:error settles like sync:done
Tiers == {"background", "user"}              \* bulk and interactive are "user"
Event == [kind : Kinds, tier : Tiers, id : Nat]

(* What occupies the limit of the user: this stream and the dead ones. *)
Occupied == halfOpen + (IF attached THEN 1 ELSE 0)

HubTypeOK ==
    /\ seq \in Nat
    /\ history \in Seq(Event) /\ Len(history) <= HistoryLimit
    /\ window \in BOOLEAN
    /\ attached \in BOOLEAN
    /\ channel \in Seq(Event) /\ (attached \/ channel = <<>>)
    /\ halfOpen \in Nat
    /\ Occupied <= MaxPerUser

HubInit ==
    /\ seq = 0
    /\ history = <<>>
    /\ window = FALSE
    /\ attached = FALSE
    /\ channel = <<>>
    /\ halfOpen = 0

(* #remember: the entries past their time go (which those are is the       *)
(* clock's choice: an oldest part), then those beyond the limit.           *)
Remembered(event) ==
    LET Kept(k) == Append(SubSeq(history, k + 1, Len(history)), event)
    IN  IF HistoryLimit = 0 THEN {history}
        ELSE {kept \in {Kept(k) : k \in 0 .. Len(history)} : Len(kept) <= HistoryLimit}

(* publish(): numbered, remembered, and written to whoever is connected. *)
Publish(kind, tier) ==
    LET event == [kind |-> kind, tier |-> tier, id |-> seq + 1]
    IN  /\ seq' = seq + 1
        /\ history' \in Remembered(event)
        /\ channel' = IF attached THEN Append(channel, event) ELSE channel

(* The window of a coalesced event ends and the event is published. *)
WindowEnds ==
    /\ window
    /\ window' = FALSE
    /\ Publish("new", "user")
    /\ UNCHANGED <<attached, halfOpen>>

(* The end of the history after an id: its entries are in ascending order  *)
(* of their ids (hub.ts:100), so those that are newer are its last ones.   *)
After(id) ==
    LET newer == Cardinality({i \in DOMAIN history : history[i].id > id})
    IN  SubSeq(history, Len(history) - newer + 1, Len(history))

(* Faulty: the first event after the gap is skipped. *)
ReplayFromNext(lastId) == IF lastId = NoId THEN <<>> ELSE After(lastId + 1)

(* #replay: what is in the history after the id the browser names. *)
Replay(lastId) == IF lastId = NoId THEN <<>> ELSE After(lastId)

(* Faulty: one stream too many. *)
HasRoomForOneMore == Occupied <= MaxPerUser

HasRoom == Occupied < MaxPerUser

(* The route takes the one-time ticket and add() registers the stream. *)
Add(lastId) ==
    /\ HasRoom
    /\ attached' = TRUE
    /\ channel' = Replay(lastId)
    /\ UNCHANGED <<seq, history, window, halfOpen>>

(* The browser's end is gone; the server does not know yet. *)
Abandon ==
    /\ attached' = FALSE
    /\ channel' = <<>>
    /\ halfOpen' = IF attached THEN halfOpen + 1 ELSE halfOpen
    /\ UNCHANGED <<seq, history, window>>

(* 'close' of a dead socket, or a write to it that throws: #remove. *)
Notice ==
    /\ halfOpen > 0
    /\ halfOpen' = halfOpen - 1
    /\ UNCHANGED <<seq, history, window, attached, channel>>

(* The process ends (closeAll, or a crash) and a new one starts. *)
Restart ==
    /\ seq' = 0
    /\ history' = <<>>
    /\ window' = FALSE
    /\ attached' = FALSE
    /\ channel' = <<>>
    /\ halfOpen' = 0
=============================================================================
