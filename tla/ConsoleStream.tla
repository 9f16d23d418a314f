---------------------------- MODULE ConsoleStream ----------------------------
(* The event stream of the console: the threads of the HTTP server that      *)
(* serve /api/stream, each polling task_events and the workers' heartbeats,   *)
(* beside everything that appends events, and clients that come and go.      *)
EXTENDS Naturals, FiniteSets, Sequences, SequencesExt

CONSTANTS
  Clients,    \* browsers
  Workers,    \* rows of worker_heartbeats
  Slots,      \* max_sse_connections
  Page,       \* limit of list_recent_events
  MaxEvents   \* events appended in all

ASSUME ConsoleAssumption ==
  /\ Slots \in Nat /\ Page \in Nat \ {0} /\ MaxEvents \in Nat
  /\ IsFiniteSet(Clients)

VARIABLES
  events,     \* the highest id of task_events
  heartbeat,  \* of each worker: none, idle (its status is not active), fresh, stale
  alert,      \* of each worker: none, open, resolved
  active,     \* active_sse_connections
  phase,      \* where the stream of each client is
  gone,       \* clients that closed their end
  lastId,     \* last_id of each stream, 0 for None
  rows,       \* the ids it read and has not sent
  news,       \* the workers whose alerts it found and has not sent
  emitted,    \* emitted_alert_ids
  received,   \* the ids the client got on this connection
  told        \* the workers it got an alert of

store == <<events, heartbeat, alert>>
client == <<received, told>>
stream == <<lastId, rows, news, emitted, client>>
vars == <<store, active, phase, gone, stream>>

Phases == {"closed", "poll", "alerts", "send", "keepalive"}

TypeOK ==
  /\ events \in 0..MaxEvents
  /\ heartbeat \in [Workers -> {"none", "idle", "fresh", "stale"}]
  /\ alert \in [Workers -> {"none", "open", "resolved"}]
  /\ active \in 0..Slots
  /\ phase \in [Clients -> Phases]
  /\ gone \in SUBSET Clients
  /\ lastId \in [Clients -> Nat] /\ rows \in [Clients -> Seq(Nat)]
  /\ news \in [Clients -> SUBSET Workers] /\ emitted \in [Clients -> SUBSET Workers]
  /\ received \in [Clients -> Seq(Nat)] /\ told \in [Clients -> Seq(Workers)]

Init ==
  /\ events \in 0..MaxEvents
  /\ heartbeat = [w \in Workers |-> "none"] /\ alert = [w \in Workers |-> "none"]
  /\ active = 0
  /\ phase = [c \in Clients |-> "closed"]
  /\ gone = {}
  /\ lastId = [c \in Clients |-> 0]
  /\ rows = [c \in Clients |-> <<>>] /\ news = [c \in Clients |-> {}]
  /\ emitted = [c \in Clients |-> {}]
  /\ received = [c \in Clients |-> <<>>] /\ told = [c \in Clients |-> <<>>]

-----------------------------------------------------------------------------
(* The rest of the program writes the tables.                                *)

AppendEvent ==
  /\ events < MaxEvents
  /\ events' = events + 1
  /\ UNCHANGED <<heartbeat, alert>>

Beat(w) ==
  /\ \E h \in {"fresh", "idle"} : heartbeat' = [heartbeat EXCEPT ![w] = h]
  /\ UNCHANGED <<events, alert>>

\* 120 seconds without a heartbeat.
GrowStale(w) ==
  /\ heartbeat[w] = "fresh"
  /\ heartbeat' = [heartbeat EXCEPT ![w] = "stale"]
  /\ UNCHANGED <<events, alert>>

Stale == {w \in Workers : heartbeat[w] = "stale"}

\* upsert_system_alert sets the status of a row that exists, a resolved one too.
Opened(found) == [w \in Workers |-> IF w \in found THEN "open" ELSE alert[w]]

\* GET /api/alerts
QueryAlerts ==
  /\ alert' = Opened(Stale)
  /\ UNCHANGED <<events, heartbeat>>

ResolveAlert(w) ==
  /\ alert[w] # "none"
  /\ alert' = [alert EXCEPT ![w] = "resolved"]
  /\ UNCHANGED <<events, heartbeat>>

Others ==
  /\ \/ AppendEvent \/ QueryAlerts
     \/ \E w \in Workers : Beat(w) \/ GrowStale(w) \/ ResolveAlert(w)
  /\ UNCHANGED <<active, phase, gone, stream>>

-----------------------------------------------------------------------------
(* do_GET: a connection takes a slot, or is answered with 429, which changes *)
(* nothing.                                                                  *)
Connect(c) ==
  /\ phase[c] = "closed" /\ active < Slots
  /\ active' = active + 1
  /\ phase' = [phase EXCEPT ![c] = "poll"]
  /\ gone' = gone \ {c}
  /\ lastId' = [lastId EXCEPT ![c] = 0]
  /\ rows' = [rows EXCEPT ![c] = <<>>] /\ news' = [news EXCEPT ![c] = {}]
  /\ emitted' = [emitted EXCEPT ![c] = {}]
  /\ received' = [received EXCEPT ![c] = <<>>] /\ told' = [told EXCEPT ![c] = <<>>]
  /\ UNCHANGED store

\* External: the client closes its end, which a thread learns by writing to it.
Disconnect(c) ==
  /\ phase[c] # "closed" /\ c \notin gone
  /\ gone' = gone \cup {c}
  /\ UNCHANGED <<store, active, phase, stream>>

From(first, last) == [i \in 1..(last - first + 1) |-> first + i - 1]
AtMost(n) == IF n < Page THEN n ELSE Page

\* Mutant: always the newest rows.
RecentEventsNewest(after) ==
  From(events - AtMost(events - after) + 1, events)

\* list_recent_events: the newest rows in the order of their ids, or, after an
\* id, the rows that follow it.
RecentEvents(after) ==
  IF after = 0 THEN From(events - AtMost(events) + 1, events)
               ELSE From(after + 1, after + AtMost(events - after))

ReadEvents(c) ==
  /\ phase[c] = "poll"
  /\ rows' = [rows EXCEPT ![c] = RecentEvents(lastId[c])]
  /\ phase' = [phase EXCEPT ![c] = "alerts"]
  /\ UNCHANGED <<store, active, gone, lastId, news, emitted, client>>

EvaluateAlerts(c) ==
  /\ phase[c] = "alerts"
  /\ alert' = Opened(Stale)
  /\ news' = [news EXCEPT ![c] = Stale \ emitted[c]]
  /\ phase' = [phase EXCEPT ![c] =
                 IF rows[c] = <<>> /\ Stale = {} THEN "keepalive" ELSE "send"]
  /\ UNCHANGED <<events, heartbeat, active, gone, lastId, rows, emitted, client>>

\* The stream sleeps after a keepalive, and only then.
SendKeepalive(c) ==
  /\ phase[c] = "keepalive" /\ c \notin gone
  /\ phase' = [phase EXCEPT ![c] = "poll"]
  /\ UNCHANGED <<store, active, gone, stream>>

\* Mutant: the stream has seen all there is once it has sent a row.
PassedTheTable(c) == lastId' = [lastId EXCEPT ![c] = events]

\* last_id = int(row["id"])
Passed(c) == lastId' = [lastId EXCEPT ![c] = Head(rows[c])]

SendEvent(c) ==
  /\ phase[c] = "send" /\ rows[c] # <<>> /\ c \notin gone
  /\ Passed(c)
  /\ rows' = [rows EXCEPT ![c] = Tail(@)]
  /\ received' = [received EXCEPT ![c] = Append(@, Head(rows[c]))]
  /\ UNCHANGED <<store, active, phase, gone, news, emitted, told>>

SendAlert(c, w) ==
  /\ phase[c] = "send" /\ rows[c] = <<>> /\ w \in news[c] /\ c \notin gone
  /\ emitted' = [emitted EXCEPT ![c] = @ \cup {w}]
  /\ news' = [news EXCEPT ![c] = @ \ {w}]
  /\ told' = [told EXCEPT ![c] = Append(@, w)]
  /\ UNCHANGED <<store, active, phase, gone, lastId, rows, received>>

PollAgain(c) ==
  /\ phase[c] = "send" /\ rows[c] = <<>> /\ news[c] = {}
  /\ phase' = [phase EXCEPT ![c] = "poll"]
  /\ UNCHANGED <<store, active, gone, stream>>

\* Mutant: the slot is given back only after a stream that came to its end.
ReleaseNothing == UNCHANGED active

\* _release_sse_slot
Release == active' = IF active > 0 THEN active - 1 ELSE 0

\* The write of whatever comes next raises, and the handler ends through its
\* finally.
WriteFails(c) ==
  /\ c \in gone
  /\ \/ phase[c] = "keepalive"
     \/ phase[c] = "send" /\ (rows[c] # <<>> \/ news[c] # {})
  /\ Release
  /\ phase' = [phase EXCEPT ![c] = "closed"]
  /\ UNCHANGED <<store, gone, stream>>

Serve(c) ==
  \/ ReadEvents(c) \/ EvaluateAlerts(c)
  \/ SendKeepalive(c) \/ SendEvent(c) \/ (\E w \in Workers : SendAlert(c, w))
  \/ PollAgain(c) \/ WriteFails(c)

Next ==
  \/ Others
  \/ \E c \in Clients : Connect(c) \/ Disconnect(c) \/ Serve(c)

\* The threads of the server run; a client that is there reads what it gets.
Spec == Init /\ [][Next]_vars /\ \A c \in Clients : WF_vars(Serve(c))

-----------------------------------------------------------------------------
Open == {c \in Clients : phase[c] # "closed"}
Contiguous(ids) == \A i \in 1..(Len(ids) - 1) : ids[i + 1] = ids[i] + 1
Once(names) == \A i, j \in DOMAIN names : names[i] = names[j] => i = j

(* A client gets the events without a gap, a repetition or a step back from    *)
(* the first on, however many arrive between two polls, and hears of a silent *)
(* worker once (sse_stream, list_recent_events).                              *)
StreamContinuous == \A c \in Clients : Contiguous(received[c]) /\ Once(told[c])

(* A stream that has begun delivers every event that is appended, and the     *)
(* alert of a worker that stays silent, unless its client leaves.             *)
EventsArrive ==
  \A c \in Clients :
    /\ \A e \in 1..MaxEvents :
         (phase[c] # "closed" /\ received[c] # <<>> /\ events >= e)
           ~> ((received[c] # <<>> /\ Last(received[c]) >= e) \/ c \in gone)
    /\ \A w \in Workers :
         (phase[c] # "closed" /\ w \in Stale)
           ~> (w \in ToSet(told[c]) \/ c \in gone \/ w \notin Stale)

\* A stream that has nothing to say but the alerts it has already sent polls on
\* without a keepalive: it never writes, and never learns that its client left.
Busy(c) == phase[c] # "closed" /\ Stale # {} /\ Stale \subseteq emitted[c]

(* When a client has left, its stream ends and the count of streams is again  *)
(* the number of streams, so the limit never eats up the slots; unless the    *)
(* stream is busy with alerts it has sent before.                             *)
SlotsComeBack ==
  \A c \in Clients :
    (c \in gone /\ phase[c] # "closed")
      ~> (phase[c] = "closed" /\ active = Cardinality(Open)) \/ Busy(c)
=============================================================================
