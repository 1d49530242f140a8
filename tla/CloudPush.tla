------------------------------ MODULE CloudPush ------------------------------
(***************************************************************************)
(* From a change in the control plane's store to a push on a phone:        *)
(* handlers change the store under its lock and broadcast the event after  *)
(* unlocking; crates/cloud/src/push.rs turns events into alerts, at most   *)
(* one per (run, reason) and window, and Live Activity updates; /v1/stream *)
(* (http.rs) shows them to a client.  The broadcast channel is tokio's     *)
(* (external): a receiver that falls more than its capacity behind loses   *)
(* the oldest events and is told so once.                                  *)
(***************************************************************************)
EXTENDS Naturals, FiniteSets, Sequences

CONSTANTS
  Runs,
  Handlers,    \* request handlers that run concurrently
  BusCapacity, \* broadcast::channel(1024)
  DedupWindow, \* DEDUP_SECS
  AlertAt,     \* spend at which a run reaches alert_pct of its central budget
  NoEvent,
  MaxSpend,    \* bound: spend of a run
  MaxEvents,   \* bound: events
  MaxNow       \* bound: the clock

VARIABLES
  spent, killed,   \* the store
  pending,         \* per handler the event it has yet to send
  bus,             \* every event sent, in order
  worker,          \* PushPipeline: the next event to receive, and whether its loop still runs
  client,          \* a /v1/stream subscriber: the next event, and how many it was shown
  lastSent,        \* PushPipeline.dedup: (run, reason) -> time
  notified,        \* the incident's last_notified_millis
  pushes,          \* alerts sent: <<run, reason, time>>
  activity,        \* per run the last Live Activity update
  now

vars == <<spent, killed, pending, bus, worker, client, lastSent, notified, pushes, activity, now>>

Event(kind, run, s) == [kind |-> kind, run |-> run, spent |-> s]
NoUpdate == [spent |-> 0, ended |-> FALSE, shown |-> FALSE]

Init ==
  /\ spent = [r \in Runs |-> 0]
  /\ killed = {}
  /\ pending = [h \in Handlers |-> NoEvent]
  /\ bus = <<>>
  /\ worker = [at |-> 1, running |-> TRUE]
  /\ client = [at |-> 1, shown |-> 0]
  /\ lastSent = [k \in Runs \X {"kill", "budget"} |-> 0]
  /\ notified = 0
  /\ pushes = {}
  /\ activity = [r \in Runs |-> NoUpdate]
  /\ now = DedupWindow + 1

Outstanding == Cardinality({h \in Handlers : pending[h] # NoEvent})

(* A handler's store call: the change, and the event it will send.         *)
Change(h, e) ==
  /\ pending[h] = NoEvent
  /\ Len(bus) + Outstanding < MaxEvents
  /\ pending' = [pending EXCEPT ![h] = e]
  /\ UNCHANGED <<bus, worker, client, lastSent, notified, pushes, activity, now>>

Ingest(h, r) ==
  /\ spent[r] < MaxSpend
  /\ spent' = [spent EXCEPT ![r] = @ + 1]
  /\ Change(h, Event("run_update", r, spent[r] + 1))
  /\ UNCHANGED killed

Kill(h, r) ==
  /\ killed' = killed \cup {r}
  /\ Change(h, Event("kill", r, 0))
  /\ UNCHANGED spent

TripIncident(h, r) ==
  /\ Change(h, Event("incident", r, 0))
  /\ UNCHANGED <<spent, killed>>

Send(h) ==
  /\ pending[h] # NoEvent
  /\ bus' = Append(bus, pending[h])
  /\ pending' = [pending EXCEPT ![h] = NoEvent]
  /\ UNCHANGED <<spent, killed, worker, client, lastSent, notified, pushes, activity, now>>

-----------------------------------------------------------------------------
Lagged(at) == Len(bus) - at + 1 > BusCapacity

(* should_send: nothing sent for (run, reason) within the window.          *)
ShouldSend(r, reason) ==
  lastSent[<<r, reason>>] = 0 \/ now - lastSent[<<r, reason>>] >= DedupWindow

Alert(r, reason) ==
  IF ShouldSend(r, reason)
  THEN /\ lastSent' = [lastSent EXCEPT ![<<r, reason>>] = now]
       /\ pushes' = pushes \cup {<<r, reason, now>>}
  ELSE UNCHANGED <<lastSent, pushes>>

Update(r, s, ended) == activity' = [activity EXCEPT ![r] = [spent |-> s, ended |-> ended, shown |-> TRUE]]

HandleKill(e) ==
  /\ Alert(e.run, "kill")
  /\ Update(e.run, 0, TRUE)
  /\ UNCHANGED notified

HandleRunUpdate(e) ==
  /\ IF e.spent >= AlertAt THEN Alert(e.run, "budget") ELSE UNCHANGED <<lastSent, pushes>>
  /\ Update(e.run, e.spent, FALSE)
  /\ UNCHANGED notified

(* incident_alert: the incident's own stamp decides.                       *)
HandleIncident(e) ==
  /\ IF now - notified > DedupWindow
     THEN notified' = now /\ pushes' = pushes \cup {<<e.run, "incident", now>>}
     ELSE UNCHANGED <<notified, pushes>>
  /\ UNCHANGED <<lastSent, activity>>

Handle(e) ==
  \/ e.kind = "kill" /\ HandleKill(e)
  \/ e.kind = "run_update" /\ HandleRunUpdate(e)
  \/ e.kind = "incident" /\ HandleIncident(e)

(* while let Ok(event) = rx.recv(): the loop ends on any error, also on    *)
(* the one that says events were lost.                                     *)
Receive ==
  /\ worker.running /\ worker.at <= Len(bus)
  /\ IF Lagged(worker.at)
     THEN /\ worker' = [worker EXCEPT !.running = FALSE]
          /\ UNCHANGED <<lastSent, notified, pushes, activity>>
     ELSE /\ worker' = [worker EXCEPT !.at = @ + 1]
          /\ Handle(bus[worker.at])
  /\ UNCHANGED <<spent, killed, pending, bus, client, now>>

(* BroadcastStream with filter_map: an error is skipped, the stream goes   *)
(* on with the oldest event that is left.                                  *)
StreamNext ==
  /\ client.at <= Len(bus)
  /\ client' = IF Lagged(client.at)
               THEN [client EXCEPT !.at = Len(bus) - BusCapacity + 1]
               ELSE [at |-> client.at + 1, shown |-> client.shown + 1]
  /\ UNCHANGED <<spent, killed, pending, bus, worker, lastSent, notified, pushes, activity, now>>

Tick ==
  /\ now < MaxNow
  /\ now' = now + 1
  /\ UNCHANGED <<spent, killed, pending, bus, worker, client, lastSent, notified, pushes, activity>>

Next ==
  \/ \E h \in Handlers, r \in Runs : Ingest(h, r) \/ Kill(h, r) \/ TripIncident(h, r)
  \/ \E h \in Handlers : Send(h)
  \/ Receive \/ StreamNext \/ Tick

(* Handlers finish, and the two receivers' tasks are scheduled.            *)
Fairness == WF_vars(Receive) /\ WF_vars(StreamNext) /\ \A h \in Handlers : WF_vars(Send(h))

Spec == Init /\ [][Next]_vars /\ Fairness

-----------------------------------------------------------------------------
(* At most one alert per (run, reason) and one incident push per window,   *)
(* however the handlers' events interleave.                                *)
OneAlertPerWindow ==
  /\ \A p, q \in pushes : p # q /\ p[1] = q[1] /\ p[2] = q[2] /\ p[2] # "incident" =>
       p[3] - q[3] >= DedupWindow \/ q[3] - p[3] >= DedupWindow
  /\ \A p, q \in pushes : p # q /\ p[2] = "incident" /\ q[2] = "incident" =>
       p[3] - q[3] > DedupWindow \/ q[3] - p[3] > DedupWindow

(* A run that reaches its alert threshold is announced, whichever of two   *)
(* handlers sends its event first.                                         *)
BudgetAlertsPushed ==
  \A r \in Runs : spent[r] >= AlertAt ~> \E p \in pushes : p[1] = r /\ p[2] = "budget"

(* docs/14 and push.rs: the pipeline is to "process events until it        *)
(* closes"; the bus never closes, so every kill is announced.              *)
KillsPushed == \A r \in Runs : r \in killed ~> \E p \in pushes : p[1] = r /\ p[2] = "kill"

(* A stream subscriber that lagged still gets to the newest event.         *)
StreamCatchesUp == []<>(client.at = Len(bus) + 1)
=============================================================================
