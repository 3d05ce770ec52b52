------------------------------ MODULE EventFeed ------------------------------
(***************************************************************************)
(* What one browser page is told about the runs: src/cli.ts broadcasts     *)
(* every event of a run that came over a WebSocket, and its result, to all *)
(* connected clients (src/connectors/web.ts); src/server/routes.ts answers *)
(* what the history and the execution history store hold.                  *)
(*                                                                         *)
(* The two ways are not ordered with each other. An event is broadcast     *)
(* before it is appended to the file, an HTTP answer shows some prefix of  *)
(* what was broadcast, and what is written to a socket arrives later, or   *)
(* never if the connection breaks.                                         *)
(***************************************************************************)
EXTENDS Naturals, FiniteSets, SequencesExt

CONSTANTS
    Task,
    None,
    MaxConcurrent,  \* runs that own a slot of the queue at a time
    MaxInFlight,    \* bound of the model: messages under way
    MaxDrops        \* bound of the model: connections that break

ASSUME FeedAssumption == None \notin Task /\ MaxConcurrent \in Nat \ {0}

VARIABLES
    submitted,  \* runs the runner has accepted
    sent,       \* how many events of each run have been broadcast
    recent,     \* the runs on disk, the one with the latest time stamp last
    finished,   \* the runner's history, the oldest run first
    open,       \* the page has a connection
    messages,   \* what was written to the page's sockets, in order
    received,   \* how much of it has arrived
    drops

feedVars == <<submitted, sent, recent, finished, open, messages, received, drops>>

\* What the console tells apart among the events of a run.
EventKinds == <<"init", "start", "delta", "end">>

Entry(t, n) == [task |-> t, seq |-> n, kind |-> EventKinds[n]]

EventMessage(t, n) == [type |-> "event", entry |-> Entry(t, n)]
ResultMessage(t) == [type |-> "result", task |-> t]

FeedInit ==
    /\ submitted = {}
    /\ sent = [t \in Task |-> 0]
    /\ recent = <<>>
    /\ finished = <<>>
    /\ open = FALSE
    /\ messages = <<>>
    /\ received = 0
    /\ drops = 0

\* A chat message reaches the runner, from this page or from another one.
Submit(t) ==
    /\ t \notin submitted
    /\ submitted' = submitted \cup {t}
    /\ UNCHANGED <<sent, recent, finished, open, messages, received, drops>>

\* Clients that are not connected are not in the connector's map.
Broadcast(m) ==
    messages' = IF open THEN Append(messages, m) ELSE messages

\* The runs that own a slot: it is given back right after the last event.
UnderWay == { t \in Task : sent[t] \in 1..Len(EventKinds) - 1 }

CanWrite == Len(messages) - received < MaxInFlight

\* The run emits its next event; with the first it gets its place on disk.
Emit(t) ==
    /\ t \in submitted
    /\ sent[t] < Len(EventKinds)
    /\ t \in UnderWay \/ Cardinality(UnderWay) < MaxConcurrent
    /\ CanWrite
    /\ sent' = [sent EXCEPT ![t] = @ + 1]
    /\ Broadcast(EventMessage(t, sent[t] + 1))
    /\ recent' = IF sent[t] = 0 THEN Append(recent, t) ELSE recent
    /\ UNCHANGED <<submitted, finished, open, received, drops>>

\* runner.run() resolves: final metadata and history first, then the result.
Finish(t) ==
    /\ sent[t] = Len(EventKinds)
    /\ t \notin ToSet(finished)
    /\ CanWrite
    /\ finished' = Append(finished, t)
    /\ recent' = Append(RemoveFirst(recent, t), t)
    /\ Broadcast(ResultMessage(t))
    /\ UNCHANGED <<submitted, sent, open, received, drops>>

\* The socket opens, at first and two seconds after each loss.
Connect ==
    /\ ~open
    /\ open' = TRUE
    /\ UNCHANGED <<submitted, sent, recent, finished, messages, received, drops>>

\* The connection breaks; what is still under way is lost with it.
Disconnect ==
    /\ open
    /\ drops < MaxDrops
    /\ open' = FALSE
    /\ messages' = SubSeq(messages, 1, received)
    /\ drops' = drops + 1
    /\ UNCHANGED <<submitted, sent, recent, finished, received>>

Arriving == received < Len(messages)

\* GET /api/runs/<id>: what is appended so far, all of it once the run is over.
StoredEvents(t) ==
    { [n \in 1..k |-> Entry(t, n)] :
        k \in IF t \in ToSet(finished) THEN {sent[t]} ELSE 0..sent[t] }

\* GET /api/runs, its first entry: a run that has just begun may not have
\* its metadata yet.
NewestStored ==
    { recent[i] : i \in { j \in DOMAIN recent :
                          \A k \in j + 1..Len(recent) : sent[recent[k]] = 1 } }

=============================================================================
