--------------------------------- MODULE Events --------------------------------
(***************************************************************************)
(* The event journal and its fan-out: publish and SubscribeEvents of       *)
(* application.Service, the journal rows of the repository, and the        *)
(* server-sent-event handler of the HTTP API with the clients that         *)
(* reconnect to it.                                                        *)
(*                                                                         *)
(* An event is its journal id.  publish looks at the stopping channel, and *)
(* only then takes eventMu, under which it appends and fans out: a         *)
(* publisher is between the two while it is in `publishing'.  A            *)
(* subscriber's channel is bounded; one that is full is closed and         *)
(* forgotten, and its handler still reads what it holds before it sees the *)
(* end.  The retention clock is not modelled: any prefix of the journal    *)
(* may have grown old when PruneEvents runs.                               *)
(***************************************************************************)
EXTENDS Naturals, Sequences, FiniteSets, FiniteSetsExt, SequencesExt

CONSTANTS
    EventClients,   \* the clients of GET /api/v1/events
    QueueCap,       \* places of a subscriber's channel (32 in the code)
    ReplayLimit,    \* events one connection replays (200 in the code)
    KeepEvents,     \* rows PruneEvents always keeps
    MaxEvents,      \* bound: events ever appended
    MaxConnects     \* bound: connections of one client

ASSUME EventsAssumption ==
    /\ IsFiniteSet(EventClients)
    /\ QueueCap \in Nat \ {0} /\ ReplayLimit \in Nat \ {0}
    /\ KeepEvents \in Nat /\ MaxEvents \in Nat /\ MaxConnects \in Nat

VARIABLES
    journal,        \* ids of the rows of event_journal
    lastEvent,      \* the last id the journal gave out
    eventsStopping, \* the service's stopping channel is closed
    eventsClosed,   \* Service.eventsClosed
    repoOpen,       \* the repository still takes writes
    publishing,     \* a publisher has passed the stopping check
    conn,           \* client -> its handler and channel, see ConnType
    client          \* client -> what it has seen, see ClientType

eventsVars == <<journal, lastEvent, eventsStopping, eventsClosed, repoOpen,
                publishing, conn, client>>

Ids == 1..MaxEvents

(* A handler: at is the place it has reached, channel the events buffered  *)
(* for it, open whether the channel is still subscribed, replay and        *)
(* delivered the handler's variables.                                      *)
ConnType == [at: {"none", "replaying", "live"}, channel: Seq(Ids),
             open: BOOLEAN, replay: BOOLEAN, delivered: 0..MaxEvents]

(* A client: seen is its last event id (what EventSource sends back as     *)
(* Last-Event-ID), from where its history starts, got the events it was    *)
(* sent, lost those a replay was asked for and could not deliver.          *)
ClientType == [seen: 0..MaxEvents, from: 0..MaxEvents, got: SUBSET Ids,
               lost: SUBSET Ids, connects: 0..MaxConnects]

NoConn == [at |-> "none", channel |-> <<>>, open |-> FALSE, replay |-> FALSE,
           delivered |-> 0]

(* The journal survives a restart: the server may start with events in it, *)
(* and a client with an id of an earlier run.                              *)
EventsInit ==
    /\ lastEvent \in 0..(MaxEvents - 1)
    /\ journal = 1..lastEvent
    /\ eventsStopping = FALSE /\ eventsClosed = FALSE /\ repoOpen = TRUE
    /\ publishing = FALSE
    /\ conn = [c \in EventClients |-> NoConn]
    /\ client \in [EventClients -> {[seen |-> s, from |-> s, got |-> {},
                                     lost |-> {}, connects |-> 0] :
                                    s \in 0..lastEvent}]

(* The stopping check at the head of publish.                              *)
PublishStarts ==
    /\ ~publishing /\ ~eventsStopping /\ lastEvent < MaxEvents
    /\ publishing' = TRUE
    /\ UNCHANGED <<journal, lastEvent, eventsStopping, eventsClosed, repoOpen,
                   conn, client>>

\* Mutant: a full channel loses the event and stays subscribed.
FannedOutDropping(k, id) ==
    IF k.open /\ Len(k.channel) < QueueCap
    THEN [k EXCEPT !.channel = Append(@, id)] ELSE k

(* Fan-out to one subscriber: a full channel is closed and dropped.        *)
FannedOut(k, id) ==
    IF ~k.open THEN k
    ELSE IF Len(k.channel) < QueueCap THEN [k EXCEPT !.channel = Append(@, id)]
    ELSE [k EXCEPT !.open = FALSE]

(* Append and fan out under eventMu; an append that fails (a closed        *)
(* repository always fails) ends the publication without a trace.          *)
Publish ==
    /\ publishing
    /\ publishing' = FALSE
    /\ \/ /\ repoOpen
          /\ lastEvent' = lastEvent + 1
          /\ journal' = journal \cup {lastEvent + 1}
          /\ conn' = [c \in EventClients |-> FannedOut(conn[c], lastEvent + 1)]
       \/ UNCHANGED <<journal, lastEvent, conn>>
    /\ UNCHANGED <<eventsStopping, eventsClosed, repoOpen, client>>

(* PruneEvents: the rows that are old, but never the newest KeepEvents.    *)
PruneEvents ==
    /\ repoOpen
    /\ \E n \in 1..lastEvent :
          LET kept == {id \in journal :
                         Cardinality({j \in journal : j > id}) < KeepEvents}
          IN journal' = {id \in journal : id > n} \cup kept
    /\ UNCHANGED <<lastEvent, eventsStopping, eventsClosed, repoOpen,
                   publishing, conn, client>>

\* Mutant: new streams are accepted after the streams were closed.
ConnectAnyway(c, resume) ==
    /\ conn[c].at = "none" /\ client[c].connects < MaxConnects
    /\ conn' = [conn EXCEPT ![c] =
          [at |-> IF resume THEN "replaying" ELSE "live", channel |-> <<>>,
           open |-> TRUE, replay |-> resume,
           delivered |-> IF resume THEN client[c].seen ELSE 0]]
    /\ client' = [client EXCEPT ![c].connects = @ + 1]
    /\ UNCHANGED <<journal, lastEvent, eventsStopping, eventsClosed, repoOpen,
                   publishing>>

(* The handler starts: it parses where to resume and subscribes before it  *)
(* replays.  A client that never saw an event and asks for none follows    *)
(* from now on; it then has no resume point.                               *)
Connect(c, resume) ==
    /\ conn[c].at = "none" /\ client[c].connects < MaxConnects
    /\ conn' = [conn EXCEPT ![c] =
          [at |-> IF resume THEN "replaying" ELSE "live", channel |-> <<>>,
           open |-> ~eventsClosed, replay |-> resume,
           delivered |-> IF resume THEN client[c].seen ELSE 0]]
    /\ client' = [client EXCEPT ![c].connects = @ + 1,
                                ![c].from = IF resume THEN @ ELSE lastEvent,
                                ![c].seen = IF resume THEN @ ELSE lastEvent]
    /\ UNCHANGED <<journal, lastEvent, eventsStopping, eventsClosed, repoOpen,
                   publishing>>

(* ListEvents(after, limit): the oldest rows after the resume point.       *)
ListEvents(after) ==
    {id \in journal : /\ id > after
                      /\ Cardinality({j \in journal : after < j /\ j < id})
                           < ReplayLimit}

\* Mutant: the handler subscribes only after the replay was read.
ReplayThenSubscribe(c) ==
    /\ conn[c].at = "replaying"
    /\ \E rows \in {ListEvents(conn[c].delivered), {}} :
          LET after == conn[c].delivered
              last == Max({after} \cup rows)
              coming == rows \cup {id \in Range(conn[c].channel) : id > last}
          IN /\ conn' = [conn EXCEPT ![c].at = "live", ![c].delivered = last,
                                     ![c].channel = <<>>]
             /\ client' = [client EXCEPT
                   ![c].got = @ \cup rows, ![c].seen = last,
                   ![c].lost = @ \cup ((after + 1)..lastEvent \ coming)]
    /\ UNCHANGED <<journal, lastEvent, eventsStopping, eventsClosed, repoOpen,
                   publishing>>

(* The replay.  A read that fails is taken for an empty one; what the      *)
(* journal no longer has, or the limit cuts off, and what is not already   *)
(* in the channel will never be sent.                                      *)
Replay(c) ==
    /\ conn[c].at = "replaying"
    /\ \E rows \in {ListEvents(conn[c].delivered), {}} :
          LET after == conn[c].delivered
              last == Max({after} \cup rows)
              coming == rows \cup {id \in Range(conn[c].channel) : id > last}
              horizon == IF conn[c].open THEN lastEvent
                         ELSE Max({after} \cup coming)
          IN /\ conn' = [conn EXCEPT ![c].at = "live", ![c].delivered = last]
             /\ client' = [client EXCEPT
                   ![c].got = @ \cup rows,
                   ![c].seen = last,
                   ![c].lost = @ \cup ((after + 1)..horizon \ coming)]
    /\ UNCHANGED <<journal, lastEvent, eventsStopping, eventsClosed, repoOpen,
                   publishing>>

\* Mutant: live events that the replay covered are sent again.
DeliverAgain(c) ==
    /\ conn[c].at = "live" /\ conn[c].channel # <<>>
    /\ conn' = [conn EXCEPT ![c].channel = Tail(@)]
    /\ client' = [client EXCEPT ![c].got = @ \cup {Head(conn[c].channel)},
                                ![c].seen = Head(conn[c].channel)]
    /\ UNCHANGED <<journal, lastEvent, eventsStopping, eventsClosed, repoOpen,
                   publishing>>

(* One live event: skipped when the replay has covered it.                 *)
Deliver(c) ==
    /\ conn[c].at = "live" /\ conn[c].channel # <<>>
    /\ LET id == Head(conn[c].channel)
           skip == conn[c].replay /\ id <= conn[c].delivered
       IN /\ conn' = [conn EXCEPT ![c].channel = Tail(@),
                        ![c].delivered = IF skip \/ id < @ THEN @ ELSE id]
          /\ client' = IF skip THEN client
                       ELSE [client EXCEPT ![c].got = @ \cup {id},
                                           ![c].seen = id]
    /\ UNCHANGED <<journal, lastEvent, eventsStopping, eventsClosed, repoOpen,
                   publishing>>

(* The stream was closed and holds nothing more: the handler returns.      *)
StreamEnds(c) ==
    /\ conn[c].at = "live" /\ ~conn[c].open /\ conn[c].channel = <<>>
    /\ conn' = [conn EXCEPT ![c] = NoConn]
    /\ UNCHANGED <<journal, lastEvent, eventsStopping, eventsClosed, repoOpen,
                   publishing, client>>

(* The client hangs up: the handler returns and its deferred cancel takes  *)
(* the channel out of the subscribers; what it held is not sent.           *)
HangUp(c) ==
    /\ conn[c].at = "live"
    /\ conn' = [conn EXCEPT ![c] = NoConn]
    /\ UNCHANGED <<journal, lastEvent, eventsStopping, eventsClosed, repoOpen,
                   publishing, client>>

(* App.Close: the streams are closed before the HTTP server is drained...  *)
CloseEventStreams ==
    /\ ~eventsClosed
    /\ eventsClosed' = TRUE
    /\ conn' = [c \in EventClients |-> [conn[c] EXCEPT !.open = FALSE]]
    /\ UNCHANGED <<journal, lastEvent, eventsStopping, repoOpen, publishing,
                   client>>

(* ... Service.Close then stops the publishers, and the repository closes  *)
(* while one that no group waits for may still be on its way.              *)
EventsStop ==
    /\ eventsClosed /\ repoOpen
    /\ \/ ~eventsStopping /\ eventsStopping' = TRUE /\ UNCHANGED repoOpen
       \/ eventsStopping /\ repoOpen' = FALSE /\ UNCHANGED eventsStopping
    /\ UNCHANGED <<journal, lastEvent, eventsClosed, publishing, conn, client>>

Handler(c) == Replay(c) \/ Deliver(c) \/ StreamEnds(c)

EventsNext ==
    \/ PublishStarts \/ Publish \/ PruneEvents
    \/ \E c \in EventClients :
          \/ \E resume \in BOOLEAN : Connect(c, resume)
          \/ Handler(c) \/ HangUp(c)
    \/ CloseEventStreams \/ EventsStop

(* A handler that has something to read is scheduled; nothing else must    *)
(* happen.                                                                 *)
EventsFairness == \A c \in EventClients : WF_eventsVars(Handler(c))

EventsTypeOK ==
    /\ journal \subseteq 1..lastEvent /\ lastEvent \in 0..MaxEvents
    /\ {eventsStopping, eventsClosed, repoOpen, publishing} \subseteq BOOLEAN
    /\ conn \in [EventClients -> ConnType]
    /\ \A c \in EventClients : Len(conn[c].channel) <= QueueCap
    /\ client \in [EventClients -> ClientType]

(* What a client has seen leaves no hole: every event between the start of *)
(* its history and the last id it holds was sent to it on some connection, *)
(* or was beyond the reach of a replay (pruned, past the limit, or read    *)
(* with an error).  Concerns a channel closed for being full, the order of *)
(* subscribing and replaying, and reconnecting.                            *)
NoSilentGap ==
    \A c \in EventClients :
       (client[c].from + 1)..client[c].seen \subseteq client[c].got \cup client[c].lost

(* Shutdown is not held up by event streams: once they are closed, every   *)
(* handler, one that connected late included, comes to its end.            *)
StreamsDrain ==
    \A c \in EventClients : eventsClosed ~> conn[c].at = "none"

(* Events: the types, and no gap in what a client has seen.                *)
EventsSafe == EventsTypeOK /\ NoSilentGap
================================================================================
