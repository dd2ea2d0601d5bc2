---------------------------- MODULE DaemonProps ----------------------------
(***************************************************************************)
(* What is checked of Daemon.                                              *)
(***************************************************************************)
EXTENDS Daemon

\* What the daemon queued for the relay, in that order, less what was lost when
\* the sender stopped.
Queued == handed \o sending \o outgoing

LastOf(type) == CHOOSE i \in DOMAIN Queued :
                  /\ Queued[i].type = type
                  /\ \A j \in DOMAIN Queued : Queued[j].type = type => j <= i
Some(type) == \E i \in DOMAIN Queued : Queued[i].type = type

\* The relay replaces what it knows by the list it is sent: no list leaves a
\* data source out, though the map it is made of starts empty and is filled
\* one check at a time (update_all_data_sources, 233-240).
ListsAreComplete ==
    \A i \in DOMAIN Queued :
        Queued[i].type = "sources"
            => \A d \in DataSource : Queued[i].states[d] # "unknown"

\* When the checker rests, the last list it queued is what it knows: no check
\* or retry changes a state without the relay being told, and no list that
\* was made earlier comes after it.  That is so until the sender has stopped:
\* from then on what the checker queues is lost (239, 259).
RelayIsUpToDate ==
    checker = "select" /\ ticks > 0 /\ sender # "stopped"
        => Some("sources") /\ Queued[LastOf("sources")].states = states

\* Once the data sources are announced as disconnected no list that says
\* otherwise follows, whatever checks and retries are still under way.
OfflineIsFinal ==
    Some("offline") /\ Some("sources") => LastOf("sources") < LastOf("offline")

\* A request has at most one answer, and none before its handler finished; the
\* answer of a handler that finished is on its way unless the sender stopped.
AnsweredOnce ==
    \A r \in Request :
        LET answers == Cardinality({i \in DOMAIN Queued : Queued[i] = Reply(r)})
        IN  /\ answers <= 1
            /\ answers = 1 => handler[r] = "done"
            /\ handler[r] = "done" /\ answers = 0 => sender = "stopped"

\* The metric CONCURRENT_QUERIES counts the provider calls that are under way.
GaugeCountsCalls ==
    gauge = Cardinality({r \in Request : handler[r] = "invoking"}) + InvokedBy(checking)

\* A request is answered whatever the checker does meanwhile, unless the
\* daemon ends, was told to end, or lost its connection.
RequestIsAnswered ==
    \A r \in Request :
        handler[r] = "spawned"
            ~> \/ Reply(r) \in ToSet(handed) \/ handler[r] = "failed"
               \/ main \in Exits \/ signals > 0 \/ phase # "up"

\* A failed check is repeated until its retries are used up.
RetryIsMade ==
    \A d \in DataSource :
        (\E t \in delayed : t.ds = d)
            ~> \/ \E t \in checking : t.ds = d
               \/ main \in Exits \/ checker = "stopped"

-----------------------------------------------------------------------------
\* "received SIGINT, shutting down listeners" (main.rs:140): a signal that
\* reached the main loop, the checker and the sender ends the daemon, even if
\* its connection stays up.
SigintEndsDaemon ==
    <>[](phase = "up")
        => ((ticks > 0 /\ \A t \in Receiver : shutdown[t] = "sent") ~> main \in Exits)
=============================================================================
