-------------------------- MODULE QueueConnection --------------------------
(***************************************************************************)
(* createQueueConnection (packages/queue/src/connection.ts) in one API     *)
(* process, with the connections it has to the broker.  The channel and    *)
(* the connection are always set and dropped together, so one variable     *)
(* stands for both.  A callback runs to completion: one action each.  The  *)
(* length of the back-off is left out, its timers are kept.                *)
(*                                                                         *)
(* The actions leave the process's other variables open: ApiReplica says   *)
(* what becomes of them.                                                   *)
(***************************************************************************)
EXTENDS Integers, FiniteSets

CONSTANTS Conns, NoConn   \* the connections a process can have at a time

ASSUME QueueConstants ==
    /\ IsFiniteSet(Conns)
    /\ NoConn \notin Conns

VARIABLES
    stage,      \* of a connection: "none", "connecting", "opening" (connected,
                \* its channel or topology is awaited), "live" (its events are
                \* listened to), "closing", or "left" (open, and forgotten)
    timers,     \* setTimeouts of scheduleReconnect that have not fired
    current,    \* what getChannel() goes by
    closed,
    doubled     \* history: reconnects scheduled by a second event of a failure

queueVars == <<stage, timers, current, closed, doubled>>

In(s) == {c \in Conns : stage[c] = s}

QueueTypeOK ==
    /\ stage \in [Conns -> {"none", "connecting", "opening", "live", "closing", "left"}]
    /\ timers \in 0..(1 + doubled)
    /\ current \in Conns \cup {NoConn}
    /\ closed \in BOOLEAN
    /\ doubled \in Nat

\* Before createQueueConnection is called.
QueueInit ==
    /\ stage = [c \in Conns |-> "none"]
    /\ timers = 0
    /\ current = NoConn
    /\ closed = FALSE
    /\ doubled = 0

\* The process is gone and its sockets with it.
QueueReset ==
    /\ stage' = [c \in Conns |-> "none"]
    /\ timers' = 0
    /\ current' = NoConn
    /\ closed' = FALSE
    /\ doubled' = 0

---------------------------------------------------------------------------
scheduleReconnect(n) == timers' = IF closed THEN timers ELSE timers + n

\* Any unused name will do for the new connection: it takes the first.
connectOnce(c) ==
    /\ stage[c] = "none"
    /\ c = CHOOSE d \in Conns : stage[d] = "none"
    /\ stage' = [stage EXCEPT ![c] = "connecting"]

\* createQueueConnection at boot.
QueueBoot ==
    /\ \E c \in Conns : connectOnce(c)
    /\ UNCHANGED <<timers, current, closed, doubled>>

ReconnectTimer ==
    /\ timers > 0
    /\ timers' = timers - 1
    /\ IF closed THEN UNCHANGED stage ELSE \E c \in Conns : connectOnce(c)
    /\ UNCHANGED <<current, closed, doubled>>

Connected(c) ==
    /\ stage[c] = "connecting"
    /\ stage' = [stage EXCEPT ![c] = "opening"]
    /\ UNCHANGED <<timers, current, closed, doubled>>

\* The channel is open and the topology asserted.  closed is not looked at.
ChannelOpened(c) ==
    /\ stage[c] = "opening"
    /\ stage' = [stage EXCEPT ![c] = "live"]
    /\ current' = c
    /\ UNCHANGED <<timers, closed, doubled>>

\* The catch branch reports the error and forgets to try again.
AttemptFailsWrongGivesUp(c) ==
    /\ \/ stage[c] = "connecting" /\ stage' = [stage EXCEPT ![c] = "none"]
       \/ stage[c] = "opening" /\ \E s \in {"none", "left"} : stage' = [stage EXCEPT ![c] = s]
    /\ UNCHANGED <<timers, current, closed, doubled>>

\* The failed connection's own handler has scheduled a reconnect as well.
AttemptFailsWrongTwice(c) ==
    /\ \/ stage[c] = "connecting" /\ stage' = [stage EXCEPT ![c] = "none"]
       \/ stage[c] = "opening" /\ \E s \in {"none", "left"} : stage' = [stage EXCEPT ![c] = s]
    /\ scheduleReconnect(2)
    /\ UNCHANGED <<current, closed, doubled>>

\* The catch branch.  A connection whose channel or topology was refused is
\* not closed.
AttemptFails(c) ==
    /\ \/ stage[c] = "connecting" /\ stage' = [stage EXCEPT ![c] = "none"]
       \/ stage[c] = "opening" /\ \E s \in {"none", "left"} : stage' = [stage EXCEPT ![c] = s]
    /\ scheduleReconnect(1)
    /\ UNCHANGED <<current, closed, doubled>>

\* The identity test is missing: whoever fails drops the channel.
onDownWrongIdentity(c, n) ==
    /\ current' = NoConn
    /\ scheduleReconnect(n)

\* The channel is not dropped.
onDownWrongStale(c, n) ==
    /\ UNCHANGED current
    /\ scheduleReconnect(n)

\* n events of connection c, one after the other.
onDown(c, n) ==
    /\ current' = IF current = c THEN NoConn ELSE current
    /\ scheduleReconnect(n)

\* A failing connection emits "error" and then "close"; one the broker closes
\* in good order emits "close" alone.
ConnectionFails(c, n) ==
    /\ stage[c] = "live"
    /\ stage' = [stage EXCEPT ![c] = "none"]
    /\ onDown(c, n)
    /\ doubled' = IF closed THEN doubled ELSE doubled + n - 1
    /\ UNCHANGED closed

\* A forgotten connection is closed by the broker: nobody listens.
LeftCloses(c) ==
    /\ stage[c] = "left"
    /\ stage' = [stage EXCEPT ![c] = "none"]
    /\ UNCHANGED <<timers, current, closed, doubled>>

\* close(): only the connection in use at that moment is closed.
CloseQueue ==
    /\ ~closed
    /\ closed' = TRUE
    /\ current' = NoConn
    /\ stage' = IF current = NoConn THEN stage ELSE [stage EXCEPT ![current] = "closing"]
    /\ UNCHANGED <<timers, doubled>>

\* Its "close" event: onDown finds closed set.
CloseDone(c) ==
    /\ stage[c] = "closing"
    /\ stage' = [stage EXCEPT ![c] = "none"]
    /\ onDown(c, 1)
    /\ UNCHANGED <<closed, doubled>>

\* What the broker and the timers owe the process.
QueueStep ==
    \/ ReconnectTimer
    \/ \E c \in Conns : Connected(c) \/ ChannelOpened(c) \/ CloseDone(c)

---------------------------------------------------------------------------
\* publish() is never handed the channel of a connection known to have
\* failed, however the events of old and new connections interleave.
ChannelIsOpen == current # NoConn => stage[current] = "live"

=============================================================================
