----------------------------- MODULE ApiReplica -----------------------------
(***************************************************************************)
(* The life of API processes with both their connections: boot             *)
(* (apps/api/src/main.ts, the onModuleInit hooks), reconnects, shutdown    *)
(* (the onModuleDestroy hooks) and restart.  Self is modelled with its     *)
(* queue connection; of the other replicas only the Redis connection is    *)
(* kept, which is where they meet.                                         *)
(***************************************************************************)
EXTENDS QueueConnection, RedisConnection

CONSTANTS Self, MaxFaults   \* bound on the steps of Fault

ASSUME ReplicaConstants ==
    /\ Self \in Replicas
    /\ MaxFaults \in Nat
    /\ Cardinality(Conns) > MaxFaults   \* no attempt lacks a connection

VARIABLES
    life,       \* of each process: "down", "up", "stopping"
    faults

replicaVars == <<queueVars, redisVars, life, faults>>

TypeOK ==
    /\ QueueTypeOK
    /\ RedisTypeOK
    /\ life \in [Replicas -> {"down", "up", "stopping"}]
    /\ faults \in 0..MaxFaults

Init ==
    /\ QueueInit
    /\ RedisInit
    /\ life = [r \in Replicas |-> "down"]
    /\ faults = 0

---------------------------------------------------------------------------
\* Both providers are created while Nest builds the modules.
Boot(r) ==
    /\ life[r] = "down"
    /\ life' = [life EXCEPT ![r] = "up"]
    /\ RedisBoot(r)
    /\ IF r = Self THEN QueueBoot ELSE UNCHANGED queueVars
    /\ UNCHANGED faults

\* SIGTERM.  Nest runs the destroy hooks before it closes the HTTP server, so
\* requests are served meanwhile.
Shutdown(r) ==
    /\ life[r] = "up"
    /\ life' = [life EXCEPT ![r] = "stopping"]
    /\ UNCHANGED <<queueVars, redisVars>>

\* The destroy hook of QueueModule, and that of RedisModule.
DestroyQueue ==
    /\ life[Self] = "stopping"
    /\ CloseQueue
    /\ UNCHANGED redisVars

DestroyRedis(r) ==
    /\ life[r] = "stopping"
    /\ RedisQuit(r)
    /\ UNCHANGED queueVars

\* The end of a process, whatever it was doing.
ProcessEnds(r) ==
    /\ life[r] # "down"
    /\ life' = [life EXCEPT ![r] = "down"]
    /\ RedisReset(r)
    /\ IF r = Self THEN QueueReset ELSE UNCHANGED queueVars

\* The hooks are done and the requests answered, or Kubernetes has waited for
\* terminationGracePeriodSeconds.
Exit(r) ==
    /\ life[r] = "stopping"
    /\ ProcessEnds(r)
    /\ UNCHANGED faults

\* An "error" of a connection nobody listens to (before its channel is open,
\* or left behind by a failed attempt) is an uncaught exception.
UnheardError ==
    /\ In("opening") \cup In("left") # {}
    /\ ProcessEnds(Self)

---------------------------------------------------------------------------
Queue == QueueStep /\ UNCHANGED <<redisVars, life, faults>>

\* What the client of r does without a fault: it connects, flushes, and
\* notices that its socket is dead.
RedisStep(r) == Ready(r) \/ FlushStep(r) \/ (link[r] = "broken" /\ CloseEvent(r))

Redis(r) == RedisStep(r) /\ UNCHANGED <<queueVars, life, faults>>

Hooks ==
    /\ DestroyQueue \/ \E r \in Replicas : DestroyRedis(r)
    /\ UNCHANGED <<life, faults>>

\* A request is served until its process ends.
Buyers ==
    /\ \E q \in Requests :
        \/ RequestEnds(q)
        \/ \E r \in Replicas, k \in Keys :
            \/ life[r] # "down" /\ reserve(q, r, k)
            \/ DirectWrite(q, r, k)
    /\ UNCHANGED <<queueVars, life, faults>>

WarmScript ==
    /\ \E k \in Keys : WarmSets(k)
    /\ UNCHANGED <<queueVars, life, faults>>

QueueFault ==
    /\ \E c \in Conns : AttemptFails(c) \/ LeftCloses(c)
                        \/ \E n \in {1, 2} : ConnectionFails(c, n)
    /\ UNCHANGED <<redisVars, life>>

RedisFault ==
    /\ \/ RedisRestarts
       \/ \E r \in Replicas : \/ LinkBreaks(r) \/ FlushRefused(r)
                              \/ link[r] = "connecting" /\ CloseEvent(r)
       \/ \E q \in Requests, r \in Replicas, k \in Keys : ReserveRefused(q, r, k)
       \/ WarmReads
    /\ UNCHANGED <<queueVars, life>>

ProcessFault == UnheardError \/ \E r \in Replicas : Shutdown(r) \/ ProcessEnds(r)

Fault ==
    /\ faults < MaxFaults
    /\ faults' = faults + 1
    /\ QueueFault \/ RedisFault \/ ProcessFault

Next ==
    \/ \E r \in Replicas : Boot(r) \/ Exit(r) \/ Redis(r)
    \/ Queue \/ Hooks
    \/ Buyers \/ WarmScript
    \/ Fault

Spec == Init /\ [][Next]_replicaVars

\* Kubernetes restarts a process, timers fire, both clients try for ever and
\* get through once nothing fails any more.  Nobody has to buy.
Fairness ==
    /\ \A r \in Replicas : WF_replicaVars(Boot(r) \/ Exit(r)) /\ WF_replicaVars(Redis(r))
    /\ WF_replicaVars(Queue)

FairSpec == Spec /\ Fairness

---------------------------------------------------------------------------
\* A running process never stops trying: of attempts, connections in use and
\* reconnects due it always has one.  Nor do they multiply beyond what a
\* failure's second event may add, for a connection nobody uses or closes.
ReconnectsBalanced ==
    life[Self] # "down" /\ ~closed =>
        timers + Cardinality(In("connecting")) + Cardinality(In("opening"))
            + Cardinality(In("live")) \in 1..(1 + doubled)

\* The channel in use is given up only when its own connection fails, for a
\* newer one, by close() or with the process: a late event of an older
\* connection never takes it away.
OnlyOwnFailureDropsChannel ==
    [][current # NoConn /\ current' = NoConn =>
        \/ stage'[current] # "live"
        \/ closed']_replicaVars

\* Once nothing fails any more, publish() has a channel again and keeps it.
ChannelComesBack == <>[](current # NoConn)

\* Stale keys that are not orphans are gone or warmed in the end: again and
\* again there are none.
StaleKeysGo == []<>(Stale \subseteq orphans)

=============================================================================
