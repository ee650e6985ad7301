------------------------------ MODULE Forward -------------------------------
(***************************************************************************)
(* One channel of the UDP forwarder hdk2udp: Run subscribes to the groups  *)
(* one after the other and starts a reader for each; a reader decodes a    *)
(* notification, replaces its reference by the path of the archived file   *)
(* and sends it to a queue; sendTo numbers what it takes from the queue    *)
(* and writes it as processed parameters to an address.                    *)
(***************************************************************************)
EXTENDS Pool

CONSTANTS
    FwdCap,         \* capacity of the queue: 100 in the code
    Configs,        \* configurations: levels, time and interval
    Width           \* 2^16 in the code: numbers of parameters are uint16

ASSUME ForwardAssumption ==
    /\ FwdCap \in Nat \ {0}
    /\ Width \in Nat \ {0}
    /\ \A c \in Configs : c.levels \in Seq(STRING)

VARIABLES
    config,         \* configuration of the channel
    run,            \* Run: "subscribing", "waiting" or "returned"
    subs,           \* groups that have a reader
    held,           \* held[g]: message the reader of g is sending, if any
    fq,             \* queue of the channel, closed when Run returns
    num,            \* counter of sendTo
    params,         \* sets of parameters written, as records
    alive           \* the process has not panicked

fwdVars == <<config, run, subs, held, fq, num, params, alive>>

FwdInit ==
    /\ config \in Configs
    /\ run = "subscribing"
    /\ subs = {}
    /\ held = [g \in Groups |-> {}]
    /\ fq = <<>>
    /\ num = 0
    /\ params = {}
    /\ alive = TRUE

-----------------------------------------------------------------------------

Subscribe(g) ==
    /\ alive
    /\ run = "subscribing"
    /\ g \notin subs
    /\ subs' = subs \cup {g}
    /\ run' = IF subs' = Groups THEN "waiting" ELSE run
    /\ UNCHANGED <<config, held, fq, num, params, alive, netVars>>

\* Run returns and closes the queue; the readers it has started keep running.
SubscribeFail ==
    /\ alive
    /\ run = "subscribing"
    /\ run' = "returned"
    /\ UNCHANGED <<config, subs, held, fq, num, params, alive, netVars>>

\* channel.Prepare; Reference(...) comes before the name of the file.
Prepare(m) == Append(Reference(config, m), m.reference)

ReadNotification(g, d) ==
    /\ alive
    /\ g \in subs
    /\ held[g] = {}
    /\ Receive(g, d)
    /\ held' = [held EXCEPT ![g] = {[DecodeMessage(d) EXCEPT
                                       !.reference = Prepare(DecodeMessage(d))]}]
    /\ UNCHANGED <<config, run, subs, fq, num, params, alive>>

Enqueue(g) ==
    /\ alive
    /\ run # "returned"
    /\ Len(fq) < FwdCap
    /\ held' = [held EXCEPT ![g] = {}]
    /\ \E m \in held[g] : fq' = Append(fq, m)
    /\ UNCHANGED <<config, run, subs, num, params, alive, netVars>>

\* A send to the closed queue ends the process, with all of its channels.
EnqueueClosed(g) ==
    /\ alive
    /\ run = "returned"
    /\ held[g] # {}
    /\ alive' = FALSE
    /\ UNCHANGED <<config, run, subs, held, fq, num, params, netVars>>

\* The parameters of a message; its acquisition time is not among them.
marshal(m, i) ==
    [seqNum |-> i, origin |-> m.origin, sequence |-> m.sequence,
     instance |-> m.instance, channel |-> m.channel, realtime |-> m.realtime,
     count |-> m.count, elapsed |-> m.elapsed, timestamp |-> Adjust(m.generated),
     reference |-> m.reference, upi |-> m.upi]

\* The address is dialled again after a permanent error; what was to be written
\* is lost, and no error is reported.
connWrite(ps) ==
    \/ params' = params \cup {ps}
    \/ UNCHANGED params

\* sendTo: the counter moves whether or not the write succeeds.
WriteParams ==
    /\ alive
    /\ fq # <<>>
    /\ fq' = Tail(fq)
    /\ num' = (num + 1) % Width
    /\ connWrite(marshal(Head(fq), num'))
    /\ UNCHANGED <<config, run, subs, held, alive, netVars>>

FwdNext ==
    \/ \E g \in Groups :
          \/ Subscribe(g)
          \/ \E d \in inbox[g] : ReadNotification(g, d)
          \/ Enqueue(g)
          \/ EnqueueClosed(g)
    \/ SubscribeFail
    \/ WriteParams
=============================================================================
