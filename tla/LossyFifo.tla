----------------------------- MODULE LossyFifo -----------------------------
(***************************************************************************)
(* What the listen pipeline promises of the frames of its connections, and *)
(* nothing about how: a frame is received, and later it is given to the    *)
(* storage at most once, in the order of its connection.  A frame may be   *)
(* passed over (an instance that is not wanted, a packet that cannot be    *)
(* decoded, a full queue), but a frame that was passed over never comes    *)
(* back.                                                                   *)
(***************************************************************************)
EXTENDS Naturals

CONSTANT Conns          \* the connections

VARIABLES
    received,           \* received[c]: frames read from connection c
    last                \* last[c]: the last frame of c given to the storage

fifoVars == <<received, last>>

FifoInit ==
    /\ received = [c \in Conns |-> 0]
    /\ last = [c \in Conns |-> 0]

Receive(c) ==
    /\ received' = [received EXCEPT ![c] = @ + 1]
    /\ UNCHANGED last

Deliver(c, n) ==
    /\ last[c] < n
    /\ n <= received[c]
    /\ last' = [last EXCEPT ![c] = n]
    /\ UNCHANGED received

FifoNext ==
    \E c \in Conns :
        \/ Receive(c)
        \/ \E n \in 1 .. received[c] : Deliver(c, n)

FifoSpec == FifoInit /\ [][FifoNext]_fifoVars
=============================================================================
