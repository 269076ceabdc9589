--------------------------- MODULE OrderedChannels ---------------------------
(***************************************************************************)
(* What the tunnel promises a channel, in one direction, whatever number   *)
(* of connections carries it: the frames a channel's producer emits are    *)
(* handed over at the other end in the order of emission, each at most     *)
(* once, with none left out before a later one.                            *)
(*                                                                         *)
(* resequencer.ts states more ("the channel layer sees the same ordered    *)
(* stream as over a single connection"); the code does not keep that: of a *)
(* batch handed over at once, frames after the first may be lost.          *)
(***************************************************************************)
EXTENDS Naturals, Sequences

CONSTANTS
  Channels,   \* channel numbers of one tunnel
  MaxFrames   \* bound: frames a channel emits in one tunnel generation

VARIABLES
  produced,   \* produced[c]: how many frames c's producer has emitted
  log         \* log[c]: the frames handed over for c, in order

vars == <<produced, log>>

Init ==
  /\ produced = [c \in Channels |-> 0]
  /\ log = [c \in Channels |-> <<>>]

Produce(c) ==
  /\ produced[c] < MaxFrames
  /\ produced' = [produced EXCEPT ![c] = @ + 1]
  /\ UNCHANGED log

\* The next k frames of c, those at the places in losses dropped: an entry of
\* the log has the frame's place in the producer's order, and whether the
\* tunnel dropped it instead of giving it to its (still existing) channel.
Batch(c, k, losses) ==
  [i \in 1..k |-> [n |-> Len(log[c]) + i - 1, lost |-> i \in losses]]

Hand(c) ==
  /\ \E k \in 1..(produced[c] - Len(log[c])) : \E losses \in SUBSET (2..k) :
       log' = [log EXCEPT ![c] = @ \o Batch(c, k, losses)]
  /\ UNCHANGED produced

\* The tunnel was rebuilt: channel numbers and streams start afresh.
Restart ==
  /\ produced' = [c \in Channels |-> 0]
  /\ log' = [c \in Channels |-> <<>>]

Next ==
  \/ \E c \in Channels : Produce(c) \/ Hand(c)
  \/ Restart

Spec == Init /\ [][Next]_vars
=============================================================================
