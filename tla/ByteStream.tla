----------------------------- MODULE ByteStream -----------------------------
(***************************************************************************)
(* What a decoder's bitstream buffer promises: the bytes of the source     *)
(* reach the VPU in source order, each at most once and unaltered, through *)
(* a channel of bounded capacity.  A run of bytes may be taken from the    *)
(* source and dropped; nothing else may happen to it.                      *)
(***************************************************************************)
EXTENDS Integers, Sequences

CONSTANT Capacity   \* how many bytes the channel holds

VARIABLES chan,   \* the positions in the source of the bytes in the channel
          next    \* the position of the next byte of the source

vars == <<chan, next>>

Run(n) == [i \in 1 .. n |-> next + i - 1]

Init == chan = << >> /\ next = 0

Put(n) == chan' = chan \o Run(n) /\ next' = next + n
Drop(n) == UNCHANGED chan /\ next' = next + n
Take(n) == chan' = SubSeq(chan, n + 1, Len(chan)) /\ UNCHANGED next

Next == \/ \E n \in 1 .. Capacity - Len(chan) : Put(n)
        \/ \E n \in 1 .. Capacity : Drop(n)
        \/ \E n \in 1 .. Len(chan) : Take(n)

Spec == Init /\ [][Next]_vars
=============================================================================
