---------------------------- MODULE ByteChannel ----------------------------
(***************************************************************************)
(* What a driver that stores bytes promises to its users: a bounded FIFO   *)
(* channel.  Bytes are numbered modulo Modulus in the order writers hand   *)
(* them over, so an order violation, a duplicate or a hole shows in the    *)
(* numbers.  Some events empty the channel.                                *)
(***************************************************************************)
EXTENDS Integers, Sequences

CONSTANTS Procs,        \* those that take bytes out
          MaxCapacity,  \* no more bytes than this are ever stored
          Modulus       \* byte numbers are 0 .. Modulus-1

VARIABLES queue,        \* bytes accepted and not yet delivered, oldest first
          sent,         \* number of the next byte a writer hands over
          out           \* out[p]: the bytes the current read of p delivers

channelVars == <<queue, sent, out>>

(* The next k bytes the writers hand over. *)
Fresh(k) == [i \in 1..k |-> (sent + i - 1) % Modulus]

Init == /\ queue = <<>>
        /\ sent = 0
        /\ out = [p \in Procs |-> <<>>]

Accept(k) == /\ sent' = (sent + k) % Modulus
             /\ Len(queue) + k <= MaxCapacity
             /\ queue' = queue \o Fresh(k)
             /\ UNCHANGED out

Deliver(p, k) == /\ k <= Len(queue)
                 /\ out' = [out EXCEPT ![p] = SubSeq(queue, 1, k)]
                 /\ queue' = SubSeq(queue, k + 1, Len(queue))
                 /\ UNCHANGED sent

Return(p) == /\ out' = [out EXCEPT ![p] = <<>>]
             /\ UNCHANGED <<queue, sent>>

Discard == /\ queue' = <<>>
           /\ UNCHANGED <<sent, out>>

Next == \/ Discard
        \/ \E p \in Procs : Return(p)
        \/ \E k \in 1..MaxCapacity : Accept(k)
        \/ \E p \in Procs, k \in 1..MaxCapacity : Deliver(p, k)

Spec == Init /\ [][Next]_channelVars
=============================================================================
