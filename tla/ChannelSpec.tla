---------------------------- MODULE ChannelSpec ----------------------------
(***************************************************************************)
(* What a :channel promises to the Arturo code that uses it, with nothing  *)
(* about who is parked where: one queue in which every accepted value      *)
(* waits its turn, the values handed to receivers, and whether it is open. *)
(* Channel (the deques of helpers/parallelism.nim) implements it.          *)
(***************************************************************************)
EXTENDS Naturals, Sequences

CONSTANT Values

VARIABLES queue,   \* accepted, not yet handed to a receiver
          out,     \* handed to receivers so far, in order
          open     \* FALSE for good once the channel has been unplugged

vars == <<queue, out, open>>

Init == queue = <<>> /\ out = <<>> /\ open = TRUE

(* A send is accepted: it waits behind everything accepted before it.      *)
Accept(v) == /\ open
             /\ queue' = Append(queue, v)
             /\ UNCHANGED <<out, open>>

(* A send meets a receiver that was waiting for it.                        *)
Pass(v) == /\ open
           /\ queue = <<>>
           /\ out' = Append(out, v)
           /\ UNCHANGED <<queue, open>>

(* A receive takes the value that has waited longest, open or not.         *)
Take == /\ queue # <<>>
        /\ out' = Append(out, Head(queue))
        /\ queue' = Tail(queue)
        /\ UNCHANGED open

(* Closing may turn away the newest of the waiting values, never one in    *)
(* the middle, and is final.                                               *)
Close == /\ open
         /\ open' = FALSE
         /\ \E k \in 0 .. Len(queue) : queue' = SubSeq(queue, 1, k)
         /\ UNCHANGED out

Next == \/ \E v \in Values : Accept(v) \/ Pass(v)
        \/ Take
        \/ Close

Spec == Init /\ [][Next]_vars
=============================================================================
