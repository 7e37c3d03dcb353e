---------------------------- MODULE FrameChannel ----------------------------
(* One direction of an mb_share_transport, as transport.h promises it: every  *)
(* call sends or receives one complete frame, frames arrive in the order they *)
(* were sent, and the receiver is told the channel ended only after it was    *)
(* closed.  The in-memory pair also promises to hand out what was accepted    *)
(* before the close (Drains); a network connection may lose it.               *)
EXTENDS Naturals, Sequences

CONSTANTS Frames,
          Drains      \* TRUE iff a close loses nothing that was accepted

VARIABLES accepted,   \* the frames sends have taken, in order
          delivered,  \* the frames receives have returned, in order
          closed,     \* the channel has been closed
          ended       \* some receive has reported the end

vars == <<accepted, delivered, closed, ended>>

Init == /\ accepted = << >> /\ delivered = << >>
        /\ closed = FALSE /\ ended = FALSE

Accept == /\ ~closed
          /\ \E f \in Frames : accepted' = Append(accepted, f)
          /\ UNCHANGED <<delivered, closed, ended>>

Deliver == /\ Len(delivered) < Len(accepted)
           /\ delivered' = Append(delivered, accepted[Len(delivered) + 1])
           /\ UNCHANGED <<accepted, closed, ended>>

Close == /\ closed' = TRUE
         /\ UNCHANGED <<accepted, delivered, ended>>

End == /\ closed
       /\ Drains => delivered = accepted
       /\ ended' = TRUE
       /\ UNCHANGED <<accepted, delivered, closed>>

Next == Accept \/ Deliver \/ Close \/ End

Spec == Init /\ [][Next]_vars
=============================================================================
