------------------------------ MODULE FrameLink ------------------------------
(***************************************************************************)
(* What ios-pppd.c needs of the path below it, the transmit queue of its   *)
(* own and the stream's send queue: a FIFO of PPP frames.  MPPE counts     *)
(* frames, so none may be repeated, overtaken or, as long as the           *)
(* connection is whole, left out.  Once a write has failed the frame at    *)
(* the head may be dropped.  Module SstpStream implements it.              *)
(***************************************************************************)
EXTENDS Sequences

CONSTANT Frames         \* the frames, in the order they are given to the link

VARIABLES
    waiting,            \* accepted and not yet on the wire
    wire,               \* written, in order
    broken              \* a write has failed

linkVars == <<waiting, wire, broken>>

Init == waiting = << >> /\ wire = << >> /\ broken = FALSE

Accept ==
    /\ \E f \in Frames : waiting' = Append(waiting, f)
    /\ UNCHANGED <<wire, broken>>

Write ==
    /\ waiting # << >>
    /\ wire' = Append(wire, Head(waiting))
    /\ waiting' = Tail(waiting)
    /\ UNCHANGED broken

Break == ~broken /\ broken' = TRUE /\ UNCHANGED <<waiting, wire>>

\* Only a link that is broken, if only by this frame, loses a frame.
Drop ==
    /\ waiting # << >>
    /\ waiting' = Tail(waiting)
    /\ broken' = TRUE
    /\ UNCHANGED wire

Next == Accept \/ Write \/ Break \/ Drop

SafeSpec == Init /\ [][Next]_linkVars

\* As long as the link is whole the next frame is written.
Spec == SafeSpec /\ WF_linkVars(~broken /\ Write)

==============================================================================
