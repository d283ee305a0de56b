----------------------------- MODULE FrameChannel -----------------------------
(***************************************************************************)
(* What the processor may rely on, whatever is between it and the reader:  *)
(* frames numbered in arrival order come out in that order, without gaps   *)
(* or repetitions, and at most Cap of them are held in between.            *)
(***************************************************************************)
EXTENDS Integers, Sequences

CONSTANTS
    NumFrames,      \* frames the stream may deliver
    Cap             \* frames held between the ends

VARIABLES
    taken,          \* frames taken from the reader
    delivered       \* frames the processor has received, in order

vars == <<taken, delivered>>

Init ==
    /\ taken = 0
    /\ delivered = <<>>

Take ==
    /\ taken < NumFrames
    /\ taken - Len(delivered) < Cap
    /\ taken' = taken + 1
    /\ UNCHANGED delivered

Deliver ==
    /\ Len(delivered) < taken
    /\ delivered' = Append(delivered, Len(delivered))
    /\ UNCHANGED taken

Next == Take \/ Deliver

Spec == Init /\ [][Next]_vars
=============================================================================
