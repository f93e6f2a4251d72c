---------------------------- MODULE LineChannel ----------------------------
(***************************************************************************)
(* What Services/PlugNode/CmStream.h promises its users: text lines go in  *)
(* one by one, and the receiver gets the same lines, whole and in order.   *)
(* How the lines lie in a circular window is CmStream's own business.      *)
(***************************************************************************)
EXTENDS Naturals, Sequences

CONSTANT Line      \* the text lines a user may send

VARIABLES
    sent,          \* the lines accepted for transfer, in order
    received       \* the lines handed to the receiver, in order

chanVars == <<sent, received>>

ChanInit == sent = <<>> /\ received = <<>>

Send ==
    /\ \E l \in Line : sent' = Append(sent, l)
    /\ UNCHANGED received

Receive ==
    /\ Len(received) < Len(sent)
    /\ received' = Append(received, sent[Len(received) + 1])
    /\ UNCHANGED sent

ChanNext == Send \/ Receive

ChanSpec == ChanInit /\ [][ChanNext]_chanVars
=============================================================================
