------------------------------ MODULE MCMatrix ------------------------------
(* A matrix, a chart in a matrix of its own, and a value: they share nothing,  *)
(* so only one of them moves.  Three levels; only the first has a second       *)
(* element.                                                                    *)
EXTENDS CmChart, CmValueFTL

ThreeLevels == {<<>>, <<0>>, <<1>>, <<0, 0>>, <<0, 0, 0>>}

\* Fractions of either sign, small and beyond two digits.
MCHalves == {-5, 1, 6, 25}

MCInit == Init /\ InitChart /\ InitValue

MatrixRests == node = NewChart /\ Index = <<>> /\ memory = [a \in Memory |-> Free]
ValueRests == value.DataFormat = "NONE" /\ got.format = "NONE"
ChartRests == kind = "text" /\ chart = NewChart

MCNext ==
    \/ ChartRests /\ ValueRests /\ Next /\ UNCHANGED <<charts, conversion>>
    \/ MatrixRests /\ ValueRests /\ NextChart /\ UNCHANGED <<vars, conversion>>
    \/ MatrixRests /\ ChartRests /\ NextValue /\ UNCHANGED <<vars, charts>>

MCSpec == MCInit /\ [][MCNext]_<<vars, charts, conversion>>
=============================================================================
