------------------------------- MODULE MCTree -------------------------------
(* A hierarchy that lines and calls change, and a list of settings that has *)
(* hierarchies of its own: they share nothing, so only one of them moves.    *)
EXTENDS CmValueINI

Id == <<"t", "@", "t", "+", "t", ":", "0", "LF">>

\* Paths, collections, options and comments, synchronous writing.
MCLines == {
    Id,
    <<",", "t", ":", ":", ":", "t", "LF">>,
    <<",", ",", "t", "t", ":", "0", ",", "t", "LF">>,
    <<",", ",", ",", "t", ":", "t", ":", "1", ",", "t", "LF">>,
    <<",", "t", "=", "t", ";", "1", "LF">>,
    <<":", "t", ":", ":", "0", ",", "t", "LF">>,
    <<"1", "-", "0", ",", "t", "LF">>,
    <<"t", ";", "1", "LF">>,
    <<"0", "-", "1", ";", "@", ";", "1", ";", "0", "LF">>,
    <<",", "0", "-", "1", ",", "t", "LF">> }

MCAddresses == {<<"0", "-", "0">>, <<"0", "-", "1">>, <<"1">>}
MCValues == {<<"t", ",">>}
MCTimestamp == <<"1">>

MCUURI == <<"t", "@", "t", "+", "t">>
MCNewTexts == {<<"t", ",">>}

MCInit == InitTree /\ InitSettings

MCNext ==
    \/ Len(items) = 1 /\ file = None /\ NextTree /\ UNCHANGED settings
    \/ calls = 0 /\ NextSettings /\ UNCHANGED hierarchy

MCSpec == MCInit /\ [][MCNext]_<<hierarchy, settings>>
=============================================================================
