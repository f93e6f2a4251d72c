------------------------------- MODULE MCFile -------------------------------
(* Folders of four seconds and of one, files of two seconds.                   *)
EXTENDS CmFileFTL

MCUnits == <<4, 1>>
MCLevelPeriods == <<4, 1>>
=============================================================================
