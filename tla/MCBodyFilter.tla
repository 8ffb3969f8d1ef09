---------------------------- MODULE MCBodyFilter ----------------------------
(* Small instances of BodyFilter for TLC.                                  *)
EXTENDS BodyFilter

AllFilters == SUBSET {"header", "body"}
=============================================================================
