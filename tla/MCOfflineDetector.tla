------------------------- MODULE MCOfflineDetector -------------------------
(* Small instances of OfflineDetector: one asset next to the backend itself. *)
EXTENDS OfflineDetector

CONSTANTS a1, o1

OneAsset  == <<a1>>
TwoAssets == <<a1, o1>>
=============================================================================
