---------------------------- MODULE MCAppState ----------------------------
(* AppState on two or three processes, two value types, one address and up  *)
(* to three goroutines.                                                     *)
EXTENDS AppState

CONSTANTS main, h1, h2

OneActor == {main}
TwoActors == {main, h1}
ThreeActors == {main, h1, h2}
TwoTypes == {"int32", "bytes"}
ThreeTypes == {"int32", "int64", "bytes"}
OnePool == {"freezer"}
AlertPool == {"alerts"}
=============================================================================
