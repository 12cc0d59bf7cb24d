---- MODULE MCBlueGreen ----
(* Small instances of BlueGreenStatusProvider.                             *)
EXTENDS BlueGreenStatusProvider
====
