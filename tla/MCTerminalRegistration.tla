----------------------- MODULE MCTerminalRegistration -----------------------
(***************************************************************************)
(* TerminalRegistration for TLC: a run that two collections would persist, *)
(* one with two objects (staged) and one with a single object (sealed      *)
(* directly), a run that registration refuses, and a queue delivery beside *)
(* the scan.                                                               *)
(***************************************************************************)
EXTENDS TerminalRegistration, TLC

CONSTANTS w1, w2, w3, a, b

MCRunOf == w1 :> 1 @@ w2 :> 1 @@ w3 :> 2
MCManifest == w1 :> {a, b} @@ w2 :> {b} @@ w3 :> {b}
=============================================================================
