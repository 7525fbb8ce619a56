----------------------------- MODULE MCEventLoop -----------------------------
(* Two connections: c1 sends up to two requests of every kind, c2 one.     *)
EXTENDS EventLoop, TLC

CONSTANTS c1, c2

MCRequests == c1 :> Kinds @@ c2 :> {"pub", "sub"}
MCMaxSent == c1 :> 2 @@ c2 :> 1
MCSettings == {<<FALSE, 2>>, <<TRUE, 1>>}
=============================================================================
