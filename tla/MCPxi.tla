------------------------------- MODULE MCPxi -------------------------------
(* Pxi with pxi:mc and one service or two of those that use static buffers. *)
EXTENDS Pxi, TLC

MCServices == {0, 7}
MCStaticBuffersOf == 0 :> 0 @@ 7 :> 1
MCThreeServices == {0, 1, 7}
MCThreeStaticBuffersOf == 0 :> 0 @@ 1 :> 1 @@ 7 :> 2
=============================================================================
