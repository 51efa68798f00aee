--------------------------- MODULE MCWebSocketInbox ---------------------------
(* Instances of WebSocketInbox for TLC: a message of one frame that comes in   *)
(* one part or in two, and one of two frames.                                 *)
EXTENDS WebSocketInbox, TLC

CONSTANTS single, split

MCMessages == {single, split}
MCFrames == single :> <<2>> @@ split :> <<1, 2>>
===============================================================================
