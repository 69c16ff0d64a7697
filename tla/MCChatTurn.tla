------------------------------ MODULE MCChatTurn ------------------------------
(* A socket turn and a POST turn in one session.                           *)
EXTENDS ChatTurn, TLC

CONSTANTS socket, post, s1

MCCalls == {socket, post}
MCSocketTurns == {socket}
MCSessions == {s1}
MCSessionOf == socket :> s1 @@ post :> s1
=============================================================================
