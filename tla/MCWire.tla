------------------------------- MODULE MCWire -------------------------------
(***************************************************************************)
(* The layers that turn bytes into messages, and the two pools of          *)
(* connections, for TLC: they share no state (but for the two parsers,     *)
(* which use the same registers), so a behaviour exercises one of them,    *)
(* chosen at the start.  The users and the objects of the MySQL pool are   *)
(* interchangeable.                                                        *)
(***************************************************************************)
EXTENDS RequestParser, ResponseParser, HttpStream, WebSocket, ByteArray,
        HttpPool, MySQLPool, TLC

MCZigzags == {-4}
MCStrings == {<<>>, <<1, 2>>}
MCChunkLists == {<<1>>, <<2>>, <<2, 1>>}

MySQLSymmetry == Permutations(Users) \cup Permutations(MySQLs)

VARIABLE part

requestOnly  == <<query_start, uri_relaxed, sent>>
responseOnly == <<chunck, chunked, chunks_done, close, content_len, zeros, ended>>
pools        == <<hpvars, myvars>>
bytes        == <<hsvars, wsvars, bavars>>

Init ==
  /\ part \in {"request", "response", "stream", "websocket", "bytes", "http", "mysql"}
  /\ RqInit /\ RspInit /\ HsInit /\ WsInit /\ BaInit /\ HpInit /\ MyInit

Next ==
  /\ UNCHANGED part
  /\ \/ part = "request" /\ RqNext /\ UNCHANGED <<responseOnly, bytes, pools>>
     \/ part = "response" /\ RspNext /\ UNCHANGED <<requestOnly, bytes, pools>>
     \/ part = "stream" /\ HsNext /\ UNCHANGED <<rqvars, responseOnly, wsvars, bavars, pools>>
     \/ part = "websocket" /\ WsNext /\ UNCHANGED <<rqvars, responseOnly, hsvars, bavars, pools>>
     \/ part = "bytes" /\ BaNext /\ UNCHANGED <<rqvars, responseOnly, hsvars, wsvars, pools>>
     \/ part = "http" /\ HpNext /\ UNCHANGED <<rqvars, responseOnly, bytes, myvars>>
     \/ part = "mysql" /\ MyNext /\ UNCHANGED <<rqvars, responseOnly, bytes, hpvars>>
=============================================================================
