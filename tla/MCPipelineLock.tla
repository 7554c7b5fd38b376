--------------------------- MODULE MCPipelineLock ---------------------------
(***************************************************************************)
(* Instances of PipelineLock for TLC.                                      *)
(***************************************************************************)
EXTENDS PipelineLock

(* A feed of one client, one of two clients, and an empty one. *)
MCFeeds == {<<>>, <<2>>, <<1, 1>>}
=============================================================================
