----------------------- MODULE MCPlatformBootstrap -----------------------
(* Four failed calls and four restarts: a bootstrap and a sync can each     *)
(* fail, be retried and be cut short by a restart.                         *)
EXTENDS PlatformBootstrap
=============================================================================
