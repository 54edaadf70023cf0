--------------------------- MODULE MCNativeAddon ---------------------------
(***************************************************************************)
(* A main thread and a worker, either or both of which may load the addon; *)
(* a server, a client and a match, each made in any of them.               *)
(***************************************************************************)
EXTENDS NativeAddon
=============================================================================
