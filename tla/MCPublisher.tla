---------------------------- MODULE MCPublisher -----------------------------
(* Publisher with two machines and two signals, any of which may lose its     *)
(* last subscriber at any time.                                               *)
EXTENDS Publisher
=============================================================================
