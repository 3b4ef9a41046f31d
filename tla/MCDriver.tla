------------------------------ MODULE MCDriver -----------------------------
(* The runtime over a short chain, for a service that is configured to      *)
(* start far below the head, one that is to start within the window, and    *)
(* one that is not configured, which starts at the window's first block.    *)
EXTENDS Driver

MCSettings == {<<1, 3>>, <<3, 2>>, <<-1, 2>>}
============================================================================
