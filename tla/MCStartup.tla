----------------------------- MODULE MCStartup ------------------------------
(* Module Startup with three workers and two keys.                         *)
EXTENDS Startup

CONSTANTS k1, k2

MCSeeds == <<k1, k2>>
=============================================================================
