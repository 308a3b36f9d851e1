----------------------------- MODULE MCBlockSync ----------------------------
(* Small instances of BlockSync: n1 and n4 run consensus, n2 syncs, n3 is   *)
(* faulty.                                                                  *)
EXTENDS BlockSync

CONSTANTS n1, n2, n3, n4
=============================================================================
