------------------------------ MODULE MCWebPage ------------------------------
(***************************************************************************)
(* Two networks: a scan hears none, one, both, or more than there is room  *)
(* for.                                                                    *)
(***************************************************************************)
EXTENDS WebPage

CONSTANTS home, guest

MCNets  == {home, guest}
MCHeard == {<<>>, <<guest>>, <<home, guest>>, <<guest, home, guest>>}
=============================================================================
