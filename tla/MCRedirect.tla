------------------------------ MODULE MCRedirect ------------------------------
(***************************************************************************)
(* The redirect cache for TLC.                                             *)
(***************************************************************************)
EXTENDS RedirectHistory, TLC

\* Two good nodes at the ends of the port range, one on either side of it, one nameless.
MCNodes == {[ip |-> "a", port |-> p] : p \in {0, 1, MaxPort, MaxPort + 1}}
           \cup {[ip |-> EmptyIp, port |-> 1]}

Symmetry == Permutations(Devices)
===============================================================================
