------------------------------ MODULE Probing ------------------------------
(***************************************************************************)
(* Positions in an open-addressing array of c slots, c a power of two in    *)
(* the sources, where "& mask" is the remainder modulo c.                   *)
(***************************************************************************)
EXTENDS Naturals

CONSTANTS
  Page,      \* the page ids callers use
  Hash       \* the hash mixer, as a function on Page

ASSUME HashAssumption == Hash \in [Page -> Nat]

(* Where the probe for p starts, and where it goes from position j.         *)
Home(p, c) == Hash[p] % c
Succ(j, c) == IF j + 1 = c THEN 0 ELSE j + 1

(* The steps a probe that starts at h takes to reach j.                     *)
Dist(j, h, c) == IF j >= h THEN j - h ELSE j + c - h
=============================================================================
