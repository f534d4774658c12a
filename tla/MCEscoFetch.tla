----------------------------- MODULE MCEscoFetch -----------------------------
(* EscoFetch on a range of two days.                                         *)
EXTENDS EscoFetch

CONSTANTS d1, d2
=============================================================================
