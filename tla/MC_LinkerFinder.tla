-------------------------- MODULE MC_LinkerFinder --------------------------
(***************************************************************************)
(* Each of the seven linkers absent, installed once, or installed twice    *)
(* (where then prints two lines).                                          *)
(***************************************************************************)
EXTENDS LinkerFinder

MCMaxMatches == 2
=============================================================================
