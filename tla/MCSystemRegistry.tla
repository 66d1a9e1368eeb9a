-------------------------- MODULE MCSystemRegistry --------------------------
(***************************************************************************)
(* SystemRegistry with a directory, one below it and one beside it.        *)
(***************************************************************************)
EXTENDS SystemRegistry, TLC

CONSTANTS s1, s2, outer, inner, aside

MCInside == {<<inner, outer>>}
MCAutoId == <<s1, s2>>
=============================================================================
