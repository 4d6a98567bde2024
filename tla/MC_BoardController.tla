------------------------- MODULE MC_BoardController -------------------------
(***************************************************************************)
(* An ISO of two chunks (so an ack between chunks happens) and a deadline  *)
(* of two polling rounds (so a late reply can meet the next poll).         *)
(***************************************************************************)
EXTENDS BoardController

MCNumChunks == 2

MCTimeout == 2
=============================================================================
