------------------------- MODULE MCDictionaryCache --------------------------
(* Values of the constants of DictionaryCache for TLC.                     *)
EXTENDS DictionaryCache

CONSTANTS page, wotd, read1, read2, write1
=============================================================================
