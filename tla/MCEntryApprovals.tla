--------------------------- MODULE MCEntryApprovals ---------------------------
(***************************************************************************)
(* Instance of EntryApprovals: two intents for a symbol, or for two.        *)
(***************************************************************************)
EXTENDS EntryApprovals

CONSTANTS s1, s2

MCSymbols == {s1, s2}
=============================================================================
