------------------------- MODULE MCServiceClients -------------------------
(* Small instance of ServiceClients: two spellings of one JSON object.     *)
EXTENDS ServiceClients, TLC

CONSTANTS full, braces, compact, spaced

MCDenotes == (braces :> EmptyObject) @@ (compact :> full) @@ (spaced :> full)
MCPrinted == (EmptyObject :> braces) @@ (full :> compact)

RequestSymmetry == Permutations(Requests)
===========================================================================
