---------------------------- MODULE MCModelCodecs ----------------------------
(* Small instance of ModelCodecs: two spellings of one JSON object, and    *)
(* messages of which one field is set.                                     *)
EXTENDS ModelCodecs, TLC

CONSTANTS full, braces, compact, spaced

MCDenotes == (braces :> EmptyObject) @@ (compact :> full) @@ (spaced :> full)
MCPrinted == (EmptyObject :> braces) @@ (full :> compact)

MCMessages(wire) ==
  UNION {{[Blank(wire) EXCEPT ![f] = v] : v \in wire[f]} : f \in DOMAIN wire}
===========================================================================
