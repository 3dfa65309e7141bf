------------------------- MODULE MCCatalogSnapshot -------------------------
(* A small instance of the snapshot catalogue for TLC: a library with a base *)
(* and a delta, one compaction, and one more snapshot that is a second       *)
(* delta, a full scan or the empty base of a new source.                     *)
EXTENDS CatalogSnapshot, TLC

CONSTANTS b, d, c, x, v

MCStack == <<b, d>>

(* The delta deletes a row of the base.                                      *)
MCStackFacts ==
    {[s \in {b, d, c, x} |->
        IF s = b THEN 1 :> v @@ 2 :> v
        ELSE IF s = d THEN 1 :> Tombstone @@ 2 :> None ELSE NoFacts]}

MCPurposes ==
    (b :> {}) @@ (d :> {}) @@ (c :> {"compaction"}) @@ (x :> {"delta", "base", "source"})
=============================================================================
