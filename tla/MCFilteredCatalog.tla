-------------------------- MODULE MCFilteredCatalog --------------------------
(* An instance of FilteredCatalog for TLC. *)
EXTENDS FilteredCatalog

CONSTANTS high, low \* the two configured renditions

TwoRenditions == <<high, low>>

\* Only the first rendition has a configured bitrate.
OnlyHighPriced == [n \in {high, low} |-> IF n = high THEN 9 ELSE NoRate]
NoWorkers == [w \in {} |-> {}]
=============================================================================
