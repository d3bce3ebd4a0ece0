------------------------- MODULE MCCollectionDelivery -------------------------
(* A small instance of CollectionDelivery: one source's receipt, its crawls *)
(* counted.                                                                 *)
EXTENDS CollectionEffects
=============================================================================
