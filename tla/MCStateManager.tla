--------------------------- MODULE MCStateManager ---------------------------
(***************************************************************************)
(* Two devices; a name with a slug of its own, one whose slug is empty and *)
(* one whose slug is the default of d2; two reports from one network       *)
(* address.                                                                *)
(***************************************************************************)
EXTENDS StateManager, TLC

CONSTANTS d1, d2, kitchen, bell, pose, sKitchen, default1, default2, a1, a2, r1, r2

MCSlugFormat == (NoName :> NoSlug) @@ (bell :> NoSlug) @@ (kitchen :> sKitchen)
                @@ (pose :> default2)
MCDefaultSlug == (d1 :> default1) @@ (d2 :> default2)
MCSourceOf == (r1 :> a1) @@ (r2 :> a1)
MCMaxLives == (d1 :> 1) @@ (d2 :> 2)

=============================================================================
