----------------------------- MODULE PolicyCatalog -----------------------------
(***************************************************************************)
(* What the control plane promises about its policies: versions are        *)
(* published whole and never change or disappear, at most one is in force, *)
(* and once one is in force there always is one.                           *)
(***************************************************************************)
EXTENDS Naturals

CONSTANT Ids  \* the ids versions may have

VARIABLES
    catalog,  \* the published versions
    current   \* the version in force, 0 before there is any

catalogVars == <<catalog, current>>

CatalogInit == catalog = {} /\ current = 0

Publish(id) ==
    /\ id \in Ids /\ id \notin catalog
    /\ catalog' = catalog \cup {id}
    /\ UNCHANGED current

Choose(id) ==
    /\ id \in catalog
    /\ current' = id
    /\ UNCHANGED catalog

CatalogNext == \E id \in Ids : Publish(id) \/ Choose(id)

CatalogSpec == CatalogInit /\ [][CatalogNext]_catalogVars
=============================================================================
