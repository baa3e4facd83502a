---------------------------- MODULE MCProvision ----------------------------
(* An instance of Provision for TLC: the catalogue as it is. *)
EXTENDS Catalogue, Provision

Named(specs) == [i \in DOMAIN specs |-> [key |-> specs[i].key, name |-> specs[i].name]]
AllCards == Named(CARDS)
AllBoards == Named(DASHBOARDS)
BoardOf(key) == CHOOSE b \in ToSet(DASHBOARDS) : b.key = key
AllPanels == [key \in {b.key : b \in ToSet(DASHBOARDS)} |-> CardsOf(BoardOf(key))]
AllLinks == [key \in {b.key : b \in ToSet(DASHBOARDS)} |-> LinksOf(BoardOf(key))]
============================================================================
