------------------------- MODULE MCServiceDiscovery -------------------------
(***************************************************************************)
(* An instance with two contents of the catalogue: four registrations, one *)
(* of which has the address of its node and one of which is beyond the     *)
(* limit, and then two, one of them with a new id at an old address.       *)
(***************************************************************************)
EXTENDS ServiceDiscovery

E(address, node, id) == [address |-> address, node |-> node, id |-> id]

MCCatalogue ==
    << <<E(1, 9, "a"), E(NoAddress, 2, "b"), E(3, 9, "c"), E(4, 9, "e")>>,
       <<E(1, 9, "a"), E(3, 9, "d")>> >>
=============================================================================
