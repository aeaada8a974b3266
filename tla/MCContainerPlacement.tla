------------------------ MODULE MCContainerPlacement ------------------------
(* Small instances of ContainerPlacement: containers and clients are model    *)
(* values.                                                                    *)
EXTENDS ContainerPlacement
=============================================================================
