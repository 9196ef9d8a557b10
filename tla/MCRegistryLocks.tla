-------------------------- MODULE MCRegistryLocks --------------------------
(* An instance of RegistryLocks with all operations; MCProgress has the one *)
(* without the two lookups that go through an index.                        *)
EXTENDS RegistryLocks

AllOps == DOMAIN Program
=============================================================================
