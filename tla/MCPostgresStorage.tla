-------------------------- MODULE MCPostgresStorage --------------------------
(***************************************************************************)
(* One resource (a transaction touches the rows of one resource only) with *)
(* a revision v1, a second revision v2 and another content claimed for v2: *)
(* compare-and-set races, a return to an earlier head (v1, v2, v1) and     *)
(* revision conflicts all happen.                                          *)
(***************************************************************************)
EXTENDS PostgresStorage

Rev(r, v, d) == [resource_id |-> r, revision |-> v, digest |-> d]

MCResourceId == {"r1"}
MCRevisionId == {"v1", "v2"}
MCDigest == {"d1", "d2"}
MCRevision == {Rev("r1", "v1", "d1"), Rev("r1", "v2", "d1"), Rev("r1", "v2", "d2")}
===============================================================================
