------------------------- MODULE MCTrustDistribution -------------------------
(***************************************************************************)
(* Two consumers with one directory, three root versions.  Of each version *)
(* one root keeps the policy, and the others break one rule each: a root   *)
(* signed too little by the old keys or by the new ones, helped by the     *)
(* online timestamp key; a threshold of one; a key with two roles; no      *)
(* consistent snapshots; a short life; and a version left out.  TLC        *)
(* evaluates Files and Policies once.                                      *)
(***************************************************************************)
EXTENDS TrustDistribution, TLC

Says(version, keys, signers, expires) ==
    [version |-> version, expires |-> expires, spec_major |-> 1, consistent_snapshot |-> TRUE,
     roles |-> [name \in RoleName |->
                   IF name = "root" THEN [keyids |-> keys, threshold |-> 2]
                   ELSE [keyids |-> {name}, threshold |-> 1]],
     signers |-> signers]

First == Says(1, {"k1", "k2", "k3"}, {"k1", "k2"}, 2)
Next2 == Says(2, {"k1", "k2", "k4"}, {"k1", "k2", "k4"}, 3)

Files ==
    [first       |-> First,
     two_roles   |-> [First EXCEPT !.roles["snapshot"].keyids = {"k1"}],
     unversioned |-> [First EXCEPT !.consistent_snapshot = FALSE],
     second      |-> Next2,
     by_new      |-> [Next2 EXCEPT !.signers = {"k1", "k4", "timestamp"}],
     by_old      |-> [Next2 EXCEPT !.signers = {"k2", "k3", "timestamp"}],
     weak        |-> [Next2 EXCEPT !.roles["root"].threshold = 1],
     expiring    |-> [Next2 EXCEPT !.expires = 0],
     skipping    |-> [Next2 EXCEPT !.version = 3]]
MCMetadata == Files
Roots == DOMAIN Files
MCRoot == Roots

Policies ==
    LET reference == [minimum_root_keys |-> 3, minimum_root_threshold |-> 2,
                      minimum_root_validity |-> 1, required_spec_major |-> 1,
                      require_consistent_snapshot |-> TRUE, require_disjoint_role_keys |-> TRUE,
                      require_https_endpoints |-> TRUE]
    IN [reference |-> reference, lax |-> [reference EXCEPT !.require_https_endpoints = FALSE]]

MCRules == Policies
Keys == {"k1", "k2", "k3", "k4"} \union RoleName
MCKey == Keys
MCProfileOf == [first |-> "id", second |-> "other"]
MCSymmetry == Permutations(Consumer)
MCDirectoryOf == [c \in Consumer |-> "directory"]
===============================================================================
