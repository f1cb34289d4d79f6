------------------------------ MODULE MCToyTLS ------------------------------
(***************************************************************************)
(* Instances of ToyTLSConnection for TLC.  One identity is in order; the   *)
(* others have, in turn, a private key that is not the certificate's, a    *)
(* chain that does not reach the root, and a certificate for another name. *)
(***************************************************************************)
EXTENDS ToyTLSConnection

CONSTANTS m1, m2, k1, k2, localhost, otherhost

Identity(key, pub, dns, valid) ==
    [private_key |-> key, path_valid |-> valid,
     certificate |-> [public_key |-> pub, dns_name |-> dns]]

Good == Identity(k1, k1, localhost, TRUE)

MCAllIdentities == {Good, Identity(k2, k1, localhost, TRUE),
                    Identity(k1, k1, localhost, FALSE),
                    Identity(k1, k1, otherhost, TRUE)}
MCGoodIdentity == {Good}

\* m2 fills a record to the last byte that pop_record accepts.
MCFitting == (m1 :> 0) @@ (m2 :> 4)
MCOversize == (m1 :> 0) @@ (m2 :> 5)
=============================================================================
