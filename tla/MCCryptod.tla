----------------------------- MODULE MCCryptod -----------------------------
(* Small instances of Cryptod.                                             *)
EXTENDS CryptodRefinement, TLC

CONSTANTS c1, c2    \* connections

Contents == {"m1", "m2", "m3", "n1", "n2", "t1"}

bytes(n, v) == [len |-> n, val |-> v]

\* One admin connection, one user of the data path.
OneAdmin  == (c1 :> {"rotate_key", "garbage"}) @@
             (c2 :> {"encrypt", "decrypt", "get_status"})
\* Everybody contends for the lock of active_key.
Mixed     == (c1 :> {"rotate_key", "get_status", "set_policy"}) @@
             (c2 :> {"encrypt", "decrypt", "get_status"})
\* Two admins: a retry and the request it retries, or CLI and web UI.
Admins    == (c1 :> {"rotate_key"}) @@ (c2 :> {"rotate_key"})

K(id, algo, n, m) == [key_id |-> id, algo |-> algo, material |-> bytes(n, m)]

\* Two usable keys of different algorithms; a key too short for its algorithm,
\* the unimplemented algorithm, and an unknown one.
GoodKeys == {K(1, 2, 32, "m1"), K(257, 1, 16, "m2")}
AllKeys  == GoodKeys \cup {K(3, 1, 32, "m3"), K(4, 16, 32, "m3"), K(5, 7, 32, "m3")}

E(n, v, aad) == [nonce |-> bytes(n, v), aad |-> aad, plaintext |-> bytes(5, "t1")]

Encrypts  == {E(12, "n1", "none"), E(8, "n2", "none")}
OneNonce  == {E(12, "n1", "none")}
TwoAads   == {E(12, "n1", "none"), E(12, "n1", "some")}

\* No peer, and frames come back as they were.
Nothing == [hdrs |-> {}, nonces |-> {}, lens |-> {}]

\* A peer that has the first good key under another id.
Peers == {[id |-> 9, algo |-> "Aes256Gcm", material |-> bytes(32, "m1")]}

\* The header of the first good key with another version, flags, key id, nonce
\* length or reserved byte, and with the other algorithm.
Hdr1    == encode([version |-> VERSION, flags |-> 0, key_id |-> 1,
                   algo |-> "Aes256Gcm", nonce_len |-> 12])
Changed == {[Hdr1 EXCEPT ![i] = @ + 1] : i \in {3, 4, 8, 10, 12}}
           \cup {[Hdr1 EXCEPT ![9] = 1]}

\* Another nonce; a cut in the header, at the nonce, at the body; a changed body
\* of the right length, and one byte more.
Tampered == [hdrs |-> Changed \cup {SubSeq(Hdr1, 1, 7)},
             nonces |-> {bytes(12, "n2"), bytes(0, "n1")},
             lens |-> {0, 21, 22}]

\* One change of each part.
Touched  == [hdrs |-> {[Hdr1 EXCEPT ![8] = 2], [Hdr1 EXCEPT ![9] = 1]},
             nonces |-> {}, lens |-> {15, 21}]
=============================================================================
