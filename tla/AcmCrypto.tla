----------------------------- MODULE AcmCrypto -----------------------------
(***************************************************************************)
(* The crate acm-crypto: algorithm identifiers, key handles and the two    *)
(* AES-GCM providers (`ring`, which the daemon uses, and the RustCrypto    *)
(* reference).  Everything here is a pure operator; the modules AcmWire,   *)
(* AcmLink and Cryptod build on it.                                        *)
(*                                                                         *)
(* Byte strings whose contents the code never inspects (key material,      *)
(* nonces, plaintexts) are blobs [len, val]: a length, which the code does *)
(* test, and an opaque content.  The AEAD itself is idealised: a sealed    *)
(* body remembers what it was sealed from, and opens only under the same   *)
(* material, nonce and associated data and only if nobody touched it.      *)
(***************************************************************************)
EXTENDS Integers

Blob(S) == [len : Nat, val : S]

Ok(v)  == [ok |-> TRUE, val |-> v]
Err(e) == [ok |-> FALSE, err |-> e]

-----------------------------------------------------------------------------
(* AlgoId                                                                  *)

AlgoId == {"Aes128Gcm", "Aes256Gcm", "OzDst1105"}

\* The `None` of Option<AlgoId>.
NoAlgo == "None"

from_u8(v) ==
    CASE v = 1  -> "Aes128Gcm"
      [] v = 2  -> "Aes256Gcm"
      [] v = 16 -> "OzDst1105"
      [] OTHER  -> NoAlgo

\* The discriminants of the #[repr(u8)] enum, i.e. `algo as u8`.
as_u8(algo) ==
    CASE algo = "Aes128Gcm" -> 1
      [] algo = "Aes256Gcm" -> 2
      [] algo = "OzDst1105" -> 16

key_len(algo)   == IF algo = "Aes128Gcm" THEN 16 ELSE 32
nonce_len(algo) == 12
tag_len(algo)   == 16

-----------------------------------------------------------------------------
(* KeyHandle                                                               *)

\* u32 without writing 2^32, which TLC's integers cannot hold.
IsU32(k) == k \in Nat /\ k \div 16777216 < 256

KeyHandle(Secret) ==
    [id : {k \in Nat : IsU32(k)}, algo : AlgoId, material : Blob(Secret)]

KeyHandle_new(id, algo, material) ==
    IF material.len # key_len(algo)
    THEN Err("InvalidKey")
    ELSE Ok([id |-> id, algo |-> algo, material |-> material])

\* Mutated form: only the bytes are overwritten, and an all-zero key of the
\* right length is left behind.
wipe_bytes_only(key) == [key EXCEPT !.material.val = "zeros"]

\* `Vec::zeroize` overwrites the bytes and then clears the vector.
wipe(key) == [key EXCEPT !.material.len = 0]

-----------------------------------------------------------------------------
(* The AEAD of the libraries behind both providers.                        *)

aead_seal(material, nonce, aad, pt, tag) ==
    [len |-> pt.len + tag, intact |-> TRUE, material |-> material,
     nonce |-> nonce, aad |-> aad, pt |-> pt]

aead_opens(material, nonce, aad, body) ==
    /\ body.intact
    /\ body.material = material
    /\ body.nonce = nonce
    /\ body.aad = aad

-----------------------------------------------------------------------------
(* Providers: both are constructed for one AES algorithm and hold nothing  *)
(* else.  `out_len` is the length of the caller's output buffer.           *)

ProviderKind == {"ring", "rustcrypto"}
ProviderAlgo == {"Aes128Gcm", "Aes256Gcm"}
Provider     == [kind : ProviderKind, algo : ProviderAlgo]

Provider_new(kind, algo) ==
    IF algo \in ProviderAlgo
    THEN Ok([kind |-> kind, algo |-> algo])
    ELSE Err("ProviderUnavailable")

ring_seal(p, key, nonce, aad, pt, out_len) ==
    IF key.algo # p.algo THEN Err("AlgorithmMismatch")
    ELSE IF nonce.len # nonce_len(p.algo) THEN Err("InvalidNonce")
    ELSE IF out_len < pt.len + tag_len(p.algo) THEN Err("BufferTooSmall")
    ELSE IF key.material.len # key_len(p.algo) THEN Err("InvalidKey")
    ELSE Ok(aead_seal(key.material, nonce, aad, pt, tag_len(p.algo)))

ring_open(p, key, nonce, aad, body, out_len) ==
    IF body.len < tag_len(p.algo) THEN Err("AuthFailed")
    ELSE IF key.algo # p.algo THEN Err("AlgorithmMismatch")
    ELSE IF nonce.len # nonce_len(p.algo) THEN Err("InvalidNonce")
    ELSE IF out_len < body.len - tag_len(p.algo) THEN Err("BufferTooSmall")
    ELSE IF key.material.len # key_len(p.algo) THEN Err("InvalidKey")
    ELSE IF ~aead_opens(key.material, nonce, aad, body) THEN Err("AuthFailed")
    ELSE Ok(body.pt)

\* Mutated form: the key's algorithm is not compared.
sw_check_any_algo(p, key, nonce, out_len, need) ==
    IF key.material.len # key_len(p.algo) THEN "InvalidKey"
    ELSE IF nonce.len # nonce_len(p.algo) THEN "InvalidNonce"
    ELSE IF out_len < need THEN "BufferTooSmall"
    ELSE "Ok"

\* AesGcmSwProvider::check_inputs; the order of the tests is not ring's.
sw_check_inputs(p, key, nonce, out_len, need) ==
    IF key.algo # p.algo THEN "AlgorithmMismatch"
    ELSE IF key.material.len # key_len(p.algo) THEN "InvalidKey"
    ELSE IF nonce.len # nonce_len(p.algo) THEN "InvalidNonce"
    ELSE IF out_len < need THEN "BufferTooSmall"
    ELSE "Ok"

sw_seal(p, key, nonce, aad, pt, out_len) ==
    LET check == sw_check_inputs(p, key, nonce, out_len,
                                 pt.len + tag_len(p.algo))
    IN  IF check # "Ok" THEN Err(check)
        ELSE Ok(aead_seal(key.material, nonce, aad, pt, tag_len(p.algo)))

sw_open(p, key, nonce, aad, body, out_len) ==
    LET check == sw_check_inputs(p, key, nonce, out_len,
                                 body.len - tag_len(p.algo))
    IN  IF body.len < tag_len(p.algo) THEN Err("AuthFailed")
        ELSE IF check # "Ok" THEN Err(check)
        ELSE IF ~aead_opens(key.material, nonce, aad, body)
             THEN Err("AuthFailed")
        ELSE Ok(body.pt)

\* dyn CryptoProvider: dispatch on the implementation.
provider_seal(p, key, nonce, aad, pt, out_len) ==
    IF p.kind = "ring" THEN ring_seal(p, key, nonce, aad, pt, out_len)
                       ELSE sw_seal(p, key, nonce, aad, pt, out_len)

provider_open(p, key, nonce, aad, body, out_len) ==
    IF p.kind = "ring" THEN ring_open(p, key, nonce, aad, body, out_len)
                       ELSE sw_open(p, key, nonce, aad, body, out_len)
=============================================================================
