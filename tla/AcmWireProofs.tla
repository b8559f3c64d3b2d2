--------------------------- MODULE AcmWireProofs ---------------------------
(***************************************************************************)
(* Facts about frames that hold for every key id, nonce, plaintext and     *)
(* buffer, where TLC only tries a few.                                     *)
(***************************************************************************)
EXTENDS AcmWire, TLAPS

Header == [version : {VERSION}, flags : Byte, key_id : {k \in Nat : IsU32(k)},
           algo : AlgoId, nonce_len : Byte]

\* u32::from_be_bytes undoes u32::to_be_bytes, for every u32.
LEMMA BigEndianRoundTrip ==
    ASSUME NEW k \in Nat, IsU32(k)
    PROVE  /\ from_be_bytes(to_be_bytes(k)[1], to_be_bytes(k)[2],
                            to_be_bytes(k)[3], to_be_bytes(k)[4]) = k
           /\ to_be_bytes(k)[1] \in Byte /\ to_be_bytes(k)[2] \in Byte
           /\ to_be_bytes(k)[3] \in Byte /\ to_be_bytes(k)[4] \in Byte
  <1> DEFINE a == k \div 16777216
             b == (k \div 65536) % 256
             c == (k \div 256) % 256
             d == k % 256
  <1>1. a \in Byte /\ b \in Byte /\ c \in Byte /\ d \in Byte
    BY DEF IsU32, Byte
  <1>2. k = a * 16777216 + b * 65536 + c * 256 + d
    OBVIOUS
  <1>3. to_be_bytes(k) = <<a, b, c, d>>
    BY DEF to_be_bytes
  <1> QED
    BY <1>1, <1>2, <1>3 DEF from_be_bytes

\* AlgoId::from_u8 undoes `algo as u8`, and never yields None for it.
LEMMA AlgoByteRoundTrip ==
    ASSUME NEW algo \in AlgoId
    PROVE  from_u8(as_u8(algo)) = algo /\ algo # NoAlgo
  BY DEF AlgoId, from_u8, as_u8, NoAlgo

\* FrameHeader::decode undoes FrameHeader::encode for every header: any key
\* id, any flags, any algorithm, any nonce length.
THEOREM HeaderRoundTrip ==
    ASSUME NEW h \in Header
    PROVE  /\ decode(encode(h)) = Ok(h)
           /\ Len(encode(h)) = HEADER_LEN
  <1> DEFINE e  == encode(h)
             id == to_be_bytes(h.key_id)
  <1>1. h.key_id \in Nat /\ IsU32(h.key_id) /\ h.algo \in AlgoId
    BY DEF Header
  <1>2. e = <<65, 67, h.version, h.flags, id[1], id[2], id[3], id[4],
              as_u8(h.algo), h.nonce_len, 0, 0>>
    BY DEF encode, MAGIC
  <1>3. Len(e) = 12
    BY <1>2
  <1>4. /\ <<e[1], e[2]>> = MAGIC
        /\ e[3] = VERSION
        /\ e[4] = h.flags
        /\ e[5] = id[1] /\ e[6] = id[2] /\ e[7] = id[3] /\ e[8] = id[4]
        /\ e[9] = as_u8(h.algo)
        /\ e[10] = h.nonce_len
    BY <1>2 DEF MAGIC, Header
  <1>5. from_be_bytes(e[5], e[6], e[7], e[8]) = h.key_id
    BY <1>1, <1>4, BigEndianRoundTrip
  <1>6. from_u8(e[9]) = h.algo /\ from_u8(e[9]) # NoAlgo
    BY <1>1, <1>4, AlgoByteRoundTrip
  <1>7. h = [version |-> e[3], flags |-> e[4], key_id |-> h.key_id,
             algo |-> h.algo, nonce_len |-> e[10]]
    BY <1>4 DEF Header
  <1> HIDE DEF e
  <1>8. decode(e) = Ok(h)
    BY <1>3, <1>4, <1>5, <1>6, <1>7 DEF decode, HEADER_LEN
  <1> QED
    BY <1>3, <1>8 DEF e, HEADER_LEN

-----------------------------------------------------------------------------
\* What acm_wire::seal writes into the header.
SealedHeader(p, key_id, nonce, flags) ==
    encode([version |-> VERSION, flags |-> flags, key_id |-> key_id,
            algo |-> p.algo, nonce_len |-> nonce.len])

\* The two providers seal under the same condition and produce the same body.
LEMMA ProviderSeal ==
    ASSUME NEW p \in Provider, NEW key, NEW nonce, NEW aad, NEW pt,
           NEW out_len \in Int, pt.len \in Nat
    PROVE  LET r == provider_seal(p, key, nonce, aad, pt, out_len)
           IN  /\ r.ok <=> /\ key.algo = p.algo
                           /\ key.material.len = key_len(p.algo)
                           /\ nonce.len = nonce_len(p.algo)
                           /\ out_len >= pt.len + tag_len(p.algo)
               /\ r.ok => r = Ok(aead_seal(key.material, nonce, aad, pt,
                                           tag_len(p.algo)))
  BY DEF provider_seal, ring_seal, sw_seal, sw_check_inputs, Ok, Err, tag_len

\* The two providers open under the same condition, with the same result.
LEMMA ProviderOpen ==
    ASSUME NEW p \in Provider, NEW key, NEW nonce, NEW aad, NEW body,
           NEW out_len \in Int, body.len \in Nat
    PROVE  LET r == provider_open(p, key, nonce, aad, body, out_len)
           IN  /\ r.ok <=> /\ body.len >= tag_len(p.algo)
                           /\ key.algo = p.algo
                           /\ key.material.len = key_len(p.algo)
                           /\ nonce.len = nonce_len(p.algo)
                           /\ out_len >= body.len - tag_len(p.algo)
                           /\ aead_opens(key.material, nonce, aad, body)
               /\ r.ok => r = Ok(body.pt)
  BY DEF provider_open, ring_open, sw_open, sw_check_inputs, Ok, Err, tag_len

\* A frame that acm_wire::seal returned carries the header of its arguments
\* and the body sealed under that header; sealing succeeds only if the key is
\* of the provider's algorithm.
LEMMA WireSeal ==
    ASSUME NEW p \in Provider, NEW key, NEW key_id, NEW nonce, NEW flags, NEW pt,
           NEW out_len \in Int, pt.len \in Nat, nonce.len \in Nat,
           wire_seal(p, key, key_id, nonce, flags, pt, out_len).ok
    PROVE  LET hdr == SealedHeader(p, key_id, nonce, flags)
           IN  /\ key.algo = p.algo
               /\ key.material.len = key_len(p.algo)
               /\ nonce.len = nonce_len(p.algo)
               /\ wire_seal(p, key, key_id, nonce, flags, pt, out_len) =
                    Ok([hdr |-> hdr, nonce |-> nonce,
                        body |-> aead_seal(key.material, nonce, hdr, pt,
                                           tag_len(p.algo))])
  <1> DEFINE hdr == SealedHeader(p, key_id, nonce, flags)
             r   == provider_seal(p, key, nonce, hdr, pt, pt.len + tag_len(p.algo))
  <1>1. /\ r.ok
        /\ nonce.len = nonce_len(p.algo)
        /\ wire_seal(p, key, key_id, nonce, flags, pt, out_len) =
             Ok([hdr |-> hdr, nonce |-> nonce, body |-> r.val])
    BY DEF wire_seal, hdr_buf, SealedHeader, Ok, Err
  <1>2. pt.len + tag_len(p.algo) \in Int
    BY DEF tag_len
  <1>3. /\ key.algo = p.algo
        /\ key.material.len = key_len(p.algo)
        /\ r = Ok(aead_seal(key.material, nonce, hdr, pt, tag_len(p.algo)))
    BY <1>1, <1>2, ProviderSeal
  <1>4. r.val = aead_seal(key.material, nonce, hdr, pt, tag_len(p.algo))
    BY <1>3 DEF Ok
  <1> QED
    BY <1>1, <1>3, <1>4

\* The header of a sealed frame is 12 bytes and decodes to the arguments.
LEMMA SealedHeaderDecodes ==
    ASSUME NEW p \in Provider, NEW key_id \in Nat, IsU32(key_id),
           NEW flags \in Byte, NEW nonce, nonce.len = nonce_len(p.algo)
    PROVE  /\ Len(SealedHeader(p, key_id, nonce, flags)) = HEADER_LEN
           /\ decode(SealedHeader(p, key_id, nonce, flags)) =
                Ok([version |-> VERSION, flags |-> flags, key_id |-> key_id,
                    algo |-> p.algo, nonce_len |-> nonce_len(p.algo)])
  <1> DEFINE h == [version |-> VERSION, flags |-> flags, key_id |-> key_id,
                   algo |-> p.algo, nonce_len |-> nonce.len]
  <1>1. p.algo \in AlgoId
    BY DEF Provider, ProviderAlgo, AlgoId
  <1>2. h \in Header
    BY <1>1 DEF Header, Byte, nonce_len
  <1> QED
    BY <1>2, HeaderRoundTrip DEF SealedHeader

\* Round trip, for every key id, flags byte, nonce and plaintext (the empty
\* one included) and every pair of providers of the key's algorithm: seal
\* succeeds in a buffer of frame_len bytes, fills exactly that many, and open
\* returns the plaintext in any buffer that can hold it.
THEOREM SealedFrameOpens ==
    ASSUME NEW p \in Provider, NEW q \in Provider, q.algo = p.algo,
           NEW key, key.algo = p.algo, key.material.len = key_len(p.algo),
           NEW key_id \in Nat, IsU32(key_id), NEW flags \in Byte,
           NEW nonce, nonce.len = nonce_len(p.algo),
           NEW pt, pt.len \in Nat,
           NEW out_len \in Nat,
           out_len >= frame_len(pt.len, nonce.len, tag_len(p.algo)),
           NEW buf_len \in Nat, buf_len >= pt.len
    PROVE  LET frame == wire_seal(p, key, key_id, nonce, flags, pt, out_len)
           IN  /\ frame.ok
               /\ length(frame.val) = frame_len(pt.len, nonce.len, tag_len(p.algo))
               /\ wire_open(q, key, frame.val, buf_len) = Ok(pt)
  <1> DEFINE hdr   == SealedHeader(p, key_id, nonce, flags)
             body  == aead_seal(key.material, nonce, hdr, pt, tag_len(p.algo))
             f     == [hdr |-> hdr, nonce |-> nonce, body |-> body]
             frame == wire_seal(p, key, key_id, nonce, flags, pt, out_len)
  <1>1. frame.ok
    <2>1. pt.len + tag_len(p.algo) \in Int
      BY DEF tag_len
    <2>2. provider_seal(p, key, nonce, hdr, pt, pt.len + tag_len(p.algo)).ok
      BY <2>1, ProviderSeal DEF tag_len
    <2> QED
      BY <2>2 DEF wire_seal, hdr_buf, SealedHeader, Ok, nonce_len, tag_len,
                  frame_len, HEADER_LEN
  <1>2. nonce.len \in Nat
    BY DEF nonce_len
  <1>3. frame.val = f
    BY <1>1, <1>2, WireSeal DEF Ok
  <1>4. /\ Len(hdr) = HEADER_LEN
        /\ decode(hdr) = Ok([version |-> VERSION, flags |-> flags,
                             key_id |-> key_id, algo |-> q.algo,
                             nonce_len |-> nonce_len(q.algo)])
    BY SealedHeaderDecodes
  <1>5. body.len = pt.len + 16 /\ body.pt = pt
    BY DEF aead_seal, tag_len
  <1>6. aead_opens(key.material, nonce, hdr, body)
    BY DEF aead_opens, aead_seal
  <1>7. length(f) = frame_len(pt.len, nonce.len, tag_len(p.algo))
    <2>1. Len(hdr) = 12 /\ nonce.len = 12 /\ body.len = pt.len + 16
      BY <1>4, <1>5 DEF HEADER_LEN, nonce_len
    <2> HIDE DEF hdr, body
    <2>2. f.hdr = hdr /\ f.nonce = nonce /\ f.body = body
      OBVIOUS
    <2> HIDE DEF f
    <2>3. length(f) = 12 + 12 + (pt.len + 16)
      BY <2>1, <2>2 DEF length
    <2>4. frame_len(pt.len, nonce.len, tag_len(p.algo)) = 12 + 12 + pt.len + 16
      BY <2>1 DEF frame_len, HEADER_LEN, tag_len
    <2> QED
      BY <2>3, <2>4
  <1>8. wire_open(q, key, f, buf_len) = Ok(pt)
    <2> DEFINE r == provider_open(q, key, nonce, hdr, body, buf_len)
    <2>1. r = Ok(pt)
      BY <1>5, <1>6, ProviderOpen DEF tag_len
    <2> HIDE DEF r, hdr, body
    <2>2. wire_open(q, key, f, buf_len) = r
      BY <1>4, <1>5, <1>7 DEF wire_open, body_too_short, hdr_buf, Ok, frame_len, tag_len,
                               nonce_len, HEADER_LEN, r
    <2> QED
      BY <2>1, <2>2
  <1> QED
    BY <1>1, <1>3, <1>7, <1>8

\* Authenticity: if open returns a plaintext, the body is an untouched sealing
\* of that plaintext under the receiver's key material, the frame's own nonce
\* and the frame's own header; no other header, nonce or key opens it.
THEOREM OpenedFrameIsAuthentic ==
    ASSUME NEW q \in Provider, NEW key, NEW frame, NEW buf_len \in Nat,
           frame.body.len \in Nat,
           wire_open(q, key, frame, buf_len).ok
    PROVE  /\ wire_open(q, key, frame, buf_len) = Ok(frame.body.pt)
           /\ aead_opens(key.material, frame.nonce, frame.hdr, frame.body)
           /\ decode(frame.hdr).ok
           /\ decode(frame.hdr).val.algo = key.algo
  <1> DEFINE r == provider_open(q, key, frame.nonce, frame.hdr, frame.body, buf_len)
  <1>1. /\ wire_open(q, key, frame, buf_len) = r
        /\ decode(frame.hdr).ok
        /\ decode(frame.hdr).val.algo = q.algo
    BY DEF wire_open, hdr_buf, Err
  <1> QED
    BY <1>1, ProviderOpen
=============================================================================
