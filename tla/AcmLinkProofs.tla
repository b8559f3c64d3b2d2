--------------------------- MODULE AcmLinkProofs ---------------------------
(***************************************************************************)
(* For any key handles, nonces, plaintexts and key ids, any number of      *)
(* sealed frames and anything the channel does to them: a plaintext that   *)
(* acm_wire::open hands out is authentic, what was sealed opens, and the   *)
(* two providers agree.                                                    *)
(***************************************************************************)
EXTENDS AcmLink, AcmWireProofs, SequenceTheorems, FiniteSetTheorems

-----------------------------------------------------------------------------
(* The inductive invariant                                                 *)

\* What acm_wire::seal returns when it succeeds.
SealedFrame(p, key, key_id, nonce, flags, pt) ==
    LET hdr == SealedHeader(p, key_id, nonce, flags)
    IN  [hdr |-> hdr, nonce |-> nonce,
         body |-> aead_seal(key.material, nonce, hdr, pt, tag_len(p.algo))]

\* An entry of the log holds the frame that its arguments give.
TrueEntry(s) ==
    /\ s.key \in Handles
    /\ s.key_id \in batch.key_ids
    /\ s.flags \in Flags
    /\ s.pt \in batch.texts
    /\ \E p \in Provider, nonce \in Nonces :
          /\ p.algo = s.key.algo
          /\ nonce.len = nonce_len(p.algo)
          /\ s.frame = SealedFrame(p, s.key, s.key_id, nonce, s.flags, s.pt)

LogInv ==
    /\ batch \in Batches
    /\ IsFiniteSet(sealed) /\ Cardinality(sealed) <= batch.max
    /\ \A s \in sealed : TrueEntry(s)

\* Whatever the channel does, it delivers a header of at most 12 bytes, then at
\* most 12 bytes of nonce, and a body only behind a full nonce; a body that is
\* intact is that of a sealed frame.
Shape(f) ==
    /\ f = [hdr |-> f.hdr, nonce |-> f.nonce, body |-> f.body]
    /\ Len(f.hdr) \in 0 .. HEADER_LEN
    /\ f.nonce.len \in 0 .. 12
    /\ f.body.len \in Nat
    /\ f.nonce.len # 12 => f.body.len = 0

FromSender(f, log) ==
    Shape(f) /\ (f.body.intact => \E s \in log : f.body = s.frame.body)

TransitInv == transit # NoFrame => FromSender(transit, sealed)

LastInv ==
    last # NoCall =>
        /\ FromSender(last.frame, sealed)
        /\ last.p \in Provider
        /\ last.key \in HeldHandles
        /\ last.out_len \in Nat
        /\ last.res = wire_open(last.p, last.key, last.frame, last.out_len)

IInv == LogInv /\ TransitInv /\ LastInv

-----------------------------------------------------------------------------
(* Sealed frames                                                           *)

\* The peers' providers are AES-GCM providers of either kind.
LEMMA ProvidersType == Providers \subseteq Provider
  <1>1. ASSUME NEW kind \in ProviderKind, NEW algo \in ProviderAlgo
        PROVE  Provider_new(kind, algo).val \in Provider
    BY DEF Provider_new, Ok, Provider
  <1> QED
    BY <1>1 DEF Providers

\* A header is made of bytes.
LEMMA HeaderBytes ==
    ASSUME NEW h \in Header PROVE encode(h) \in Seq(Byte)
  <1> DEFINE id == to_be_bytes(h.key_id)
  <1>1. h.key_id \in Nat /\ IsU32(h.key_id)
    BY DEF Header
  <1>2. id[1] \in Byte /\ id[2] \in Byte /\ id[3] \in Byte /\ id[4] \in Byte
    BY <1>1, BigEndianRoundTrip
  <1>3. as_u8(h.algo) \in Byte
    BY DEF Header, AlgoId, as_u8, Byte
  <1>4. h.version \in Byte /\ h.flags \in Byte /\ h.nonce_len \in Byte
    BY DEF Header, Byte, VERSION
  <1>5. encode(h) = <<65, 67, h.version, h.flags, id[1], id[2], id[3], id[4],
                      as_u8(h.algo), h.nonce_len, 0, 0>>
    BY DEF encode, MAGIC
  <1> HIDE DEF id
  <1>6. 65 \in Byte /\ 67 \in Byte /\ 0 \in Byte
    BY DEF Byte
  <1> QED
    BY <1>2, <1>3, <1>4, <1>5, <1>6

\* The frame with header h, nonce n and an untouched body of the given length.
Whole(h, n, len, m, pt) ==
    [hdr |-> h, nonce |-> n,
     body |-> [len |-> len, intact |-> TRUE, material |-> m, nonce |-> n,
               aad |-> h, pt |-> pt]]

\* A sealed frame is its header of 12 bytes, its nonce, and the sealed body.
LEMMA SealedParts ==
    ASSUME NEW p \in Provider, NEW key, NEW key_id \in Nat, IsU32(key_id),
           NEW nonce, nonce.len = nonce_len(p.algo), NEW flags \in Byte,
           NEW pt, pt.len \in Nat
    PROVE  LET h == SealedHeader(p, key_id, nonce, flags)
           IN  /\ SealedFrame(p, key, key_id, nonce, flags, pt) =
                    Whole(h, nonce, pt.len + 16, key.material, pt)
               /\ h \in Seq(Byte) /\ Len(h) = 12
  <1> DEFINE r == [version |-> VERSION, flags |-> flags, key_id |-> key_id,
                   algo |-> p.algo, nonce_len |-> nonce.len]
             h == SealedHeader(p, key_id, nonce, flags)
  <1>1. Len(h) = 12
    BY SealedHeaderDecodes DEF HEADER_LEN
  <1>2. p.algo \in AlgoId /\ nonce.len \in Byte
    BY DEF Provider, ProviderAlgo, AlgoId, nonce_len, Byte
  <1>3. r \in Header
    BY <1>2 DEF Header
  <1>4. h \in Seq(Byte)
    BY <1>3, HeaderBytes DEF SealedHeader
  <1> HIDE DEF h
  <1>5. SealedFrame(p, key, key_id, nonce, flags, pt) =
           Whole(h, nonce, pt.len + 16, key.material, pt)
    BY DEF SealedFrame, Whole, aead_seal, tag_len, h
  <1> QED
    BY <1>1, <1>4, <1>5 DEF h

\* The arguments an entry of the log was sealed with.
LEMMA EntryArguments ==
    ASSUME batch \in Batches, NEW s, TrueEntry(s)
    PROVE  /\ s.key_id \in Nat /\ IsU32(s.key_id)
           /\ s.flags \in Byte
           /\ s.pt.len \in Nat
           /\ s.key.material.len = key_len(s.key.algo)
           /\ \E p \in Provider, nonce \in Nonces :
                 /\ p.algo = s.key.algo
                 /\ nonce.len = nonce_len(p.algo) /\ nonce \in Blob({nonce.val})
                 /\ s.frame = SealedFrame(p, s.key, s.key_id, nonce, s.flags, s.pt)
  <1>1. PICK p \in Provider, nonce \in Nonces :
           /\ p.algo = s.key.algo
           /\ nonce.len = nonce_len(p.algo)
           /\ s.frame = SealedFrame(p, s.key, s.key_id, nonce, s.flags, s.pt)
    BY DEF TrueEntry
  <1>2. nonce \in Blob({nonce.val})
    BY LinkAssumption
  <1>3. s.key.material.len = key_len(s.key.algo)
    <2>1. KeyHandle_new(s.key.id, s.key.algo, s.key.material).ok
      BY LinkAssumption DEF TrueEntry
    <2> QED
      BY <2>1 DEF KeyHandle_new, Err
  <1>4. IsU32(s.key_id)
    BY LinkAssumption DEF TrueEntry
  <1>5. s.key_id \in Nat
    BY <1>4 DEF IsU32
  <1>6. s.flags \in Byte
    BY LinkAssumption DEF TrueEntry
  <1>7. s.pt \in Blob({s.pt.val})
    BY LinkAssumption DEF TrueEntry
  <1>8. s.pt.len \in Nat
    BY <1>7 DEF Blob
  <1> QED
    BY <1>1, <1>2, <1>3, <1>4, <1>5, <1>6, <1>8

\* The parts of the frame in an entry of the log.
LEMMA EntryParts ==
    ASSUME batch \in Batches, NEW s, TrueEntry(s)
    PROVE  \E h \in Seq(Byte), n \in Nonces :
              /\ Len(h) = 12 /\ n.len = 12 /\ n \in Blob({n.val})
              /\ s.frame = Whole(h, n, s.pt.len + 16, s.key.material, s.pt)
  <1>1. PICK p \in Provider, nonce \in Nonces :
           /\ nonce.len = nonce_len(p.algo) /\ nonce \in Blob({nonce.val})
           /\ s.frame = SealedFrame(p, s.key, s.key_id, nonce, s.flags, s.pt)
    BY EntryArguments
  <1>2. s.key_id \in Nat /\ IsU32(s.key_id) /\ s.flags \in Byte /\ s.pt.len \in Nat
    BY EntryArguments
  <1> DEFINE h == SealedHeader(p, s.key_id, nonce, s.flags)
  <1>3. /\ SealedFrame(p, s.key, s.key_id, nonce, s.flags, s.pt) =
             Whole(h, nonce, s.pt.len + 16, s.key.material, s.pt)
        /\ h \in Seq(Byte) /\ Len(h) = 12
    BY <1>1, <1>2, SealedParts
  <1>4. nonce.len = 12
    BY <1>1 DEF nonce_len
  <1> HIDE DEF h
  <1> QED
    BY <1>1, <1>3, <1>4

-----------------------------------------------------------------------------
(* The channel                                                             *)

\* A frame put together from its three parts.
LEMMA PartsShape ==
    ASSUME NEW hdr, NEW nonce, NEW body, NEW log,
           Len(hdr) \in 0 .. 12, nonce.len \in 0 .. 12, body.len \in Nat,
           nonce.len # 12 => body.len = 0,
           body.intact => \E s \in log : body = s.frame.body
    PROVE  FromSender([hdr |-> hdr, nonce |-> nonce, body |-> body], log)
  BY DEF FromSender, Shape, HEADER_LEN

\* One of the three parts is replaced.
LEMMA ExceptParts ==
    ASSUME NEW h, NEW n, NEW z, NEW x
    PROVE  LET f == [hdr |-> h, nonce |-> n, body |-> z]
           IN  /\ [f EXCEPT !.hdr = x] = [hdr |-> x, nonce |-> n, body |-> z]
               /\ [f EXCEPT !.nonce = x] = [hdr |-> h, nonce |-> x, body |-> z]
               /\ [f EXCEPT !.body = x] = [hdr |-> h, nonce |-> n, body |-> x]
  OBVIOUS

\* What the channel does to one frame keeps its shape, and the body stays
\* intact only if it is the body that was sealed.
LEMMA AlteredShape ==
    ASSUME NEW h \in Seq(Byte), Len(h) = 12, NEW n, n.len = 12, NEW len \in Nat,
           NEW m, NEW pt, NEW log, NEW f, f = Whole(h, n, len, m, pt),
           \E s \in log : f.body = s.frame.body
    PROVE  /\ FromSender(f, log)
           /\ \A i \in 1 .. 12, b \in Byte :
                 FromSender([f EXCEPT !.hdr = [f.hdr EXCEPT ![i] = b]], log)
           /\ \A x : x.len = 12 => FromSender([f EXCEPT !.nonce = x], log)
           /\ FromSender([f EXCEPT !.body = [f.body EXCEPT !.intact = FALSE]], log)
           /\ FromSender([f EXCEPT !.body = [f.body EXCEPT !.intact = FALSE,
                                                           !.len = @ + 1]], log)
  <1> DEFINE z == [len |-> len, intact |-> TRUE, material |-> m, nonce |-> n,
                   aad |-> h, pt |-> pt]
             y == [z EXCEPT !.intact = FALSE]
             w == [z EXCEPT !.intact = FALSE, !.len = @ + 1]
  <1>1. z.len = len
    OBVIOUS
  <1>2. y.len = len /\ y.intact = FALSE
    OBVIOUS
  <1>3. w.len = len + 1 /\ w.intact = FALSE
    OBVIOUS
  <1>4. f = [hdr |-> h, nonce |-> n, body |-> z]
    BY DEF Whole
  <1> HIDE DEF z
  <1>5. f.hdr = h /\ f.body = z
    BY <1>4
  <1>6. \E s \in log : z = s.frame.body
    BY <1>5
  <1>7. /\ [f.body EXCEPT !.intact = FALSE] = y
        /\ [f.body EXCEPT !.intact = FALSE, !.len = @ + 1] = w
    BY <1>5
  <1> HIDE DEF y, w
  <1>8. FromSender(f, log)
    BY <1>1, <1>4, <1>6, PartsShape
  <1>9. ASSUME NEW i \in 1 .. 12, NEW b \in Byte
        PROVE  FromSender([f EXCEPT !.hdr = [f.hdr EXCEPT ![i] = b]], log)
    <2> DEFINE x == [h EXCEPT ![i] = b]
    <2>1. Len(x) = 12
      BY ExceptSeq
    <2>2. [f.hdr EXCEPT ![i] = b] = x
      BY <1>5
    <2> HIDE DEF x
    <2>3. [f EXCEPT !.hdr = x] = [hdr |-> x, nonce |-> n, body |-> z]
      BY <1>4, ExceptParts
    <2>4. FromSender([hdr |-> x, nonce |-> n, body |-> z], log)
      BY <1>1, <1>6, <2>1, PartsShape
    <2> QED
      BY <2>2, <2>3, <2>4
  <1>10. ASSUME NEW x, x.len = 12 PROVE FromSender([f EXCEPT !.nonce = x], log)
    <2>1. [f EXCEPT !.nonce = x] = [hdr |-> h, nonce |-> x, body |-> z]
      BY <1>4, ExceptParts
    <2>2. FromSender([hdr |-> h, nonce |-> x, body |-> z], log)
      BY <1>1, <1>6, <1>10, PartsShape
    <2> QED
      BY <2>1, <2>2
  <1>11. ASSUME NEW x, x.len \in Nat, x.intact = FALSE
         PROVE  FromSender([f EXCEPT !.body = x], log)
    <2>1. [f EXCEPT !.body = x] = [hdr |-> h, nonce |-> n, body |-> x]
      BY <1>4, ExceptParts
    <2>2. FromSender([hdr |-> h, nonce |-> n, body |-> x], log)
      BY <1>11, PartsShape
    <2> QED
      BY <2>1, <2>2
  <1>12. FromSender([f EXCEPT !.body = y], log) /\ FromSender([f EXCEPT !.body = w], log)
    <2>1. y.len \in Nat /\ w.len \in Nat
      BY <1>2, <1>3
    <2>2. FromSender([f EXCEPT !.body = y], log)
      BY <1>2, <1>11, <2>1
    <2>3. FromSender([f EXCEPT !.body = w], log)
      BY <1>3, <1>11, <2>1
    <2> QED
      BY <2>2, <2>3
  <1> QED
    BY <1>7, <1>8, <1>9, <1>10, <1>12

\* What arrives of a frame that was cut is no more than its beginning.
LEMMA PrefixShape ==
    ASSUME NEW h \in Seq(Byte), Len(h) = 12, NEW nonce, nonce \in Blob({nonce.val}),
           nonce.len = 12, NEW len \in Nat, NEW mat, NEW pt, NEW log, NEW n \in Nat
    PROVE  FromSender(prefix(Whole(h, nonce, len, mat, pt), n), log)
  <1> DEFINE z == [len |-> len, intact |-> TRUE, material |-> mat, nonce |-> nonce,
                   aad |-> h, pt |-> pt]
             f == [hdr |-> h, nonce |-> nonce, body |-> z]
             k == IF n < 12 THEN n ELSE 12
             m == IF n <= 12 THEN 0 ELSE IF n - 12 < 12 THEN n - 12 ELSE 12
             b == IF n <= 12 + 12 THEN 0 ELSE n - 12 - 12
             x == SubSeq(h, 1, k)
             y == [nonce EXCEPT !.len = m]
             w == [z EXCEPT !.len = b, !.intact = FALSE]
  <1>1. k \in 0 .. 12 /\ m \in 0 .. 12 /\ b \in Nat /\ (m # 12 => b = 0)
    OBVIOUS
  <1>2. prefix(f, n) = [hdr |-> x, nonce |-> y, body |-> w]
    <2>1. f.hdr = h /\ f.nonce = nonce /\ f.body = z
      OBVIOUS
    <2> HIDE DEF f, z
    <2> QED
      BY <2>1 DEF prefix
  <1>3. w.len = b /\ w.intact = FALSE
    OBVIOUS
  <1> HIDE DEF k, m, b, w
  <1>4. Len(x) = k
    <2>1. 1 \in Int /\ k \in Int
      BY <1>1
    <2>2. \A i \in 1 .. k : h[i] \in Byte
      <3>1. \A i \in 1 .. k : i \in 1 .. Len(h)
        BY <1>1
      <3> QED
        BY <3>1, ElementOfSeq
    <2>3. Len(x) = IF 1 <= k THEN k - 1 + 1 ELSE 0
      BY <2>1, <2>2, SubSeqProperties
    <2> QED
      BY <1>1, <2>3
  <1>5. y.len = m
    BY DEF Blob
  <1> HIDE DEF x, y, f
  <1>6. FromSender([hdr |-> x, nonce |-> y, body |-> w], log)
    BY <1>1, <1>3, <1>4, <1>5, PartsShape
  <1> QED
    BY <1>2, <1>6 DEF f, Whole

\* Every way the channel treats frames keeps their shape, and forges no body.
LEMMA ChannelStep ==
    ASSUME LogInv,
           \/ Deliver \/ CorruptHeader \/ CorruptNonce \/ CorruptBody
           \/ Truncate \/ Extend \/ Splice
    PROVE  FromSender(transit', sealed) /\ UNCHANGED <<batch, sealed, last>>
  <1> USE DEF Send
  <1>0. ASSUME NEW s \in sealed
        PROVE  \E h \in Seq(Byte), n \in Nonces, len \in Nat :
                  /\ Len(h) = 12 /\ n.len = 12 /\ n \in Blob({n.val})
                  /\ \E m, pt : s.frame = Whole(h, n, len, m, pt)
    <2>1. batch \in Batches /\ TrueEntry(s)
      BY DEF LogInv
    <2>2. s.pt.len + 16 \in Nat
      BY <2>1, EntryArguments
    <2> QED
      BY <2>1, <2>2, EntryParts
  <1>1. ASSUME NEW s \in sealed
        PROVE  /\ FromSender(s.frame, sealed)
               /\ \A i \in 1 .. 12, b \in Byte :
                     FromSender([s.frame EXCEPT !.hdr = [s.frame.hdr EXCEPT ![i] = b]],
                                sealed)
               /\ \A x : x.len = s.frame.nonce.len =>
                     FromSender([s.frame EXCEPT !.nonce = x], sealed)
               /\ FromSender([s.frame EXCEPT !.body =
                                [s.frame.body EXCEPT !.intact = FALSE]], sealed)
               /\ FromSender([s.frame EXCEPT !.body =
                                [s.frame.body EXCEPT !.intact = FALSE, !.len = @ + 1]],
                             sealed)
               /\ \A k \in Nat : FromSender(prefix(s.frame, k), sealed)
    <2>0. PICK h \in Seq(Byte), n \in Nonces, len \in Nat :
                  /\ Len(h) = 12 /\ n.len = 12 /\ n \in Blob({n.val})
                  /\ \E m, pt : s.frame = Whole(h, n, len, m, pt)
      BY <1>0
    <2>1. PICK m, pt : /\ Len(h) = 12 /\ n.len = 12 /\ n \in Blob({n.val})
                       /\ s.frame = Whole(h, n, len, m, pt)
      BY <2>0
    <2>2. s.frame.nonce.len = 12
      BY <2>1 DEF Whole
    <2>3. \A k \in Nat : FromSender(prefix(s.frame, k), sealed)
      BY <2>1, PrefixShape
    <2> DEFINE f == s.frame
    <2>4. f.body = s.frame.body /\ f = Whole(h, n, len, m, pt)
      BY <2>1
    <2> HIDE DEF f
    <2>5. /\ FromSender(f, sealed)
          /\ \A i \in 1 .. 12, b \in Byte :
                FromSender([f EXCEPT !.hdr = [f.hdr EXCEPT ![i] = b]], sealed)
          /\ \A x : x.len = 12 => FromSender([f EXCEPT !.nonce = x], sealed)
          /\ FromSender([f EXCEPT !.body = [f.body EXCEPT !.intact = FALSE]], sealed)
          /\ FromSender([f EXCEPT !.body = [f.body EXCEPT !.intact = FALSE,
                                                          !.len = @ + 1]], sealed)
      BY <2>1, <2>4, AlteredShape
    <2> QED
      BY <2>2, <2>3, <2>5 DEF f
  <1>2. CASE Deliver
    BY <1>1, <1>2 DEF Deliver
  <1>3. CASE CorruptHeader
    <2>1. PICK s \in sealed, i \in 1 .. 12, b \in Bytes :
             Send([s.frame EXCEPT !.hdr = [s.frame.hdr EXCEPT ![i] = b]])
      BY <1>3 DEF CorruptHeader, HEADER_LEN
    <2>2. b \in Byte
      BY LinkAssumption
    <2>3. FromSender([s.frame EXCEPT !.hdr = [s.frame.hdr EXCEPT ![i] = b]], sealed)
      BY <1>1, <2>2
    <2> QED
      BY <2>1, <2>3
  <1>4. CASE CorruptNonce
    BY <1>1, <1>4 DEF CorruptNonce
  <1>5. CASE CorruptBody
    BY <1>1, <1>5 DEF CorruptBody
  <1>6. CASE Truncate
    BY <1>1, <1>6, LinkAssumption DEF Truncate
  <1>7. CASE Extend
    BY <1>1, <1>7 DEF Extend
  <1>8. CASE Splice
    <2>1. PICK s \in sealed, t \in sealed, u \in sealed :
             Send([hdr |-> s.frame.hdr, nonce |-> t.frame.nonce, body |-> u.frame.body])
      BY <1>8 DEF Splice
    <2>2. \A v \in sealed : /\ Len(v.frame.hdr) = 12 /\ v.frame.nonce.len = 12
                             /\ v.frame.body.len \in Nat
      <3>1. SUFFICES ASSUME NEW v \in sealed
                     PROVE  /\ Len(v.frame.hdr) = 12 /\ v.frame.nonce.len = 12
                            /\ v.frame.body.len \in Nat
        OBVIOUS
      <3>2. PICK h \in Seq(Byte), n \in Nonces, len \in Nat :
                  /\ Len(h) = 12 /\ n.len = 12 /\ n \in Blob({n.val})
                  /\ \E m, pt : v.frame = Whole(h, n, len, m, pt)
        BY <1>0
      <3>3. v.frame.hdr = h /\ v.frame.nonce = n /\ v.frame.body.len = len
        BY <3>2 DEF Whole
      <3> QED
        BY <3>2, <3>3
    <2>3. Len(s.frame.hdr) = 12 /\ t.frame.nonce.len = 12 /\ u.frame.body.len \in Nat
      BY <2>2
    <2>4. FromSender([hdr |-> s.frame.hdr, nonce |-> t.frame.nonce,
                      body |-> u.frame.body], sealed)
      BY <2>3, PartsShape
    <2> QED
      BY <2>1, <2>4
  <1> QED
    BY <1>2, <1>3, <1>4, <1>5, <1>6, <1>7, <1>8

-----------------------------------------------------------------------------
(* Invariance                                                              *)

\* A handle after KeyHandle::wipe has no material of any algorithm's length.
LEMMA WipedKey ==
    ASSUME NEW key \in HeldHandles, NEW algo, key.material.len = key_len(algo)
    PROVE  key \in Handles
  <1>1. ASSUME NEW k \in Handles PROVE wipe(k).material.len = 0
    <2>1. k \in KeyHandle({k.material.val})
      BY LinkAssumption
    <2> QED
      BY <2>1 DEF KeyHandle, Blob, wipe
  <1>2. key_len(algo) # 0
    BY DEF key_len
  <1> QED
    BY <1>1, <1>2 DEF HeldHandles

\* A frame that comes from the sender still does when more is sealed.
LEMMA MoreSealed ==
    ASSUME NEW f, NEW log, NEW more, log \subseteq more, FromSender(f, log)
    PROVE  FromSender(f, more)
  BY DEF FromSender

\* WireSeal, in terms of SealedFrame.
LEMMA SealReturns ==
    ASSUME NEW p \in Provider, NEW key, NEW key_id, NEW nonce, NEW flags, NEW pt,
           NEW out_len \in Int, pt.len \in Nat, nonce.len \in Nat,
           wire_seal(p, key, key_id, nonce, flags, pt, out_len).ok
    PROVE  /\ key.algo = p.algo
           /\ key.material.len = key_len(p.algo)
           /\ nonce.len = nonce_len(p.algo)
           /\ wire_seal(p, key, key_id, nonce, flags, pt, out_len).val =
                SealedFrame(p, key, key_id, nonce, flags, pt)
  <1> DEFINE hdr == SealedHeader(p, key_id, nonce, flags)
             f   == [hdr |-> hdr, nonce |-> nonce,
                     body |-> aead_seal(key.material, nonce, hdr, pt, tag_len(p.algo))]
  <1>1. /\ key.algo = p.algo
        /\ key.material.len = key_len(p.algo)
        /\ nonce.len = nonce_len(p.algo)
    BY WireSeal
  <1>2. wire_seal(p, key, key_id, nonce, flags, pt, out_len).val = f
    BY WireSeal DEF Ok
  <1>3. f = SealedFrame(p, key, key_id, nonce, flags, pt)
    BY DEF SealedFrame
  <1> HIDE DEF f
  <1> QED
    BY <1>1, <1>2, <1>3

\* A successful call of seal adds a true entry to the log.
LEMMA SealStep ==
    ASSUME LogInv, Cardinality(sealed) < batch.max,
           NEW p \in Provider, NEW key \in HeldHandles, NEW key_id \in batch.key_ids,
           NEW nonce \in Nonces, NEW flags \in Flags, NEW pt \in batch.texts,
           NEW slack \in {-1, 0}, Seal(p, key, key_id, nonce, flags, pt, slack)
    PROVE  LogInv' /\ sealed \subseteq sealed'
  <1> DEFINE need == frame_len(pt.len, nonce.len, tag_len(p.algo))
             r    == wire_seal(p, key, key_id, nonce, flags, pt, need + slack)
             e    == [frame |-> r.val, key |-> key, key_id |-> key_id, flags |-> flags,
                      pt |-> pt]
  <1>1. r.ok /\ sealed' = sealed \cup {e} /\ batch' = batch
    BY DEF Seal
  <1>2. pt.len \in Nat /\ nonce.len \in Nat
    <2>1. pt \in Blob({pt.val}) /\ nonce \in Blob({nonce.val})
      BY LinkAssumption DEF LogInv
    <2> QED
      BY <2>1 DEF Blob
  <1>3. need + slack \in Int
    BY <1>2 DEF frame_len, HEADER_LEN, tag_len
  <1> HIDE DEF need
  <1>4. /\ key.algo = p.algo
        /\ key.material.len = key_len(p.algo)
        /\ nonce.len = nonce_len(p.algo)
        /\ r.val = SealedFrame(p, key, key_id, nonce, flags, pt)
    BY <1>1, <1>2, <1>3, SealReturns
  <1>6. key \in Handles
    BY <1>4, WipedKey
  <1> HIDE DEF r
  <1>7. /\ e.frame = SealedFrame(p, key, key_id, nonce, flags, pt)
        /\ e.key = key /\ e.key_id = key_id /\ e.flags = flags /\ e.pt = pt
    BY <1>4
  <1> HIDE DEF e
  <1>8. TrueEntry(e)
    BY <1>4, <1>6, <1>7 DEF TrueEntry
  <1>9. \A s \in sealed' : TrueEntry(s)'
    <2>1. \A s : TrueEntry(s) => TrueEntry(s)'
      BY <1>1 DEF TrueEntry
    <2>2. \A s \in sealed' : s \in sealed \/ s = e
      BY <1>1
    <2>3. \A s \in sealed : TrueEntry(s)
      BY DEF LogInv
    <2> QED
      BY <1>8, <2>1, <2>2, <2>3
  <1>10. IsFiniteSet(sealed') /\ Cardinality(sealed') <= batch'.max
    <2>1. IsFiniteSet(sealed) /\ Cardinality(sealed) \in Nat
      BY FS_CardinalityType DEF LogInv
    <2>2. batch.max \in Nat
      BY LinkAssumption DEF LogInv
    <2>3. /\ IsFiniteSet(sealed \cup {e})
          /\ Cardinality(sealed \cup {e}) =
               IF e \in sealed THEN Cardinality(sealed) ELSE Cardinality(sealed) + 1
      BY <2>1, FS_AddElement
    <2> QED
      BY <1>1, <2>1, <2>2, <2>3
  <1> QED
    BY <1>1, <1>9, <1>10 DEF LogInv

\* open records its own outcome; its buffer has a length.
LEMMA OpenStep ==
    ASSUME IInv, transit # NoFrame, NEW p \in Provider, NEW key \in HeldHandles,
           NEW out_len \in OutLens, Open(p, key, out_len)
    PROVE  IInv'
  <1>1. Shape(transit)
    BY DEF IInv, TransitInv, FromSender
  <1>2. out_len \in Nat
    <2>1. length(transit) \in Nat
      BY <1>1 DEF Shape, length, HEADER_LEN
    <2>2. \A n \in {transit.body.len - 16, transit.body.len - 17} : n >= 0 => n \in Nat
      BY <1>1 DEF Shape
    <2> QED
      BY <2>1, <2>2 DEF OutLens
  <1> DEFINE c == [frame |-> transit, p |-> p, key |-> key, out_len |-> out_len,
                   res |-> wire_open(p, key, transit, out_len)]
  <1>3. last' = c /\ transit' = NoFrame /\ UNCHANGED <<batch, sealed>>
    BY DEF Open
  <1>4. /\ c.frame = transit /\ c.p = p /\ c.key = key /\ c.out_len = out_len
        /\ c.res = wire_open(p, key, transit, out_len)
    OBVIOUS
  <1> HIDE DEF c
  <1>5. LogInv'
    BY <1>3 DEF IInv, LogInv, TrueEntry
  <1>6. LastInv'
    BY <1>2, <1>3, <1>4 DEF IInv, TransitInv, LastInv, HeldHandles
  <1> QED
    BY <1>3, <1>5, <1>6 DEF IInv, TransitInv

\* Every step of the sender, the channel and the receiver keeps the invariant.
LEMMA LinkStep == IInv /\ [Next]_vars => IInv'
  <1> SUFFICES ASSUME IInv, [Next]_vars PROVE IInv'
    OBVIOUS
  <1>1. ASSUME Cardinality(sealed) < batch.max,
               NEW p \in Providers, NEW key \in HeldHandles, NEW key_id \in batch.key_ids,
               NEW nonce \in Nonces, NEW flags \in Flags, NEW pt \in batch.texts,
               NEW slack \in {-1, 0}, Seal(p, key, key_id, nonce, flags, pt, slack)
        PROVE  IInv'
    <2>1. LogInv' /\ sealed \subseteq sealed'
      BY <1>1, ProvidersType, SealStep DEF IInv
    <2>2. transit' = transit /\ last' = last
      BY <1>1 DEF Seal
    <2>3. TransitInv'
      BY <2>1, <2>2, MoreSealed DEF IInv, TransitInv
    <2>4. LastInv'
      BY <2>1, <2>2, MoreSealed DEF IInv, LastInv, HeldHandles
    <2> QED
      BY <2>1, <2>3, <2>4 DEF IInv
  <1>2. CASE \/ Deliver \/ CorruptHeader \/ CorruptNonce \/ CorruptBody
             \/ Truncate \/ Extend \/ Splice
    <2>1. FromSender(transit', sealed) /\ UNCHANGED <<batch, sealed, last>>
      BY <1>2, ChannelStep DEF IInv
    <2>2. LogInv' /\ LastInv'
      BY <2>1 DEF IInv, LogInv, TrueEntry, LastInv, HeldHandles
    <2> QED
      BY <2>1, <2>2 DEF IInv, TransitInv
  <1>3. ASSUME transit # NoFrame, NEW p \in Providers, NEW key \in HeldHandles,
               NEW out_len \in OutLens, Open(p, key, out_len)
        PROVE  IInv'
    BY <1>3, ProvidersType, OpenStep
  <1>4. CASE Return
    BY <1>4 DEF Return, IInv, LogInv, TrueEntry, TransitInv, LastInv
  <1>5. CASE UNCHANGED vars
    BY <1>5 DEF vars, IInv, LogInv, TrueEntry, TransitInv, LastInv, HeldHandles
  <1> QED
    BY <1>1, <1>2, <1>3, <1>4, <1>5 DEF Next

\* Nothing was sealed or sent yet.
LEMMA LinkInit == Init => IInv
  <1> SUFFICES ASSUME Init PROVE IInv
    OBVIOUS
  <1>1. batch \in Batches /\ sealed = {} /\ transit = NoFrame /\ last = NoCall
    BY DEF Init
  <1>2. IsFiniteSet({}) /\ Cardinality({}) = 0
    BY FS_EmptySet
  <1>3. batch.max \in Nat
    BY <1>1, LinkAssumption
  <1>4. LogInv
    BY <1>1, <1>2, <1>3 DEF LogInv
  <1> QED
    BY <1>1, <1>4 DEF IInv, TransitInv, LastInv

\* The invariant holds throughout.
LEMMA LinkInvariant == Spec => []IInv
  BY LinkInit, LinkStep, PTL DEF Spec

-----------------------------------------------------------------------------
(* The theorems                                                            *)

\* Every entry of the log is of the batch at hand, there are no more than were
\* asked for, and nothing was sealed with a handle after KeyHandle::wipe.
THEOREM LinkTypeCorrect == Spec => []TypeOK
  <1>1. IInv => TypeOK
    BY DEF IInv, LogInv, TrueEntry, LastInv, TypeOK, Opened
  <1> QED
    BY <1>1, LinkInvariant, PTL

\* acm_wire::open hands out a plaintext only for a frame that was sealed, as a
\* whole, under the receiver's key material, however frames were corrupted,
\* cut, extended or recombined.
THEOREM AuthenticCorrect == Spec => []Authentic
  <1>1. IInv => Authentic
    <2> SUFFICES ASSUME IInv, Opened, last.res.ok
                 PROVE  \E s \in sealed : /\ s.frame = last.frame
                                          /\ s.key.material = last.key.material
                                          /\ s.pt = last.res.val
      BY DEF Authentic
    <2> DEFINE f == last.frame
    <2>1. /\ FromSender(f, sealed) /\ last.p \in Provider /\ last.out_len \in Nat
          /\ last.res = wire_open(last.p, last.key, f, last.out_len)
      BY DEF IInv, LastInv, Opened
    <2>2. f.body.len \in Nat /\ f = [hdr |-> f.hdr, nonce |-> f.nonce, body |-> f.body]
      BY <2>1 DEF FromSender, Shape
    <2>3. /\ last.res = Ok(f.body.pt)
          /\ aead_opens(last.key.material, f.nonce, f.hdr, f.body)
      BY <2>1, <2>2, OpenedFrameIsAuthentic
    <2>4. /\ f.body.intact /\ f.body.material = last.key.material
          /\ f.body.nonce = f.nonce /\ f.body.aad = f.hdr /\ last.res.val = f.body.pt
      BY <2>3 DEF aead_opens, Ok
    <2> HIDE DEF f
    <2>5. PICK s \in sealed : f.body = s.frame.body
      BY <2>1, <2>4 DEF FromSender
    <2>6. batch \in Batches /\ TrueEntry(s)
      BY DEF IInv, LogInv
    <2>7. PICK h \in Seq(Byte), n \in Nonces :
             s.frame = Whole(h, n, s.pt.len + 16, s.key.material, s.pt)
      BY <2>6, EntryParts
    <2>8. /\ s.frame = [hdr |-> h, nonce |-> n, body |-> s.frame.body]
          /\ s.frame.body.material = s.key.material /\ s.frame.body.nonce = n
          /\ s.frame.body.aad = h /\ s.frame.body.pt = s.pt
      BY <2>7 DEF Whole
    <2>9. f.hdr = h /\ f.nonce = n
      BY <2>4, <2>5, <2>8
    <2>10. f = s.frame
      BY <2>2, <2>5, <2>8, <2>9
    <2> QED
      BY <2>4, <2>5, <2>8, <2>10 DEF f
  <1> QED
    BY <1>1, LinkInvariant, PTL

\* What was sealed opens under the same handle with either provider of its
\* algorithm in any buffer that holds the plaintext.
THEOREM RoundTripCorrect == Spec => []RoundTrip
  <1>1. IInv => RoundTrip
    <2> SUFFICES ASSUME IInv, NEW s \in sealed, Opened, last.frame = s.frame,
                        last.key = s.key, last.p.algo = s.key.algo,
                        last.out_len >= s.pt.len
                 PROVE  last.res = Ok(s.pt)
      BY DEF RoundTrip
    <2>1. /\ last.p \in Provider /\ last.out_len \in Nat
          /\ last.res = wire_open(last.p, s.key, s.frame, last.out_len)
      BY DEF IInv, LastInv, Opened
    <2>2. batch \in Batches /\ TrueEntry(s)
      BY DEF IInv, LogInv
    <2>3. PICK p \in Provider, nonce \in Nonces :
             /\ p.algo = s.key.algo
             /\ nonce.len = nonce_len(p.algo)
             /\ s.frame = SealedFrame(p, s.key, s.key_id, nonce, s.flags, s.pt)
      BY <2>2, EntryArguments
    <2>4. /\ s.key_id \in Nat /\ IsU32(s.key_id) /\ s.flags \in Byte /\ s.pt.len \in Nat
          /\ s.key.material.len = key_len(p.algo)
      BY <2>2, <2>3, EntryArguments
    <2> DEFINE need == frame_len(s.pt.len, nonce.len, tag_len(p.algo))
               r    == wire_seal(p, s.key, s.key_id, nonce, s.flags, s.pt, need)
    <2>5. need \in Nat /\ need \in Int /\ need >= need /\ nonce.len \in Nat
      BY <2>3, <2>4 DEF frame_len, HEADER_LEN, nonce_len, tag_len
    <2>6. r.ok /\ wire_open(last.p, s.key, r.val, last.out_len) = Ok(s.pt)
      BY <2>1, <2>3, <2>4, <2>5, SealedFrameOpens
    <2> HIDE DEF need
    <2>7. r.val = SealedFrame(p, s.key, s.key_id, nonce, s.flags, s.pt)
      BY <2>4, <2>5, <2>6, SealReturns
    <2>8. r.val = s.frame
      BY <2>3, <2>7
    <2> QED
      BY <2>1, <2>6, <2>8
  <1> QED
    BY <1>1, LinkInvariant, PTL

\* The header of a sealed frame shows the key id, the flags and the algorithm
\* of its key, for every u32, and the frame is as long as frame_len promised.
THEOREM HeaderCorrect == Spec => []HeaderTellsTheTruth
  <1>1. IInv => HeaderTellsTheTruth
    <2> SUFFICES ASSUME IInv, NEW s \in sealed
                 PROVE  /\ decode(s.frame.hdr) =
                             Ok([version |-> VERSION, flags |-> s.flags,
                                 key_id |-> s.key_id, algo |-> s.key.algo,
                                 nonce_len |-> s.frame.nonce.len])
                        /\ length(s.frame) = frame_len(s.pt.len, s.frame.nonce.len,
                                                       tag_len(s.key.algo))
      BY DEF HeaderTellsTheTruth
    <2>1. batch \in Batches /\ TrueEntry(s)
      BY DEF IInv, LogInv
    <2>2. PICK p \in Provider, nonce \in Nonces :
             /\ p.algo = s.key.algo
             /\ nonce.len = nonce_len(p.algo)
             /\ s.frame = SealedFrame(p, s.key, s.key_id, nonce, s.flags, s.pt)
      BY <2>1, EntryArguments
    <2>3. s.key_id \in Nat /\ IsU32(s.key_id) /\ s.flags \in Byte /\ s.pt.len \in Nat
      BY <2>1, EntryArguments
    <2> DEFINE h == SealedHeader(p, s.key_id, nonce, s.flags)
    <2>4. decode(h) = Ok([version |-> VERSION, flags |-> s.flags, key_id |-> s.key_id,
                          algo |-> p.algo, nonce_len |-> nonce_len(p.algo)])
      BY <2>2, <2>3, SealedHeaderDecodes
    <2>5. /\ s.frame = Whole(h, nonce, s.pt.len + 16, s.key.material, s.pt)
          /\ Len(h) = 12
      BY <2>2, <2>3, SealedParts
    <2> HIDE DEF h
    <2>6. /\ s.frame.hdr = h /\ s.frame.nonce = nonce
          /\ s.frame.body.len = s.pt.len + 16
      BY <2>5 DEF Whole
    <2>7. nonce.len = 12
      BY <2>2 DEF nonce_len
    <2>8. length(s.frame) = 12 + 12 + (s.pt.len + 16)
      BY <2>5, <2>6, <2>7 DEF length
    <2>9. frame_len(s.pt.len, s.frame.nonce.len, tag_len(s.key.algo)) =
             12 + 12 + s.pt.len + 16
      BY <2>6, <2>7 DEF frame_len, HEADER_LEN, tag_len
    <2>10. length(s.frame) = frame_len(s.pt.len, s.frame.nonce.len, tag_len(s.key.algo))
      BY <2>3, <2>8, <2>9
    <2> QED
      BY <2>2, <2>4, <2>6, <2>10
  <1> QED
    BY <1>1, LinkInvariant, PTL

\* Behind acm_wire::open the two providers cannot be told apart: the checks
\* that they make in different orders are decided before either is called.
LEMMA ProvidersInterchangeable ==
    ASSUME NEW p \in Provider, NEW q \in Provider, p.algo = q.algo, NEW key,
           NEW f, Shape(f), NEW out_len \in Nat
    PROVE  wire_open(p, key, f, out_len) = wire_open(q, key, f, out_len)
  <1> DEFINE d == decode(f.hdr)
  <1>1. /\ Len(f.hdr) \in 0 .. 12 /\ f.nonce.len \in 0 .. 12 /\ f.body.len \in Nat
        /\ f.nonce.len # 12 => f.body.len = 0
    BY DEF Shape, HEADER_LEN
  <1>2. CASE /\ d.ok /\ d.val.algo = p.algo /\ d.val.nonce_len = 12
             /\ ~body_too_short(f, 12, 16) /\ ~(out_len < f.body.len - 16)
    <2>1. f.nonce.len = 12
      <3>1. ~(length(f) < 12 + 12 + 16)
        BY <1>2 DEF body_too_short, HEADER_LEN
      <3>2. length(f) = Len(f.hdr) + f.nonce.len + f.body.len
        BY DEF length
      <3>3. ASSUME NEW a \in 0 .. 12, NEW b \in 0 .. 12, NEW c \in Nat,
                   b # 12 => c = 0, ~(a + b + c < 12 + 12 + 16)
            PROVE  b = 12
        BY <3>3
      <3> QED
        BY <1>1, <3>1, <3>2, <3>3
    <2>2. provider_open(p, key, f.nonce, f.hdr, f.body, out_len) =
          provider_open(q, key, f.nonce, f.hdr, f.body, out_len)
      BY <1>1, <1>2, <2>1
         DEF provider_open, ring_open, sw_open, sw_check_inputs, tag_len, nonce_len
    <2> QED
      BY <2>2 DEF wire_open, hdr_buf
  <1>3. CASE ~(/\ d.ok /\ d.val.algo = p.algo /\ d.val.nonce_len = 12
               /\ ~body_too_short(f, 12, 16) /\ ~(out_len < f.body.len - 16))
    BY <1>3 DEF wire_open, nonce_len, tag_len
  <1> QED
    BY <1>2, <1>3

\* The two implementations of CryptoProvider give the same plaintext or the
\* same error for whatever arrives, under any handle and in any buffer.
THEOREM ProvidersAgreeCorrect == Spec => []ProvidersAgree
  <1>1. IInv => ProvidersAgree
    <2> SUFFICES ASSUME IInv, Opened, NEW kind \in ProviderKind
                 PROVE  wire_open([last.p EXCEPT !.kind = kind], last.key, last.frame,
                                  last.out_len) = last.res
      BY DEF ProvidersAgree
    <2>1. /\ Shape(last.frame) /\ last.p \in Provider /\ last.out_len \in Nat
          /\ last.res = wire_open(last.p, last.key, last.frame, last.out_len)
      BY DEF IInv, LastInv, Opened, FromSender
    <2>2. /\ [last.p EXCEPT !.kind = kind] \in Provider
          /\ [last.p EXCEPT !.kind = kind].algo = last.p.algo
      BY <2>1 DEF Provider
    <2> DEFINE q == [last.p EXCEPT !.kind = kind]
    <2> HIDE DEF q
    <2>3. wire_open(last.p, last.key, last.frame, last.out_len) =
          wire_open(q, last.key, last.frame, last.out_len)
      <3>1. q \in Provider /\ last.p.algo = q.algo
        BY <2>2 DEF q
      <3> QED
        BY <2>1, <3>1, ProvidersInterchangeable
    <2> QED
      BY <2>1, <2>3 DEF q
  <1> QED
    BY <1>1, LinkInvariant, PTL
=============================================================================
