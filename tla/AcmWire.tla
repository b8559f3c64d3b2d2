------------------------------ MODULE AcmWire ------------------------------
(***************************************************************************)
(* The crate acm-wire: the ACM frame                                       *)
(*                                                                         *)
(*     header (12 bytes) | nonce | ciphertext | tag                        *)
(*                                                                         *)
(* A frame is a record [hdr, nonce, body].  The header is a sequence of    *)
(* bytes, because the code builds, parses and authenticates it byte by     *)
(* byte; nonce and body are blobs.  A frame cut short on the wire has a    *)
(* shorter header, nonce or body and nothing after the cut.                *)
(***************************************************************************)
EXTENDS AcmCrypto, Sequences

Byte       == 0 .. 255
HEADER_LEN == 12
MAGIC      == <<65, 67>>
VERSION    == 1

frame_len(plaintext_len, nlen, tlen) ==
    HEADER_LEN + nlen + plaintext_len + tlen

\* frame.len() of a frame in this representation.
length(frame) == Len(frame.hdr) + frame.nonce.len + frame.body.len

-----------------------------------------------------------------------------
(* FrameHeader                                                             *)

to_be_bytes(k) ==
    <<k \div 16777216, (k \div 65536) % 256, (k \div 256) % 256, k % 256>>

\* Mutated form: two bytes are taken in the wrong order.
from_mixed_bytes(a, b, c, d) == a * 16777216 + c * 65536 + b * 256 + d

from_be_bytes(a, b, c, d) == a * 16777216 + b * 65536 + c * 256 + d

\* FrameHeader::encode; the caller always hands it the 12 bytes it needs.
encode(h) ==
    LET id == to_be_bytes(h.key_id)
    IN  <<MAGIC[1], MAGIC[2], h.version, h.flags, id[1], id[2], id[3], id[4],
          as_u8(h.algo), h.nonce_len, 0, 0>>

\* FrameHeader::decode.
decode(src) ==
    IF Len(src) < HEADER_LEN THEN Err("Truncated")
    ELSE IF <<src[1], src[2]>> # MAGIC THEN Err("BadMagic")
    ELSE IF src[3] # VERSION THEN Err("BadVersion")
    ELSE IF from_u8(src[9]) = NoAlgo THEN Err("UnknownAlgo")
    ELSE Ok([version   |-> src[3],
             flags     |-> src[4],
             key_id    |-> from_be_bytes(src[5], src[6], src[7], src[8]),
             algo      |-> from_u8(src[9]),
             nonce_len |-> src[10]])

-----------------------------------------------------------------------------
(* seal and open.  An error of the provider passes through `?` unchanged.  *)

\* Mutated form: only magic, version and flags are authenticated.
hdr_buf_first_word(hdr) == SubSeq(hdr, 1, 4)

\* Mutated form: the reserved bytes are not authenticated.
hdr_buf_no_reserved(hdr) == SubSeq(hdr, 1, 10)

\* hdr_buf, the bytes that seal and open feed to the AEAD as associated data:
\* a copy of the whole header.
hdr_buf(hdr) == hdr

wire_seal(p, key, key_id, nonce, flags, pt, out_len) ==
    LET need == frame_len(pt.len, nonce.len, tag_len(p.algo))
        hdr  == encode([version |-> VERSION, flags |-> flags,
                        key_id |-> key_id, algo |-> p.algo,
                        nonce_len |-> nonce.len])
        body == provider_seal(p, key, nonce, hdr_buf(hdr), pt,
                              pt.len + tag_len(p.algo))
    IN  IF nonce.len # nonce_len(p.algo) THEN Err("NonceLenMismatch")
        ELSE IF out_len < need THEN Err("OutputTooSmall")
        ELSE IF ~body.ok THEN body
        ELSE Ok([hdr |-> hdr, nonce |-> nonce, body |-> body.val])

\* Mutated form: a frame of an empty plaintext is too short.
body_too_short_or_empty(frame, nlen, tlen) ==
    length(frame) <= HEADER_LEN + nlen + tlen

\* The frame does not even hold the nonce and a tag.
body_too_short(frame, nlen, tlen) == length(frame) < HEADER_LEN + nlen + tlen

wire_open(p, key, frame, out_len) ==
    LET header == decode(frame.hdr)
        algo   == header.val.algo
    IN  IF ~header.ok THEN header
        ELSE IF algo # p.algo THEN Err("AlgorithmMismatch")
        ELSE IF header.val.nonce_len # nonce_len(algo)
             THEN Err("NonceLenMismatch")
        ELSE IF body_too_short(frame, header.val.nonce_len, tag_len(algo))
             THEN Err("BodyTooShort")
        ELSE IF out_len < frame.body.len - tag_len(algo)
             THEN Err("OutputTooSmall")
        ELSE provider_open(p, key, frame.nonce, hdr_buf(frame.hdr),
                           frame.body, out_len)

\* What is left of a frame of which only the first n bytes arrive.
prefix(frame, n) ==
    LET h == Len(frame.hdr)
        m == frame.nonce.len
    IN  [hdr   |-> SubSeq(frame.hdr, 1, IF n < h THEN n ELSE h),
         nonce |-> [frame.nonce EXCEPT !.len =
                        IF n <= h THEN 0
                        ELSE IF n - h < m THEN n - h ELSE m],
         body  |-> [frame.body EXCEPT
                        !.len = IF n <= h + m THEN 0 ELSE n - h - m,
                        !.intact = FALSE]]
=============================================================================
