------------------------------ MODULE AcmLink ------------------------------
(***************************************************************************)
(* Two peers that exchange ACM frames over a channel that nobody protects. *)
(* One peer calls acm_wire::seal, the channel delivers, corrupts, cuts,    *)
(* extends or recombines what was sealed, the other calls acm_wire::open.  *)
(* Each peer may use either provider and any key handle it holds.          *)
(***************************************************************************)
EXTENDS AcmWire, FiniteSets

CONSTANTS
    Handles,    \* the key handles that KeyHandle::new produced for the peers
    Nonces,     \* nonces, of right and of wrong length
    Flags,      \* values of the flags byte
    Bytes,      \* the values a corrupted header byte takes
    Cuts,       \* the lengths at which the channel may cut a frame
    NoFrame,    \* nothing is in transit
    Batches     \* what a sender may be asked to seal: [key_ids, texts, max],
                \* where max bounds how many frames it seals

ASSUME LinkAssumption ==
    /\ \A k \in Handles : /\ k \in KeyHandle({k.material.val})
                          /\ KeyHandle_new(k.id, k.algo, k.material).ok
    /\ \A n \in Nonces : n \in Blob({n.val})
    /\ \A b \in Batches : /\ b.max \in Nat
                          /\ \A id \in b.key_ids : IsU32(id)
                          /\ \A t \in b.texts : t \in Blob({t.val})
    /\ Flags \subseteq Byte /\ Bytes \subseteq Byte /\ Cuts \subseteq Nat

VARIABLES
    batch,      \* the batch that the sender works on
    sealed,     \* what the sender sealed: [frame, key, key_id, flags, pt]
    transit,    \* the frame on the channel, or NoFrame
    last        \* the last call of open: [frame, p, key, out_len, res]

vars == <<batch, sealed, transit, last>>

Providers == {Provider_new(kind, algo).val :
                 kind \in ProviderKind, algo \in ProviderAlgo}

\* A peer may have called KeyHandle::wipe on a handle it still holds.
HeldHandles == Handles \cup {wipe(k) : k \in Handles}

NoCall == [frame |-> NoFrame]

Init == /\ batch \in Batches
        /\ sealed = {}
        /\ transit = NoFrame
        /\ last = NoCall

-----------------------------------------------------------------------------
(* The sender.  `slack` is how much longer the output buffer is than       *)
(* frame_len; a call of seal that fails leaves nothing behind.             *)

Seal(p, key, key_id, nonce, flags, pt, slack) ==
    LET need  == frame_len(pt.len, nonce.len, tag_len(p.algo))
        frame == wire_seal(p, key, key_id, nonce, flags, pt, need + slack)
    IN  /\ frame.ok
        /\ sealed' = sealed \cup {[frame |-> frame.val, key |-> key,
                                   key_id |-> key_id, flags |-> flags,
                                   pt |-> pt]}
        /\ UNCHANGED <<batch, transit, last>>

-----------------------------------------------------------------------------
(* The channel (external).                                                 *)

Send(frame) == /\ transit = NoFrame
               /\ last = NoCall
               /\ transit' = frame
               /\ UNCHANGED <<batch, sealed, last>>

Deliver == \E s \in sealed : Send(s.frame)

CorruptHeader ==
    \E s \in sealed, i \in 1 .. HEADER_LEN, b \in Bytes :
        /\ s.frame.hdr[i] # b
        /\ Send([s.frame EXCEPT !.hdr = [s.frame.hdr EXCEPT ![i] = b]])

CorruptNonce ==
    \E s \in sealed, n \in Nonces :
        /\ n.len = s.frame.nonce.len
        /\ n # s.frame.nonce
        /\ Send([s.frame EXCEPT !.nonce = n])

CorruptBody ==
    \E s \in sealed :
        Send([s.frame EXCEPT !.body = [s.frame.body EXCEPT !.intact = FALSE]])

Truncate ==
    \E s \in sealed, n \in Cuts :
        /\ n < length(s.frame)
        /\ Send(prefix(s.frame, n))

Extend ==
    \E s \in sealed :
        Send([s.frame EXCEPT !.body = [s.frame.body EXCEPT !.intact = FALSE,
                                                           !.len = @ + 1]])

\* The header, nonce and body of different frames put together.
Splice ==
    \E s, t, u \in sealed :
        /\ Cardinality({s, t, u}) > 1
        /\ Send([hdr |-> s.frame.hdr, nonce |-> t.frame.nonce,
                 body |-> u.frame.body])

-----------------------------------------------------------------------------
(* The receiver, with an output buffer of out_len bytes.                   *)

Open(p, key, out_len) ==
    /\ transit # NoFrame
    /\ last' = [frame |-> transit, p |-> p, key |-> key, out_len |-> out_len,
                res |-> wire_open(p, key, transit, out_len)]
    /\ transit' = NoFrame
    /\ UNCHANGED <<batch, sealed>>

\* The daemon's out buffer is as long as the frame; other callers may pass
\* exactly the plaintext length, or one byte less.
OutLens == {length(transit)} \cup
           {n \in {transit.body.len - 16, transit.body.len - 17} : n >= 0}

\* The receiver's caller is done with the outcome and reads the next frame.
Return == /\ last # NoCall
          /\ last' = NoCall
          /\ UNCHANGED <<batch, sealed, transit>>

Next ==
    \/ /\ Cardinality(sealed) < batch.max
       /\ \E p \in Providers, key \in HeldHandles, key_id \in batch.key_ids,
             nonce \in Nonces, flags \in Flags, pt \in batch.texts, slack \in {-1, 0} :
               Seal(p, key, key_id, nonce, flags, pt, slack)
    \/ Deliver \/ CorruptHeader \/ CorruptNonce \/ CorruptBody
    \/ Truncate \/ Extend \/ Splice
    \/ /\ transit # NoFrame
       /\ \E p \in Providers, key \in HeldHandles, out_len \in OutLens :
            Open(p, key, out_len)
    \/ Return

Spec == Init /\ [][Next]_vars

-----------------------------------------------------------------------------
(* Properties                                                              *)

Opened == last # NoCall

\* The log and the last call have the shape the actions give them; in
\* particular nothing was ever sealed with a handle after KeyHandle::wipe.
TypeOK ==
    /\ batch \in Batches
    /\ Cardinality(sealed) <= batch.max
    /\ \A s \in sealed : /\ s.key \in Handles
                         /\ s.key_id \in batch.key_ids
                         /\ s.pt \in batch.texts
    /\ Opened => last.p \in Provider /\ last.key \in HeldHandles

\* acm_wire::open hands out a plaintext only for a frame that was sealed,
\* byte for byte, under the very key material the receiver used, and the
\* plaintext is the sealed one: no header field can be rewritten, and header,
\* nonce and body of two frames cannot be mixed.
Authentic ==
    Opened /\ last.res.ok =>
        \E s \in sealed : /\ s.frame = last.frame
                          /\ s.key.material = last.key.material
                          /\ s.pt = last.res.val

\* What any provider sealed, the same handle opens with either provider of
\* that algorithm, the empty plaintext included, if the buffer has the length
\* that the documentation of open asks for.
RoundTrip ==
    \A s \in sealed :
        Opened /\ last.frame = s.frame /\ last.key = s.key
               /\ last.p.algo = s.key.algo /\ last.out_len >= s.pt.len
        => last.res = Ok(s.pt)

\* The two implementations of CryptoProvider are interchangeable behind
\* acm_wire::open: same plaintext, same error, for every frame, every handle
\* (wiped ones too) and every buffer.
ProvidersAgree ==
    Opened =>
        \A kind \in ProviderKind :
            wire_open([last.p EXCEPT !.kind = kind], last.key, last.frame,
                      last.out_len) = last.res

\* A peer can route by the header without decrypting: it shows the key id,
\* the flags and the algorithm of the key it was sealed with, for key ids on
\* both sides of every byte boundary; and the frame has exactly the length
\* that frame_len promised when its buffer was allocated.
HeaderTellsTheTruth ==
    \A s \in sealed :
        /\ decode(s.frame.hdr) =
             Ok([version |-> VERSION, flags |-> s.flags, key_id |-> s.key_id,
                 algo |-> s.key.algo, nonce_len |-> s.frame.nonce.len])
        /\ length(s.frame) = frame_len(s.pt.len, s.frame.nonce.len,
                                       tag_len(s.key.algo))
=============================================================================
