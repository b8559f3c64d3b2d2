--------------------------- MODULE CryptodProofs ---------------------------
(***************************************************************************)
(* Proofs about Cryptod for any number of connections, any mix of methods, *)
(* any keys, nonces and plaintexts, and any bounds.                        *)
(***************************************************************************)
EXTENDS Cryptod, AcmWireProofs, SequenceTheorems

-----------------------------------------------------------------------------
(* Facts about the operators                                               *)

\* A served key names one of the two algorithms the daemon has a provider for.
LEMMA ServedKeyFields ==
    ASSUME NEW k \in ServedKey
    PROVE  /\ k.algo \in ProviderAlgo
           /\ k.material.len = key_len(k.algo)
           /\ k.id \in Nat /\ IsU32(k.id)
           /\ k # NoKey
  BY CryptodAssumption DEF ServedKey, KeyHandle

\* AesGcmRingProvider::new succeeds for these two algorithms.
LEMMA NewProvider ==
    ASSUME NEW algo \in ProviderAlgo
    PROVE  Provider_new("ring", algo).val = [kind |-> "ring", algo |-> algo]
  BY DEF Provider_new, Ok

\* If rotate_key gets as far as its assignments, the new key is the requested
\* one and the daemon can serve it.
LEMMA RotateOutcome ==
    ASSUME NEW p \in RotateParams, rotate_outcome(p).ok
    PROVE  /\ rotate_outcome(p).val = [id |-> p.key_id, algo |-> from_u8(p.algo),
                                       material |-> p.material]
           /\ rotate_outcome(p).val \in ServedKey
  <1> DEFINE algo == from_u8(p.algo)
             k    == [id |-> p.key_id, algo |-> algo, material |-> p.material]
  <1>1. p.key_id \in Nat /\ IsU32(p.key_id) /\ p.material \in Blob(Secret)
    BY CryptodAssumption DEF IsU32
  <1>2. rotate_outcome(p) = KeyHandle_new(p.key_id, algo, p.material)
    BY DEF rotate_outcome, Err
  <1>3. algo \in ProviderAlgo
    BY DEF rotate_outcome, Provider_new, Err
  <1>4. p.material.len = key_len(algo) /\ rotate_outcome(p) = Ok(k)
    BY <1>2 DEF KeyHandle_new, Err
  <1>5. k \in ServedKey
    BY <1>1, <1>3, <1>4 DEF ServedKey, KeyHandle, ProviderAlgo, AlgoId
  <1> QED
    BY <1>4, <1>5 DEF Ok

\* What a provider seals under a usable key it opens again.
LEMMA ProviderRoundTrip ==
    ASSUME NEW p \in Provider, NEW k, k.algo = p.algo,
           k.material.len = key_len(p.algo),
           NEW nonce, nonce.len = nonce_len(p.algo),
           NEW pt, NEW n \in Nat, pt.len = n
    PROVE  LET sealed == provider_seal(p, k, nonce, <<>>, pt, n + tag_len(p.algo))
           IN  /\ sealed.ok
               /\ provider_open(p, k, nonce, <<>>, sealed.val, n) = Ok(pt)
  <1> DEFINE sealed == provider_seal(p, k, nonce, <<>>, pt, n + tag_len(p.algo))
  <1>1. sealed.ok /\ sealed = Ok(aead_seal(k.material, nonce, <<>>, pt, tag_len(p.algo)))
    BY ProviderSeal DEF tag_len
  <1>2. sealed.val = aead_seal(k.material, nonce, <<>>, pt, tag_len(p.algo))
    BY <1>1 DEF Ok
  <1>3. /\ sealed.val.len = n + tag_len(p.algo) /\ sealed.val.pt = pt
        /\ aead_opens(k.material, nonce, <<>>, sealed.val)
    BY <1>2 DEF aead_seal, aead_opens
  <1>4. \A body : /\ body.len = n + tag_len(p.algo) /\ body.pt = pt
                  /\ aead_opens(k.material, nonce, <<>>, body)
                  => provider_open(p, k, nonce, <<>>, body, n) = Ok(pt)
    BY ProviderOpen DEF tag_len
  <1> QED
    BY <1>1, <1>3, <1>4

\* The self-test passes for every provider and every key of its algorithm and
\* of the right length.
LEMMA SelfTestPasses ==
    ASSUME NEW p \in Provider, NEW k, k.algo = p.algo,
           k.material.len = key_len(p.algo)
    PROVE  self_test(p, k)
  <1> DEFINE nonce == [len |-> nonce_len(p.algo), val |-> "zeros"]
             pt    == [len |-> 16, val |-> "acm-uz-self-test"]
  <1>1. nonce.len = nonce_len(p.algo) /\ pt.len = 16
    OBVIOUS
  <1> HIDE DEF nonce, pt
  <1>2. LET sealed == provider_seal(p, k, nonce, <<>>, pt, 16 + tag_len(p.algo))
        IN  /\ sealed.ok
            /\ provider_open(p, k, nonce, <<>>, sealed.val, 16) = Ok(pt)
    BY <1>1, ProviderRoundTrip
  <1> QED
    BY <1>1, <1>2 DEF self_test, nonce, pt

\* What rotate_key decides, in a line: a key is accepted if and only if its
\* algorithm is implemented and its material has the right length; otherwise
\* the answer is 501 for the algorithm without an implementation and 422 for
\* everything else.  The two branches that answer 500 are dead: no key gets
\* past the checks before them and fails to construct a provider or fails the
\* self-test.
THEOREM RotateVerdict ==
    ASSUME NEW p
    PROVE  LET algo == from_u8(p.algo)
           IN  rotate_outcome(p) =
                 IF algo \in ProviderAlgo /\ p.material.len = key_len(algo)
                 THEN Ok([id |-> p.key_id, algo |-> algo, material |-> p.material])
                 ELSE Err(IF algo = "OzDst1105" THEN 501 ELSE 422)
  <1> DEFINE algo == from_u8(p.algo)
             k    == [id |-> p.key_id, algo |-> algo, material |-> p.material]
             q    == [kind |-> "ring", algo |-> algo]
  <1>1. algo \in AlgoId \cup {NoAlgo}
    BY DEF from_u8, AlgoId, NoAlgo
  <1>2. CASE algo \notin ProviderAlgo
    BY <1>1, <1>2 DEF rotate_outcome, AlgoId, NoAlgo, ProviderAlgo
  <1>3. CASE algo \in ProviderAlgo /\ p.material.len # key_len(algo)
    <2>1. algo # NoAlgo /\ algo # "OzDst1105"
      BY <1>3 DEF ProviderAlgo, NoAlgo
    <2>2. /\ Provider_new("ring", algo).ok
          /\ ~KeyHandle_new(p.key_id, algo, p.material).ok
      BY <1>3 DEF Provider_new, KeyHandle_new, Ok, Err
    <2> QED
      BY <1>3, <2>1, <2>2 DEF rotate_outcome
  <1>4. CASE algo \in ProviderAlgo /\ p.material.len = key_len(algo)
    <2>1. q \in Provider /\ k.algo = q.algo /\ k.material.len = key_len(q.algo)
      BY <1>4 DEF Provider, ProviderKind
    <2>2. self_test(q, k)
      BY <2>1, SelfTestPasses
    <2>3. /\ Provider_new("ring", algo) = Ok(q)
          /\ KeyHandle_new(p.key_id, algo, p.material) = Ok(k)
      BY <1>4 DEF Provider_new, KeyHandle_new
    <2>4. algo # NoAlgo /\ algo # "OzDst1105"
      BY <1>4 DEF ProviderAlgo, NoAlgo
    <2> QED
      BY <1>4, <2>2, <2>3, <2>4 DEF rotate_outcome, Ok
  <1> QED
    BY <1>2, <1>3, <1>4

\* acm-cryptod --bench never stops at an error, for any block sizes.
THEOREM BenchCompletes ==
    ASSUME NEW sizes \in SUBSET Nat
    PROVE  run_bench(sizes)
  <1> SUFFICES ASSUME NEW algo \in ProviderAlgo, NEW kind \in ProviderKind,
                      NEW size \in sizes
               PROVE  /\ Provider_new(kind, algo).ok
                      /\ bench_one(Provider_new(kind, algo).val, size)
    BY DEF run_bench
  <1> DEFINE p == [kind |-> kind, algo |-> algo]
             k == [id |-> 0, algo |-> algo, material |-> zeros(key_len(algo))]
  <1>1. /\ Provider_new(kind, algo) = Ok(p)
        /\ KeyHandle_new(0, algo, zeros(key_len(algo))) = Ok(k)
    BY DEF Provider_new, KeyHandle_new, zeros
  <1>2. /\ p \in Provider /\ p.algo = algo
        /\ k.algo = p.algo /\ k.material.len = key_len(p.algo)
    BY DEF Provider, zeros
  <1>3. zeros(size).len = size /\ zeros(nonce_len(algo)).len = nonce_len(algo)
    BY DEF zeros
  <1> HIDE DEF p, k
  <1>4. LET sealed == provider_seal(p, k, zeros(nonce_len(algo)), <<>>, zeros(size),
                                    size + tag_len(algo))
        IN  /\ sealed.ok
            /\ provider_open(p, k, zeros(nonce_len(algo)), <<>>, sealed.val, size) =
                 Ok(zeros(size))
    BY <1>2, <1>3, ProviderRoundTrip
  <1> QED
    BY <1>1, <1>2, <1>4 DEF bench_one, Ok

\* The requests a client may send, by method.
LEMMA RequestKinds ==
    ASSUME NEW c \in Conn, NEW r \in Requests(c)
    PROVE  /\ r.method \in {"get_status", "set_policy", "rotate_key", "encrypt",
                            "decrypt"}
           /\ r.method \in Sends[c]
           /\ r.method = "rotate_key" => r.params \in RotateParams
           /\ r.method = "encrypt" => r.params \in EncryptParams
  BY DEF Requests

\* Where serve_connection dispatches them to.
LEMMA EntryLabels ==
    /\ entry("get_status") = "status_algo"
    /\ entry("set_policy") = "policy"
    /\ entry("rotate_key") = "rotate"
    /\ entry("encrypt") = "enc_key"
    /\ entry("decrypt") = "dec_key"
  BY DEF entry

-----------------------------------------------------------------------------
(* Type correctness.  TypeOK is not inductive: that the key a task assigns *)
(* is a served one depends on the request it validated, and that the clone *)
(* in use is a key at all on the label the task has reached.               *)

Rotating   == {"rotate", "set_provider", "set_algo", "set_key"}
HoldsKey   == {"set_provider", "set_algo", "set_key", "enc_provider", "dec_provider"}
Encrypting == {"enc_key", "enc_provider"}

Domains == DOMAIN req = Conn /\ DOMAIN resp = Conn /\ DOMAIN before = Conn

ServesRequest ==
    \A c \in Conn :
        /\ pc[c] \in Handling \ {"write"} =>
                (pc[c] \in Rotating <=> req[c].method = "rotate_key")
        /\ pc[c] \in Encrypting => req[c].method = "encrypt"
        /\ pc[c] \in Handling /\ req[c].method = "rotate_key" =>
                c \in Rotators /\ req[c].params \in RotateParams
        /\ pc[c] \in Handling /\ req[c].method = "encrypt" =>
                req[c].params \in EncryptParams

HasKey == \A c \in Conn : pc[c] \in HoldsKey => key[c] \in ServedKey

TypeInv == TypeOK /\ Domains /\ ServesRequest /\ HasKey

\* A new daemon satisfies the strengthened type invariant.
LEMMA TypeInit == Init => TypeInv
  <1> SUFFICES ASSUME Init PROVE TypeInv
    OBVIOUS
  <1>1. DefaultProvider = [kind |-> "ring", algo |-> "Aes256Gcm"]
    BY NewProvider DEF DefaultProvider, ProviderAlgo
  <1>2. TypeOK
    BY <1>1, CryptodAssumption DEF Init, TypeOK, ProviderAlgo
  <1>3. Domains /\ ServesRequest /\ HasKey
    BY DEF Init, Domains, ServesRequest, HasKey, Rotating, Encrypting, Handling,
           HoldsKey
  <1> QED
    BY <1>2, <1>3 DEF TypeInv

\* Every step of the daemon and of its clients keeps the types.
LEMMA TypeStep == TypeInv /\ [Next]_vars => TypeInv'
  <1> SUFFICES ASSUME TypeInv, [Next]_vars
               PROVE  TypeInv'
    OBVIOUS
  <1> USE DEF TypeInv, slot, counters, locals, history, bounds
  <1>1. CASE UNCHANGED vars
    BY <1>1 DEF vars, TypeOK, Domains, ServesRequest, HasKey
  <1>2. CASE Restart
    <2>1. DefaultProvider = [kind |-> "ring", algo |-> "Aes256Gcm"]
      BY NewProvider DEF DefaultProvider, ProviderAlgo
    <2>2. TypeOK'
      BY <1>2, <2>1, CryptodAssumption DEF Restart, TypeOK, ProviderAlgo
    <2>3. (Domains /\ ServesRequest /\ HasKey)'
      BY <1>2 DEF Restart, Domains, ServesRequest, HasKey, Rotating, Encrypting,
                  Handling, HoldsKey
    <2> QED
      BY <2>2, <2>3
  <1>3. ASSUME NEW c \in Conn, NEW r \in Requests(c), ReadRequest(c, r)
        PROVE  TypeInv'
    <2>1. /\ entry(r.method) \in Handling \ {"write"}
          /\ entry(r.method) \notin HoldsKey
          /\ entry(r.method) \in Rotating <=> r.method = "rotate_key"
          /\ entry(r.method) \in Encrypting => r.method = "encrypt"
      BY RequestKinds, EntryLabels DEF Handling, HoldsKey, Rotating, Encrypting
    <2>2. TypeOK'
      BY <1>3, <2>1, CryptodAssumption DEF ReadRequest, Goto, TypeOK
    <2>3. Domains'
      BY <1>3 DEF ReadRequest, Domains
    <2>4. ServesRequest'
      BY <1>3, <2>1, RequestKinds DEF ReadRequest, Goto, TypeOK, Domains,
                                      ServesRequest, Rotators
    <2>5. HasKey'
      BY <1>3, <2>1 DEF ReadRequest, Goto, TypeOK, HasKey
    <2> QED
      BY <2>2, <2>3, <2>4, <2>5
  <1>4. ASSUME NEW c \in Conn, RotateValidate(c)
        PROVE  TypeInv'
    <2>1. req[c].params \in RotateParams /\ pc[c] = "rotate"
      BY <1>4 DEF RotateValidate, ServesRequest, Rotating, Handling
    <2>2. rotate_outcome(req[c].params).ok =>
              rotate_outcome(req[c].params).val \in ServedKey
      BY <2>1, RotateOutcome
    <2> QED
      BY <1>4, <2>1, <2>2 DEF RotateValidate, Respond, Goto, TypeOK, Domains,
           ServesRequest, HasKey, Rotating, Encrypting, Handling, HoldsKey
  <1>5. ASSUME NEW c \in Conn, Accept(c)
        PROVE  TypeInv'
    BY <1>5 DEF Accept, Goto, TypeOK, Domains,
         ServesRequest, HasKey, Rotating, Encrypting, Handling, HoldsKey
  <1>6. ASSUME NEW c \in Conn, ClientClose(c)
        PROVE  TypeInv'
    BY <1>6 DEF ClientClose, Goto, TypeOK, Domains,
         ServesRequest, HasKey, Rotating, Encrypting, Handling, HoldsKey
  <1>7. ASSUME NEW c \in Conn, ReadEof(c)
        PROVE  TypeInv'
    BY <1>7 DEF ReadEof, Goto, TypeOK, Domains,
         ServesRequest, HasKey, Rotating, Encrypting, Handling, HoldsKey
  <1>8. ASSUME NEW c \in Conn, ReadGarbage(c)
        PROVE  TypeInv'
    BY <1>8, CryptodAssumption DEF ReadGarbage, NoReq, Respond, Goto, TypeOK, Domains,
         ServesRequest, HasKey, Rotating, Encrypting, Handling, HoldsKey
  <1>9. ASSUME NEW c \in Conn, WriteResponse(c)
        PROVE  TypeInv'
    BY <1>9 DEF WriteResponse, Goto, TypeOK, Domains,
         ServesRequest, HasKey, Rotating, Encrypting, Handling, HoldsKey
  <1>10. ASSUME NEW c \in Conn, StatusAlgo(c)
        PROVE  TypeInv'
    BY <1>10 DEF StatusAlgo, Goto, TypeOK, Domains,
         ServesRequest, HasKey, Rotating, Encrypting, Handling, HoldsKey
  <1>11. ASSUME NEW c \in Conn, StatusKey(c)
        PROVE  TypeInv'
    BY <1>11 DEF StatusKey, Goto, TypeOK, Domains,
         ServesRequest, HasKey, Rotating, Encrypting, Handling, HoldsKey
  <1>12. ASSUME NEW c \in Conn, StatusSealed(c)
        PROVE  TypeInv'
    BY <1>12 DEF StatusSealed, Goto, TypeOK, Domains,
         ServesRequest, HasKey, Rotating, Encrypting, Handling, HoldsKey
  <1>13. ASSUME NEW c \in Conn, StatusOpened(c)
        PROVE  TypeInv'
    BY <1>13 DEF StatusOpened, Goto, TypeOK, Domains,
         ServesRequest, HasKey, Rotating, Encrypting, Handling, HoldsKey
  <1>14. ASSUME NEW c \in Conn, StatusErrors(c)
        PROVE  TypeInv'
    BY <1>14 DEF StatusErrors, Respond, Goto, TypeOK, Domains,
         ServesRequest, HasKey, Rotating, Encrypting, Handling, HoldsKey
  <1>15. ASSUME NEW c \in Conn, RotateSetProvider(c)
        PROVE  TypeInv'
    <2>1. key[c] \in ServedKey
      BY <1>15 DEF RotateSetProvider, HasKey, HoldsKey
    <2>2. key[c].algo \in ProviderAlgo
      BY <2>1, ServedKeyFields
    <2>3. provider' = [kind |-> "ring", algo |-> key[c].algo]
      BY <1>15, <2>2, NewProvider DEF RotateSetProvider
    <2>4. provider' \in [kind : {"ring"}, algo : ProviderAlgo]
      BY <2>2, <2>3
    <2> QED
      BY <1>15, <2>4 DEF RotateSetProvider, Goto, TypeOK, Domains,
           ServesRequest, HasKey, Rotating, Encrypting, Handling, HoldsKey
  <1>16. ASSUME NEW c \in Conn, RotateSetAlgo(c)
        PROVE  TypeInv'
    BY <1>16, ServedKeyFields DEF RotateSetAlgo, Goto, TypeOK, Domains,
         ServesRequest, HasKey, Rotating, Encrypting, Handling, HoldsKey
  <1>17. ASSUME NEW c \in Conn, RotateSetKey(c)
        PROVE  TypeInv'
    BY <1>17 DEF RotateSetKey, Respond, Goto, TypeOK, Domains,
         ServesRequest, HasKey, Rotating, Encrypting, Handling, HoldsKey
  <1>18. ASSUME NEW c \in Conn, SetPolicy(c)
        PROVE  TypeInv'
    BY <1>18 DEF SetPolicy, Respond, Goto, TypeOK, Domains,
         ServesRequest, HasKey, Rotating, Encrypting, Handling, HoldsKey
  <1>19. ASSUME NEW c \in Conn, EncryptKey(c)
        PROVE  TypeInv'
    BY <1>19 DEF EncryptKey, CloneKey, Respond, Goto, TypeOK, Domains,
         ServesRequest, HasKey, Rotating, Encrypting, Handling, HoldsKey
  <1>20. ASSUME NEW c \in Conn, EncryptSeal(c)
        PROVE  TypeInv'
    BY <1>20 DEF EncryptSeal, Respond, Goto, TypeOK, Domains,
         ServesRequest, HasKey, Rotating, Encrypting, Handling, HoldsKey
  <1>21. ASSUME NEW c \in Conn, DecryptKey(c)
        PROVE  TypeInv'
    BY <1>21 DEF DecryptKey, CloneKey, Respond, Goto, TypeOK, Domains,
         ServesRequest, HasKey, Rotating, Encrypting, Handling, HoldsKey
  <1>22. ASSUME NEW c \in Conn, DecryptOpen(c)
        PROVE  TypeInv'
    BY <1>22 DEF DecryptOpen, Respond, Goto, TypeOK, Domains,
         ServesRequest, HasKey, Rotating, Encrypting, Handling, HoldsKey
  <1> QED
    BY <1>1, <1>2, <1>3, <1>4, <1>5, <1>6, <1>7, <1>8, <1>9, <1>10,
       <1>11, <1>12, <1>13, <1>14, <1>15, <1>16, <1>17, <1>18, <1>19, <1>20, <1>21, <1>22 DEF Next

\* The state behind the socket is well formed in every reachable state: a
\* mounted ring AES provider, and no key that its algorithm cannot use.
THEOREM TypeCorrect == Spec => []TypeOK
  <1>1. TypeInv => TypeOK
    BY DEF TypeInv
  <1> QED
    BY <1>1, TypeInit, TypeStep, PTL DEF Spec

-----------------------------------------------------------------------------
(* Every frame names its key.  The invariant follows a handle from         *)
(* active_key to the clone of a handler, to its answer, to the client.     *)

ActiveInstalled == active_key # NoKey => active_key \in installed

CloneInstalled == \A c \in Conn : pc[c] = "enc_provider" => key[c] \in installed

AnswersNameTheirKey ==
    \A c \in Conn : pc[c] = "write" /\ resp[c].kind = "ciphertext" =>
        \E k \in installed : SealedUnder(resp[c].frame, req[c].params, k)

FramesInv == /\ ActiveInstalled
             /\ CloneInstalled
             /\ AnswersNameTheirKey
             /\ FramesNameTheirKey

\* The heart of the matter: acm_wire::seal succeeds only if the cloned key
\* and the provider mounted now have one algorithm, and then the header shows
\* the clone's id and algorithm, even if the provider changed in between.
LEMMA EncryptSealsUnderClone ==
    ASSUME NEW p \in [kind : {"ring"}, algo : ProviderAlgo], NEW k \in ServedKey,
           NEW params \in EncryptParams, NEW out_len \in Int,
           wire_seal(p, k, k.id, params.nonce, 0, params.plaintext, out_len).ok
    PROVE  SealedUnder(wire_seal(p, k, k.id, params.nonce, 0, params.plaintext,
                                 out_len).val, params, k)
  <1> DEFINE nonce == params.nonce
             hdr   == SealedHeader(p, k.id, nonce, 0)
             f     == wire_seal(p, k, k.id, nonce, 0, params.plaintext, out_len).val
  <1>1. p \in Provider
    BY DEF Provider, ProviderKind
  <1>2. nonce.len \in Nat /\ params.plaintext.len \in Nat
    BY CryptodAssumption DEF Blob
  <1>3. /\ k.algo = p.algo
        /\ nonce.len = nonce_len(p.algo)
        /\ f = [hdr |-> hdr, nonce |-> nonce,
                body |-> aead_seal(k.material, nonce, hdr, params.plaintext,
                                   tag_len(p.algo))]
    BY <1>1, <1>2, WireSeal DEF Ok
  <1>4. k.id \in Nat /\ IsU32(k.id) /\ 0 \in Byte
    BY ServedKeyFields DEF Byte
  <1>5. decode(hdr) = Ok([version |-> VERSION, flags |-> 0, key_id |-> k.id,
                          algo |-> p.algo, nonce_len |-> nonce_len(p.algo)])
    BY <1>1, <1>3, <1>4, SealedHeaderDecodes
  <1> HIDE DEF hdr, f
  <1> QED
    BY <1>3, <1>5 DEF SealedUnder, f

\* No step breaks the way of a handle from active_key to the frames sealed
\* under it.
LEMMA FramesStep == TypeInv /\ FramesInv /\ [Next]_vars => FramesInv'
  <1> SUFFICES ASSUME TypeInv, FramesInv, [Next]_vars
               PROVE  FramesInv'
    OBVIOUS
  <1> USE DEF TypeInv, FramesInv, ActiveInstalled, CloneInstalled,
              AnswersNameTheirKey, FramesNameTheirKey,
              slot, counters, locals, history, bounds
  <1>1. CASE UNCHANGED vars
    BY <1>1 DEF vars
  <1>2. CASE Restart
    BY <1>2 DEF Restart
  <1>3. ASSUME NEW c \in Conn, NEW r \in Requests(c), ReadRequest(c, r)
        PROVE  FramesInv'
    <2>1. entry(r.method) \notin {"write", "enc_provider"}
      BY RequestKinds, EntryLabels
    <2> QED
      BY <1>3, <2>1 DEF ReadRequest, Goto, TypeOK, Domains
  <1>4. ASSUME NEW c \in Conn, EncryptSeal(c)
        PROVE  FramesInv'
    <2> DEFINE p     == req[c].params
               need  == frame_len(p.plaintext.len, p.nonce.len, tag_len(provider.algo))
               frame == wire_seal(provider, key[c], key[c].id, p.nonce, 0,
                                  p.plaintext, need)
    <2>1. /\ pc[c] = "enc_provider"
          /\ key[c] \in ServedKey /\ key[c] \in installed
          /\ p \in EncryptParams
      BY <1>4 DEF EncryptSeal, HasKey, HoldsKey, ServesRequest, Encrypting, Handling
    <2>2. need \in Int
      BY <2>1, CryptodAssumption DEF frame_len, HEADER_LEN, tag_len, Blob
    <2>3. provider \in [kind : {"ring"}, algo : ProviderAlgo]
      BY DEF TypeOK
    <2>4. frame.ok => SealedUnder(frame.val, p, key[c])
      BY <2>1, <2>2, <2>3, EncryptSealsUnderClone
    <2>5. /\ pc' = [pc EXCEPT ![c] = "write"]
          /\ UNCHANGED <<active_key, installed, emitted, key, req>>
          /\ \/ \E code \in {422, 500} : resp' = [resp EXCEPT ![c] = Error(code)]
             \/ frame.ok /\ resp' = [resp EXCEPT ![c] = Ciphertext(frame.val)]
      BY <1>4 DEF EncryptSeal, SealRequest, Respond, Goto
    <2> HIDE DEF frame, need, p
    <2>6. resp'[c].kind = "ciphertext" =>
              frame.ok /\ resp'[c].frame = frame.val
      BY <2>5 DEF Error, Ciphertext, Domains
    <2>7. AnswersNameTheirKey'
      BY <2>1, <2>4, <2>5, <2>6 DEF TypeOK, Domains, p
    <2>8. ActiveInstalled' /\ CloneInstalled' /\ FramesNameTheirKey'
      BY <2>5 DEF TypeOK
    <2> QED
      BY <2>7, <2>8
  <1>5. ASSUME NEW c \in Conn, WriteResponse(c)
        PROVE  FramesInv'
    <2>1. /\ pc[c] = "write"
          /\ \E l \in {"read", "closed"} : pc' = [pc EXCEPT ![c] = l]
          /\ req' = [req EXCEPT ![c] = NoReq]
          /\ resp' = [resp EXCEPT ![c] = NoResp]
          /\ key' = [key EXCEPT ![c] = NoKey]
          /\ UNCHANGED <<active_key, installed>>
      BY <1>5 DEF WriteResponse, Goto
    <2>2. \/ emitted' = emitted
          \/ /\ resp[c].kind = "ciphertext"
             /\ emitted' = emitted \cup {[frame |-> resp[c].frame,
                                          params |-> req[c].params]}
      BY <1>5 DEF WriteResponse
    <2>3. FramesNameTheirKey'
      BY <2>1, <2>2
    <2>4. ActiveInstalled' /\ CloneInstalled' /\ AnswersNameTheirKey'
      BY <2>1 DEF TypeOK, Domains
    <2> QED
      BY <2>3, <2>4
  <1>6. ASSUME NEW c \in Conn, Accept(c)
        PROVE  FramesInv'
    BY <1>6 DEF Accept, Goto, TypeOK, Domains
  <1>7. ASSUME NEW c \in Conn, ClientClose(c)
        PROVE  FramesInv'
    BY <1>7 DEF ClientClose, Goto, TypeOK, Domains
  <1>8. ASSUME NEW c \in Conn, ReadEof(c)
        PROVE  FramesInv'
    BY <1>8 DEF ReadEof, Goto, TypeOK, Domains
  <1>9. ASSUME NEW c \in Conn, ReadGarbage(c)
        PROVE  FramesInv'
    BY <1>9 DEF ReadGarbage, Respond, Error, Goto, TypeOK, Domains
  <1>10. ASSUME NEW c \in Conn, StatusAlgo(c)
        PROVE  FramesInv'
    BY <1>10 DEF StatusAlgo, Goto, TypeOK, Domains
  <1>11. ASSUME NEW c \in Conn, StatusKey(c)
        PROVE  FramesInv'
    BY <1>11 DEF StatusKey, Goto, TypeOK, Domains
  <1>12. ASSUME NEW c \in Conn, StatusSealed(c)
        PROVE  FramesInv'
    BY <1>12 DEF StatusSealed, Goto, TypeOK, Domains
  <1>13. ASSUME NEW c \in Conn, StatusOpened(c)
        PROVE  FramesInv'
    BY <1>13 DEF StatusOpened, Goto, TypeOK, Domains
  <1>14. ASSUME NEW c \in Conn, StatusErrors(c)
        PROVE  FramesInv'
    BY <1>14 DEF StatusErrors, Respond, Status, Goto, TypeOK, Domains
  <1>15. ASSUME NEW c \in Conn, RotateValidate(c)
        PROVE  FramesInv'
    BY <1>15 DEF RotateValidate, Respond, Error, Goto, TypeOK, Domains
  <1>16. ASSUME NEW c \in Conn, RotateSetProvider(c)
        PROVE  FramesInv'
    BY <1>16 DEF RotateSetProvider, Goto, TypeOK, Domains
  <1>17. ASSUME NEW c \in Conn, RotateSetAlgo(c)
        PROVE  FramesInv'
    BY <1>17 DEF RotateSetAlgo, Goto, TypeOK, Domains
  <1>18. ASSUME NEW c \in Conn, RotateSetKey(c)
        PROVE  FramesInv'
    BY <1>18 DEF RotateSetKey, Respond, OkResponse, Goto, TypeOK, Domains
  <1>19. ASSUME NEW c \in Conn, SetPolicy(c)
        PROVE  FramesInv'
    BY <1>19 DEF SetPolicy, Respond, OkResponse, Goto, TypeOK, Domains
  <1>20. ASSUME NEW c \in Conn, EncryptKey(c)
        PROVE  FramesInv'
    BY <1>20 DEF EncryptKey, CloneKey, Respond, Error, Goto, TypeOK, Domains
  <1>21. ASSUME NEW c \in Conn, DecryptKey(c)
        PROVE  FramesInv'
    BY <1>21 DEF DecryptKey, CloneKey, Respond, Error, Goto, TypeOK, Domains
  <1>22. ASSUME NEW c \in Conn, DecryptOpen(c)
        PROVE  FramesInv'
    BY <1>22 DEF DecryptOpen, Respond, Plaintext, Error, Goto, TypeOK, Domains
  <1> QED
    BY <1>1, <1>2, <1>3, <1>4, <1>5, <1>6, <1>7, <1>8, <1>9, <1>10,
       <1>11, <1>12, <1>13, <1>14, <1>15, <1>16, <1>17, <1>18, <1>19, <1>20, <1>21, <1>22 DEF Next

\* For any number of connections and any interleaving of rotations with
\* encryptions, no client ever holds a frame whose header names a key or an
\* algorithm other than the one it was sealed under.
THEOREM FramesCorrect == Spec => []FramesNameTheirKey
  <1>1. Init => FramesInv
    BY DEF Init, FramesInv, ActiveInstalled, CloneInstalled, AnswersNameTheirKey,
           FramesNameTheirKey
  <1>2. FramesInv => FramesNameTheirKey
    BY DEF FramesInv
  <1> QED
    BY <1>1, <1>2, TypeInit, TypeStep, FramesStep, PTL DEF Spec

-----------------------------------------------------------------------------
(* Rotation by one client at a time.  rotate_key assigns its three mutexes *)
(* one after the other, so what it has assigned so far is part of the      *)
(* invariant; that nobody else assigns in between needs the hypothesis.    *)

SingleRotator == \A c, d \in Rotators : c = d

Requested(p) == [id |-> p.key_id, algo |-> from_u8(p.algo), material |-> p.material]

SwapProgress ==
    \A c \in Conn :
        /\ pc[c] \in {"rotate", "set_provider"} => slot = before[c]
        /\ pc[c] \in {"set_provider", "set_algo", "set_key"} =>
                key[c] = Requested(req[c].params)
        /\ pc[c] \in {"set_algo", "set_key"} => provider.algo = key[c].algo
        /\ pc[c] = "set_key" => active_algo = key[c].algo

RotationInv == SwapProgress /\ QuiescentAgreement /\ RotationAllOrNothing

\* A step of a connection that touches neither the key slot nor a rotation.
LEMMA OtherStep ==
    ASSUME NEW c \in Conn, TypeInv, RotationInv,
           UNCHANGED slot,
           \A d \in Conn \ {c} : /\ pc'[d] = pc[d] /\ req'[d] = req[d]
                                 /\ key'[d] = key[d] /\ resp'[d] = resp[d]
                                 /\ before'[d] = before[d],
           pc[c] \notin Rotating, pc'[c] \notin Rotating,
           ~(pc'[c] = "write" /\ req'[c].method = "rotate_key")
    PROVE  RotationInv'
  <1>1. ~Swapping(c) /\ ~Swapping(c)'
    BY DEF Swapping, Rotating
  <1>2. QuiescentAgreement'
    BY <1>1 DEF RotationInv, QuiescentAgreement, Swapping, slot
  <1>3. SwapProgress'
    BY DEF RotationInv, SwapProgress, Rotating, slot
  <1>4. RotationAllOrNothing'
    BY DEF RotationInv, RotationAllOrNothing, slot
  <1> QED
    BY <1>2, <1>3, <1>4 DEF RotationInv

\* While one connection rotates, no other is rotating or about to answer a
\* rotation.
LEMMA OnlyRotator ==
    ASSUME SingleRotator, TypeInv, NEW c \in Conn, NEW d \in Conn \ {c},
           c \in Rotators
    PROVE  /\ pc[d] \notin Rotating
           /\ ~(pc[d] = "write" /\ req[d].method = "rotate_key")
  <1>1. d \notin Rotators
    BY DEF SingleRotator
  <1> QED
    BY <1>1 DEF TypeInv, ServesRequest, Rotating, Handling

\* With one rotator, no step breaks the progress of its swap.
LEMMA RotationStep ==
    ASSUME SingleRotator
    PROVE  TypeInv /\ RotationInv /\ [Next]_vars => RotationInv'
  <1> SUFFICES ASSUME TypeInv, RotationInv, [Next]_vars
               PROVE  RotationInv'
    OBVIOUS
  <1> USE DEF counters, locals, history, bounds
  <1>1. ASSUME UNCHANGED <<slot, pc, req, key, resp, before>>
        PROVE  RotationInv'
    BY <1>1 DEF RotationInv, SwapProgress, QuiescentAgreement,
                RotationAllOrNothing, Swapping, slot
  <1>2. CASE Restart
    <2>1. /\ pc' = [c \in Conn |-> "closed"]
          /\ provider'.algo = "Aes256Gcm"
          /\ active_algo' = "Aes256Gcm"
          /\ active_key' = NoKey
      BY <1>2, NewProvider DEF Restart, DefaultProvider, ProviderAlgo
    <2> QED
      BY <2>1 DEF RotationInv, SwapProgress, QuiescentAgreement,
                  RotationAllOrNothing, Swapping
  <1>3. ASSUME NEW c \in Conn, NEW r \in Requests(c), ReadRequest(c, r)
        PROVE  RotationInv'
    <2>1. /\ pc[c] = "read" /\ UNCHANGED slot
          /\ pc' = [pc EXCEPT ![c] = entry(r.method)]
          /\ req' = [req EXCEPT ![c] = r]
          /\ before' = [before EXCEPT ![c] = slot]
          /\ UNCHANGED <<key, resp>>
      BY <1>3 DEF ReadRequest, Goto
    <2>2. /\ pc'[c] = entry(r.method) /\ req'[c] = r /\ before'[c] = slot
          /\ \A d \in Conn \ {c} : /\ pc'[d] = pc[d] /\ req'[d] = req[d]
                                   /\ before'[d] = before[d]
      BY <2>1 DEF TypeInv, TypeOK, Domains
    <2>3. CASE r.method = "rotate_key"
      <3>1. pc'[c] = "rotate"
        BY <2>2, <2>3, EntryLabels
      <3> QED
        BY <2>1, <2>2, <3>1 DEF RotationInv, SwapProgress, QuiescentAgreement,
                                RotationAllOrNothing, Swapping, slot
    <2>4. CASE r.method # "rotate_key"
      <3>1. pc'[c] \notin Rotating /\ pc'[c] # "write"
        BY <2>2, <2>4, RequestKinds, EntryLabels DEF Rotating
      <3> QED
        BY <2>1, <2>2, <3>1, OtherStep DEF Rotating
    <2> QED
      BY <2>3, <2>4
  <1>4. ASSUME NEW c \in Conn, pc[c] \in Rotating
        PROVE  /\ c \in Rotators
               /\ req[c].method = "rotate_key" /\ req[c].params \in RotateParams
               /\ \A d \in Conn \ {c} :
                    /\ pc[d] \notin Rotating
                    /\ ~(pc[d] = "write" /\ req[d].method = "rotate_key")
    <2>1. /\ c \in Rotators
          /\ req[c].method = "rotate_key" /\ req[c].params \in RotateParams
      BY <1>4 DEF TypeInv, ServesRequest, Rotating, Handling
    <2> QED
      BY <2>1, OnlyRotator
  <1>5. ASSUME NEW c \in Conn, RotateValidate(c)
        PROVE  RotationInv'
    <2> DEFINE out == rotate_outcome(req[c].params)
    <2>1. pc[c] = "rotate" /\ pc[c] \in Rotating /\ UNCHANGED <<slot, req, before>>
      BY <1>5 DEF RotateValidate, Rotating
    <2>2. \/ /\ ~out.ok
             /\ resp' = [resp EXCEPT ![c] = Error(out.err)]
             /\ pc' = [pc EXCEPT ![c] = "write"]
             /\ UNCHANGED key
          \/ /\ out.ok
             /\ key' = [key EXCEPT ![c] = out.val]
             /\ pc' = [pc EXCEPT ![c] = "set_provider"]
             /\ UNCHANGED resp
      BY <1>5 DEF RotateValidate, Respond, Goto
    <2>3. out.ok => out.val = Requested(req[c].params)
      BY <1>4, <2>1, RotateOutcome DEF Requested
    <2> HIDE DEF out
    <2>4. SwapProgress'
      BY <2>1, <2>2, <2>3 DEF TypeInv, TypeOK, RotationInv, SwapProgress, slot
    <2>5. QuiescentAgreement'
      BY <2>1, <2>2 DEF TypeInv, TypeOK, RotationInv, QuiescentAgreement,
                        Swapping, slot
    <2>6. RotationAllOrNothing'
      <3>1. slot' = before'[c]
        BY <2>1 DEF RotationInv, SwapProgress, slot
      <3>2. pc'[c] = "write" => resp'[c].kind = "error"
        BY <2>1, <2>2 DEF TypeInv, TypeOK, Domains, Error
      <3>3. \A d \in Conn \ {c} : ~(pc'[d] = "write" /\ req'[d].method = "rotate_key")
        BY <1>4, <2>1, <2>2 DEF TypeInv, TypeOK
      <3> QED
        BY <3>1, <3>2, <3>3 DEF RotationAllOrNothing
    <2> QED
      BY <2>4, <2>5, <2>6 DEF RotationInv
  <1>6. ASSUME NEW c \in Conn, RotateSetProvider(c)
        PROVE  RotationInv'
    <2>1. /\ pc[c] = "set_provider" /\ pc[c] \in Rotating
          /\ pc' = [pc EXCEPT ![c] = "set_algo"]
          /\ provider' = Provider_new("ring", key[c].algo).val
          /\ UNCHANGED <<req, key, resp, before>>
      BY <1>6 DEF RotateSetProvider, Goto, Rotating
    <2>2. key[c].algo \in ProviderAlgo
      BY <2>1, ServedKeyFields DEF TypeInv, HasKey, HoldsKey
    <2>3. provider'.algo = key[c].algo
      <3>1. provider' = [kind |-> "ring", algo |-> key[c].algo]
        BY <2>1, <2>2, NewProvider
      <3> QED
        BY <3>1
    <2>4. pc'[c] = "set_algo" /\ \A d \in Conn \ {c} :
              /\ pc'[d] \notin Rotating
              /\ ~(pc'[d] = "write" /\ req'[d].method = "rotate_key")
      BY <1>4, <2>1 DEF TypeInv, TypeOK
    <2>5. SwapProgress'
      BY <2>1, <2>3, <2>4 DEF RotationInv, SwapProgress, Rotating
    <2> QED
      BY <2>4, <2>5 DEF RotationInv, QuiescentAgreement, RotationAllOrNothing,
                        Swapping
  <1>7. ASSUME NEW c \in Conn, RotateSetAlgo(c)
        PROVE  RotationInv'
    <2>1. /\ pc[c] = "set_algo" /\ pc[c] \in Rotating
          /\ pc' = [pc EXCEPT ![c] = "set_key"]
          /\ active_algo' = key[c].algo
          /\ UNCHANGED <<provider, req, key, resp, before>>
      BY <1>7 DEF RotateSetAlgo, Goto, Rotating
    <2>2. pc'[c] = "set_key" /\ \A d \in Conn \ {c} :
              /\ pc'[d] \notin Rotating
              /\ ~(pc'[d] = "write" /\ req'[d].method = "rotate_key")
      BY <1>4, <2>1 DEF TypeInv, TypeOK
    <2>3. SwapProgress'
      BY <2>1, <2>2 DEF RotationInv, SwapProgress, Rotating
    <2> QED
      BY <2>2, <2>3 DEF RotationInv, QuiescentAgreement, RotationAllOrNothing,
                        Swapping
  <1>8. ASSUME NEW c \in Conn, RotateSetKey(c)
        PROVE  RotationInv'
    <2>1. /\ pc[c] = "set_key" /\ pc[c] \in Rotating
          /\ pc' = [pc EXCEPT ![c] = "write"]
          /\ active_key' = key[c]
          /\ resp' = [resp EXCEPT ![c] = OkResponse]
          /\ UNCHANGED <<provider, active_algo, req, key, before>>
      BY <1>8 DEF RotateSetKey, Respond, Goto, Rotating
    <2>2. pc'[c] = "write" /\ \A d \in Conn \ {c} :
              /\ pc'[d] \notin Rotating
              /\ ~(pc'[d] = "write" /\ req'[d].method = "rotate_key")
      BY <1>4, <2>1 DEF TypeInv, TypeOK
    <2>3. /\ provider'.algo = active_key'.algo
          /\ active_algo' = active_key'.algo
          /\ active_key' = Requested(req'[c].params)
          /\ resp'[c].kind = "ok"
      BY <2>1 DEF RotationInv, SwapProgress, TypeInv, Domains, OkResponse
    <2>4. SwapProgress'
      BY <2>2 DEF SwapProgress, Rotating
    <2>5. QuiescentAgreement'
      BY <2>3 DEF QuiescentAgreement
    <2>6. RotationAllOrNothing'
      BY <2>2, <2>3 DEF RotationAllOrNothing, Requested
    <2> QED
      BY <2>4, <2>5, <2>6 DEF RotationInv
  <1>9. ASSUME NEW c \in Conn, Accept(c)
        PROVE  RotationInv'
    BY <1>9, OtherStep DEF Accept, Goto, TypeInv, TypeOK,
         Domains, ServesRequest, Handling, Rotating
  <1>10. ASSUME NEW c \in Conn, ReadEof(c)
        PROVE  RotationInv'
    BY <1>10, OtherStep DEF ReadEof, Goto, TypeInv, TypeOK,
         Domains, ServesRequest, Handling, Rotating
  <1>11. ASSUME NEW c \in Conn, ReadGarbage(c)
        PROVE  RotationInv'
    BY <1>11, OtherStep DEF ReadGarbage, Respond, NoReq, Goto, TypeInv, TypeOK,
         Domains, ServesRequest, Handling, Rotating
  <1>12. ASSUME NEW c \in Conn, WriteResponse(c)
        PROVE  RotationInv'
    BY <1>12, OtherStep DEF WriteResponse, Goto, TypeInv, TypeOK,
         Domains, ServesRequest, Handling, Rotating
  <1>13. ASSUME NEW c \in Conn, StatusAlgo(c)
        PROVE  RotationInv'
    BY <1>13, OtherStep DEF StatusAlgo, Goto, TypeInv, TypeOK,
         Domains, ServesRequest, Handling, Rotating
  <1>14. ASSUME NEW c \in Conn, StatusKey(c)
        PROVE  RotationInv'
    BY <1>14, OtherStep DEF StatusKey, Goto, TypeInv, TypeOK,
         Domains, ServesRequest, Handling, Rotating
  <1>15. ASSUME NEW c \in Conn, StatusSealed(c)
        PROVE  RotationInv'
    BY <1>15, OtherStep DEF StatusSealed, Goto, TypeInv, TypeOK,
         Domains, ServesRequest, Handling, Rotating
  <1>16. ASSUME NEW c \in Conn, StatusOpened(c)
        PROVE  RotationInv'
    BY <1>16, OtherStep DEF StatusOpened, Goto, TypeInv, TypeOK,
         Domains, ServesRequest, Handling, Rotating
  <1>17. ASSUME NEW c \in Conn, StatusErrors(c)
        PROVE  RotationInv'
    BY <1>17, OtherStep DEF StatusErrors, Respond, Goto, TypeInv, TypeOK,
         Domains, ServesRequest, Handling, Rotating
  <1>18. ASSUME NEW c \in Conn, SetPolicy(c)
        PROVE  RotationInv'
    BY <1>18, OtherStep DEF SetPolicy, Respond, Goto, TypeInv, TypeOK,
         Domains, ServesRequest, Handling, Rotating
  <1>19. ASSUME NEW c \in Conn, EncryptKey(c)
        PROVE  RotationInv'
    BY <1>19, OtherStep DEF EncryptKey, CloneKey, Respond, Goto, TypeInv, TypeOK,
         Domains, ServesRequest, Handling, Rotating
  <1>20. ASSUME NEW c \in Conn, EncryptSeal(c)
        PROVE  RotationInv'
    BY <1>20, OtherStep DEF EncryptSeal, Respond, Goto, TypeInv, TypeOK,
         Domains, ServesRequest, Handling, Rotating
  <1>21. ASSUME NEW c \in Conn, DecryptKey(c)
        PROVE  RotationInv'
    BY <1>21, OtherStep DEF DecryptKey, CloneKey, Respond, Goto, TypeInv, TypeOK,
         Domains, ServesRequest, Handling, Rotating
  <1>22. ASSUME NEW c \in Conn, DecryptOpen(c)
        PROVE  RotationInv'
    BY <1>22, OtherStep DEF DecryptOpen, Respond, Goto, TypeInv, TypeOK,
         Domains, ServesRequest, Handling, Rotating
  <1>23. ASSUME NEW c \in Conn, ClientClose(c)
        PROVE  RotationInv'
    BY <1>1, <1>23 DEF ClientClose
  <1>24. CASE UNCHANGED vars
    BY <1>1, <1>24 DEF vars
  <1> QED
    BY <1>2, <1>3, <1>5, <1>6, <1>7, <1>8, <1>9, <1>10, <1>11, <1>12,
       <1>13, <1>14, <1>15, <1>16, <1>17, <1>18, <1>19, <1>20, <1>21, <1>22, <1>23, <1>24 DEF Next

\* In a new daemon no swap is under way.
LEMMA RotationInit == Init => RotationInv
  <1> SUFFICES ASSUME Init PROVE RotationInv
    OBVIOUS
  <1>1. provider.algo = "Aes256Gcm"
    BY NewProvider DEF Init, DefaultProvider, ProviderAlgo
  <1> QED
    BY <1>1 DEF Init, RotationInv, SwapProgress, QuiescentAgreement,
                RotationAllOrNothing, Swapping

\* If keys are rotated over one connection only, then, whatever the other
\* clients do, provider, algorithm and key agree outside the swap.  (Two
\* rotating connections break this: see the run torn_rotation.)
THEOREM AgreementCorrect ==
    ASSUME SingleRotator
    PROVE  Spec => []QuiescentAgreement
  <1>1. RotationInv => QuiescentAgreement
    BY DEF RotationInv
  <1> QED
    BY <1>1, RotationInit, TypeInit, TypeStep, RotationStep, PTL DEF Spec

\* Under the same hypothesis rotate_key is all or nothing: after Ok the whole
\* slot is the requested one, after an error it is exactly what it was.
THEOREM RotationCorrect ==
    ASSUME SingleRotator
    PROVE  Spec => []RotationAllOrNothing
  <1>1. RotationInv => RotationAllOrNothing
    BY DEF RotationInv
  <1> QED
    BY <1>1, RotationInit, TypeInit, TypeStep, RotationStep, PTL DEF Spec

-----------------------------------------------------------------------------
(* What the answers of the daemon say: a status report covers everything   *)
(* its reader has been answered before, and a plaintext is only returned   *)
(* for a frame that the daemon or a peer handed out.                       *)

\* What a label says about the request: the methods ServesRequest leaves out.
AtLabel ==
    \A c \in Conn :
        /\ pc[c] \in {"closed", "read"} => req[c] = NoReq
        /\ pc[c] \in {"status_algo", "status_key", "status_sealed",
                      "status_opened", "status_errors"} =>
                req[c].method = "get_status"
        /\ pc[c] = "policy" => req[c].method = "set_policy"
        /\ pc[c] \in {"dec_key", "dec_provider"} => req[c].method = "decrypt"

-----------------------------------------------------------------------------
(* Status reports.  A report is put together in five steps, and the        *)
(* answers are counted when they are computed, not when they are read; so  *)
(* the invariant counts an answer that is still to be written as read.     *)

Tally  == [sealed : Nat, opened : Nat, errors : Nat]
Report == [algo : ProviderAlgo, key_id : Nat \cup {NoKey},
           sealed : Nat, opened : Nat, errors : Nat]

\* What c will have seen once the answer it waits for is written.
Owed(c) == IF pc[c] = "write" THEN Count(seen[c], resp[c]) ELSE seen[c]

ReportsTyped == report \in [Conn -> Report] /\ seen \in [Conn -> Tally]

CountersCover ==
    \A c \in Conn : /\ Owed(c).sealed <= packets_sealed
                    /\ Owed(c).opened <= packets_opened
                    /\ Owed(c).errors <= crypto_errors

ReportProgress ==
    \A c \in Conn :
        /\ pc[c] \in {"status_opened", "status_errors"} =>
                seen[c].sealed <= report[c].sealed
        /\ pc[c] = "status_errors" => seen[c].opened <= report[c].opened

StatusInv == /\ ReportsTyped /\ CountersCover /\ ReportProgress
             /\ StatusCoversAnswers

\* The answers that clients take for a failure of the cryptography.
Failure(r) == r.kind = "error" /\ r.code \in {401, 500}

\* What a client adds to its tally when it reads an answer.
LEMMA CountAnswer ==
    ASSUME NEW s \in Tally, NEW r
    PROVE  /\ Count(s, r) \in Tally
           /\ Count(s, r).sealed = IF r.kind = "ciphertext" THEN s.sealed + 1
                                                            ELSE s.sealed
           /\ Count(s, r).opened = IF r.kind = "plaintext" THEN s.opened + 1
                                                           ELSE s.opened
           /\ Count(s, r).errors = IF Failure(r) THEN s.errors + 1 ELSE s.errors
  BY DEF Count, Tally, Failure

\* Reading an answer never lowers a tally.
LEMMA CountGrows ==
    ASSUME NEW s \in Tally, NEW r
    PROVE  /\ s.sealed \in Nat /\ Count(s, r).sealed \in Nat
           /\ s.opened \in Nat /\ Count(s, r).opened \in Nat
           /\ s.errors \in Nat /\ Count(s, r).errors \in Nat
           /\ s.sealed <= Count(s, r).sealed
           /\ s.opened <= Count(s, r).opened
           /\ s.errors <= Count(s, r).errors
  <1>1. s.sealed \in Nat /\ s.opened \in Nat /\ s.errors \in Nat
    BY DEF Tally
  <1>2. /\ Count(s, r).sealed \in Nat
        /\ Count(s, r).opened \in Nat
        /\ Count(s, r).errors \in Nat
    BY CountAnswer DEF Tally
  <1>3. /\ Count(s, r).sealed \in {s.sealed, s.sealed + 1}
        /\ Count(s, r).opened \in {s.opened, s.opened + 1}
        /\ Count(s, r).errors \in {s.errors, s.errors + 1}
    BY CountAnswer
  <1> QED
    BY <1>1, <1>2, <1>3

\* rotate_key never answers with a code that clients take for a failure of
\* the cryptography, so not counting its errors loses nothing.
LEMMA RotateErrorCodes ==
    ASSUME NEW p, ~rotate_outcome(p).ok
    PROVE  ~Failure(Error(rotate_outcome(p).err))
  BY RotateVerdict DEF Ok, Err, Error, Failure

\* A step of c that moves on without an answer, or answers with something that
\* nobody counts.
LEMMA UncountedStep ==
    ASSUME NEW c \in Conn, TypeInv, StatusInv,
           UNCHANGED <<counters, seen>>,
           report' \in [Conn -> Report],
           \A d \in Conn \ {c} : /\ pc'[d] = pc[d] /\ resp'[d] = resp[d]
                                 /\ report'[d] = report[d],
           pc[c] # "write",
           pc'[c] \notin {"write", "status_opened", "status_errors"} \/
           /\ pc'[c] = "write"
           /\ resp'[c].kind \in {"ok", "error"}
           /\ ~Failure(resp'[c])
    PROVE  StatusInv'
  <1>1. ReportsTyped'
    BY DEF StatusInv, ReportsTyped
  <1>2. seen[c] \in Tally
    BY DEF StatusInv, ReportsTyped
  <1>3. CountersCover'
    <2>1. Owed(c) = seen[c]
      BY DEF Owed
    <2>2. /\ Owed(c)'.sealed = seen[c].sealed
          /\ Owed(c)'.opened = seen[c].opened
          /\ Owed(c)'.errors = seen[c].errors
      <3>1. CASE pc'[c] # "write"
        BY <3>1 DEF Owed
      <3>2. CASE pc'[c] = "write"
        <4>1. Owed(c)' = Count(seen[c], resp'[c])
          BY <3>2 DEF Owed
        <4>2. /\ Count(seen[c], resp'[c]).sealed = seen[c].sealed
              /\ Count(seen[c], resp'[c]).opened = seen[c].opened
          BY <1>2, <3>2, CountAnswer
        <4>3. Count(seen[c], resp'[c]).errors = seen[c].errors
          BY <1>2, <3>2, CountAnswer
        <4> QED
          BY <4>1, <4>2, <4>3
      <3> QED
        BY <3>1, <3>2
    <2>3. \A d \in Conn \ {c} : Owed(d)' = Owed(d)
      BY DEF Owed
    <2> QED
      BY <2>1, <2>2, <2>3 DEF StatusInv, CountersCover, counters
  <1>4. ReportProgress'
    BY DEF StatusInv, ReportProgress
  <1>5. StatusCoversAnswers'
    BY DEF StatusInv, StatusCoversAnswers
  <1> QED
    BY <1>1, <1>3, <1>4, <1>5 DEF StatusInv

\* encrypt and decrypt count what they answer before they answer it.
LEMMA CountedStep ==
    ASSUME NEW c \in Conn, TypeInv, StatusInv,
           UNCHANGED <<seen, report>>,
           \A d \in Conn \ {c} : pc'[d] = pc[d] /\ resp'[d] = resp[d],
           pc[c] # "write", pc'[c] = "write", resp'[c].kind # "status",
           packets_sealed' \in Nat, packets_opened' \in Nat, crypto_errors' \in Nat,
           packets_sealed <= packets_sealed',
           packets_opened <= packets_opened',
           crypto_errors <= crypto_errors',
           resp'[c].kind = "ciphertext" => packets_sealed' = packets_sealed + 1,
           resp'[c].kind = "plaintext" => packets_opened' = packets_opened + 1,
           Failure(resp'[c]) => crypto_errors' = crypto_errors + 1
    PROVE  StatusInv'
  <1> DEFINE owed == Count(seen[c], resp'[c])
  <1>1. /\ packets_sealed \in Nat /\ packets_opened \in Nat /\ crypto_errors \in Nat
        /\ \A d \in Conn : seen[d] \in Tally
    BY DEF StatusInv, ReportsTyped, TypeInv, TypeOK
  <1>2. /\ seen[c].sealed <= packets_sealed
        /\ seen[c].opened <= packets_opened
        /\ seen[c].errors <= crypto_errors
    BY DEF StatusInv, CountersCover, Owed
  <1>3. Owed(c)' = owed /\ \A d \in Conn \ {c} : Owed(d)' = Owed(d)
    BY DEF Owed
  <1>4. \A d \in Conn : Owed(d) \in Tally
    BY <1>1, CountAnswer DEF Owed
  <1>5. owed.sealed <= packets_sealed'
    <2>1. seen[c].sealed \in Nat
      BY <1>1 DEF Tally
    <2>2. owed.sealed = IF resp'[c].kind = "ciphertext" THEN seen[c].sealed + 1
                                                        ELSE seen[c].sealed
      BY <1>1, CountAnswer
    <2> QED
      BY <1>1, <1>2, <2>1, <2>2
  <1>6. owed.opened <= packets_opened'
    <2>1. seen[c].opened \in Nat
      BY <1>1 DEF Tally
    <2>2. owed.opened = IF resp'[c].kind = "plaintext" THEN seen[c].opened + 1
                                                       ELSE seen[c].opened
      BY <1>1, CountAnswer
    <2> QED
      BY <1>1, <1>2, <2>1, <2>2
  <1>7. owed.errors <= crypto_errors'
    <2>1. seen[c].errors \in Nat
      BY <1>1 DEF Tally
    <2>2. owed.errors = IF Failure(resp'[c]) THEN seen[c].errors + 1
                                             ELSE seen[c].errors
      BY <1>1, CountAnswer
    <2> QED
      BY <1>1, <1>2, <2>1, <2>2
  <1> HIDE DEF owed
  <1>8. CountersCover'
    <2>1. \A d \in Conn \ {c} : /\ Owed(d).sealed \in Nat /\ Owed(d).sealed <= packets_sealed
                                /\ Owed(d).opened \in Nat /\ Owed(d).opened <= packets_opened
                                /\ Owed(d).errors \in Nat /\ Owed(d).errors <= crypto_errors
      BY <1>4 DEF StatusInv, CountersCover, Tally
    <2>2. \A d \in Conn \ {c} : /\ Owed(d).sealed <= packets_sealed'
                                /\ Owed(d).opened <= packets_opened'
                                /\ Owed(d).errors <= crypto_errors'
      BY <1>1, <2>1
    <2> QED
      BY <1>3, <1>5, <1>6, <1>7, <2>2 DEF CountersCover
  <1>9. ReportsTyped' /\ ReportProgress' /\ StatusCoversAnswers'
    BY DEF StatusInv, ReportsTyped, ReportProgress, StatusCoversAnswers
  <1> QED
    BY <1>8, <1>9 DEF StatusInv

\* No step lets a report fall behind the answers.
LEMMA StatusStep == TypeInv /\ StatusInv /\ [Next]_vars => StatusInv'
  <1> SUFFICES ASSUME TypeInv, StatusInv, [Next]_vars
               PROVE  StatusInv'
    OBVIOUS
  <1> USE DEF slot, locals, history, bounds
  <1>1. ASSUME UNCHANGED <<counters, pc, report, resp, seen>>
        PROVE  StatusInv'
    BY <1>1 DEF StatusInv, ReportsTyped, CountersCover, ReportProgress,
                StatusCoversAnswers, Owed, counters
  <1>2. /\ report \in [Conn -> Report] /\ seen \in [Conn -> Tally]
        /\ pc \in [Conn -> Handling \cup {"closed", "read"}]
        /\ DOMAIN resp = Conn
        /\ active_algo \in ProviderAlgo
        /\ packets_sealed \in Nat /\ packets_opened \in Nat /\ crypto_errors \in Nat
    BY DEF StatusInv, ReportsTyped, TypeInv, TypeOK, Domains
  <1>3. CASE Restart
    <2>1. /\ pc' = [c \in Conn |-> "closed"]
          /\ seen' = [c \in Conn |-> NothingSeen]
          /\ report' = [c \in Conn |-> EmptyReport]
          /\ packets_sealed' = 0 /\ packets_opened' = 0 /\ crypto_errors' = 0
      BY <1>3 DEF Restart
    <2>2. EmptyReport \in Report /\ NothingSeen \in Tally
      BY DEF EmptyReport, Report, ProviderAlgo, NothingSeen, Tally
    <2> QED
      BY <2>1, <2>2 DEF StatusInv, ReportsTyped, CountersCover, ReportProgress,
                        StatusCoversAnswers, Owed, NothingSeen
  <1>4. ASSUME NEW c \in Conn, Accept(c)
        PROVE  StatusInv'
    <2>1. /\ pc[c] = "closed" /\ pc' = [pc EXCEPT ![c] = "read"]
          /\ seen' = [seen EXCEPT ![c] = NothingSeen]
          /\ UNCHANGED <<counters, report, resp>>
      BY <1>4 DEF Accept, Goto
    <2>2. NothingSeen \in Tally /\ ReportsTyped'
      BY <1>2, <2>1 DEF NothingSeen, Tally, ReportsTyped
    <2>3. CountersCover'
      <3>1. Owed(c)' = NothingSeen /\ \A d \in Conn \ {c} : Owed(d)' = Owed(d)
        BY <1>2, <2>1 DEF Owed
      <3> QED
        BY <1>2, <2>1, <3>1 DEF StatusInv, CountersCover, NothingSeen, counters
    <2>4. ReportProgress' /\ StatusCoversAnswers'
      BY <1>2, <2>1 DEF StatusInv, ReportProgress, StatusCoversAnswers
    <2> QED
      BY <2>2, <2>3, <2>4 DEF StatusInv
  <1>5. ASSUME NEW c \in Conn, WriteResponse(c)
        PROVE  StatusInv'
    <2>1. /\ pc[c] = "write"
          /\ pc' = [pc EXCEPT ![c] = IF peer[c] THEN "read" ELSE "closed"]
          /\ seen' = IF peer[c] THEN [seen EXCEPT ![c] = Count(@, resp[c])] ELSE seen
          /\ report' = [report EXCEPT ![c] = EmptyReport]
          /\ resp' = [resp EXCEPT ![c] = NoResp]
          /\ UNCHANGED counters
      BY <1>5 DEF WriteResponse, Goto
    <2>2. pc'[c] \in {"read", "closed"} /\ \A d \in Conn \ {c} :
              /\ pc'[d] = pc[d] /\ seen'[d] = seen[d]
              /\ report'[d] = report[d] /\ resp'[d] = resp[d]
      BY <1>2, <2>1
    <2>3. EmptyReport \in Report /\ Count(seen[c], resp[c]) \in Tally
      BY <1>2, CountAnswer DEF EmptyReport, Report, ProviderAlgo
    <2>4. ReportsTyped'
      BY <1>2, <2>1, <2>3 DEF ReportsTyped
    <2>5. /\ seen[c] \in Tally /\ Owed(c) = Count(seen[c], resp[c])
          /\ seen'[c] = seen[c] \/ seen'[c] = Owed(c)
      BY <1>2, <2>1 DEF Owed
    <2>6. /\ Owed(c).sealed \in Nat /\ seen[c].sealed \in Nat
          /\ Owed(c).opened \in Nat /\ seen[c].opened \in Nat
          /\ Owed(c).errors \in Nat /\ seen[c].errors \in Nat
          /\ seen[c].sealed <= Owed(c).sealed
          /\ seen[c].opened <= Owed(c).opened
          /\ seen[c].errors <= Owed(c).errors
      BY <2>5, CountGrows
    <2>7. Owed(c)' = seen'[c] /\ \A d \in Conn \ {c} : Owed(d)' = Owed(d)
      BY <2>2 DEF Owed
    <2>8. CountersCover'
      BY <1>2, <2>1, <2>5, <2>6, <2>7 DEF StatusInv, CountersCover, counters
    <2>9. ReportProgress' /\ StatusCoversAnswers'
      BY <2>2 DEF StatusInv, ReportProgress, StatusCoversAnswers
    <2> QED
      BY <2>4, <2>8, <2>9 DEF StatusInv
  <1>6. /\ ~Failure(Error(400)) /\ ~Failure(Error(409)) /\ ~Failure(Error(422))
        /\ \A code : Error(code).kind = "error"
        /\ OkResponse.kind = "ok" /\ ~Failure(OkResponse)
    BY DEF Failure, Error, OkResponse
  <1>7. ASSUME NEW c \in Conn, NEW r \in Requests(c), ReadRequest(c, r)
        PROVE  StatusInv'
    <2>1. entry(r.method) \notin {"write", "status_opened", "status_errors"}
      BY RequestKinds, EntryLabels
    <2> QED
      BY <1>2, <1>7, <2>1, UncountedStep DEF ReadRequest, Goto
  <1>8. ASSUME NEW c \in Conn, RotateValidate(c)
        PROVE  StatusInv'
    <2> DEFINE out == rotate_outcome(req[c].params)
    <2>1. /\ pc[c] = "rotate"
          /\ UNCHANGED <<counters, report, seen>>
          /\ \/ /\ ~out.ok
                /\ resp' = [resp EXCEPT ![c] = Error(out.err)]
                /\ pc' = [pc EXCEPT ![c] = "write"]
             \/ /\ pc' = [pc EXCEPT ![c] = "set_provider"]
                /\ UNCHANGED resp
      BY <1>8 DEF RotateValidate, Respond, Goto
    <2>2. ~out.ok => ~Failure(Error(out.err))
      BY RotateErrorCodes
    <2> HIDE DEF out
    <2> QED
      BY <1>2, <1>6, <2>1, <2>2, UncountedStep
  <1>9. ASSUME NEW c \in Conn, StatusAlgo(c)
        PROVE  StatusInv'
    <2>1. report' \in [Conn -> Report]
      BY <1>2, <1>9 DEF StatusAlgo, Report
    <2> QED
      BY <1>2, <1>9, <2>1, UncountedStep DEF StatusAlgo, Goto
  <1>10. ASSUME NEW c \in Conn, StatusKey(c)
        PROVE  StatusInv'
    <2>1. (IF active_key = NoKey THEN NoKey ELSE active_key.id) \in Nat \cup {NoKey}
      BY ServedKeyFields DEF TypeInv, TypeOK
    <2>2. report' \in [Conn -> Report]
      BY <1>2, <1>10, <2>1 DEF StatusKey, Report
    <2> QED
      BY <1>2, <1>10, <2>2, UncountedStep DEF StatusKey, Goto
  <1>11. ASSUME NEW c \in Conn, StatusSealed(c)
        PROVE  StatusInv'
    <2>1. /\ pc[c] = "status_sealed" /\ pc' = [pc EXCEPT ![c] = "status_opened"]
          /\ report' = [report EXCEPT ![c].sealed = packets_sealed]
          /\ UNCHANGED <<counters, seen, resp>>
      BY <1>11 DEF StatusSealed, Goto
    <2>2. report' \in [Conn -> Report] /\ report'[c].sealed = packets_sealed
      BY <1>2, <2>1 DEF Report
    <2>3. /\ pc'[c] = "status_opened"
          /\ \A d \in Conn \ {c} : pc'[d] = pc[d] /\ report'[d] = report[d]
      BY <1>2, <2>1
    <2>4. seen[c].sealed <= packets_sealed
      BY <2>1 DEF StatusInv, CountersCover, Owed
    <2>5. \A d \in Conn : Owed(d)' = Owed(d)
      BY <2>1, <2>3 DEF Owed
    <2>6. ReportsTyped' /\ CountersCover' /\ StatusCoversAnswers'
      BY <1>2, <2>1, <2>2, <2>3, <2>5 DEF StatusInv, ReportsTyped, CountersCover,
                                          StatusCoversAnswers, counters
    <2>7. ReportProgress'
      BY <2>1, <2>2, <2>3, <2>4 DEF StatusInv, ReportProgress
    <2> QED
      BY <2>6, <2>7 DEF StatusInv
  <1>12. ASSUME NEW c \in Conn, StatusOpened(c)
        PROVE  StatusInv'
    <2>1. /\ pc[c] = "status_opened" /\ pc' = [pc EXCEPT ![c] = "status_errors"]
          /\ report' = [report EXCEPT ![c].opened = packets_opened]
          /\ UNCHANGED <<counters, seen, resp>>
      BY <1>12 DEF StatusOpened, Goto
    <2>2. /\ report' \in [Conn -> Report] /\ report'[c].opened = packets_opened
          /\ report'[c].sealed = report[c].sealed
      BY <1>2, <2>1 DEF Report
    <2>3. /\ pc'[c] = "status_errors"
          /\ \A d \in Conn \ {c} : pc'[d] = pc[d] /\ report'[d] = report[d]
      BY <1>2, <2>1
    <2>4. seen[c].opened <= packets_opened /\ seen[c].sealed <= report[c].sealed
      BY <2>1 DEF StatusInv, CountersCover, ReportProgress, Owed
    <2>5. \A d \in Conn : Owed(d)' = Owed(d)
      BY <2>1, <2>3 DEF Owed
    <2>6. ReportsTyped' /\ CountersCover' /\ StatusCoversAnswers'
      BY <1>2, <2>1, <2>2, <2>3, <2>5 DEF StatusInv, ReportsTyped, CountersCover,
                                          StatusCoversAnswers, counters
    <2>7. ReportProgress'
      BY <2>1, <2>2, <2>3, <2>4 DEF StatusInv, ReportProgress
    <2> QED
      BY <2>6, <2>7 DEF StatusInv
  <1>13. ASSUME NEW c \in Conn, StatusErrors(c)
        PROVE  StatusInv'
    <2> DEFINE r == [report[c] EXCEPT !.errors = crypto_errors]
    <2>1. /\ pc[c] = "status_errors" /\ pc' = [pc EXCEPT ![c] = "write"]
          /\ report' = [report EXCEPT ![c].errors = crypto_errors]
          /\ resp' = [resp EXCEPT ![c] = Status(r)]
          /\ UNCHANGED <<counters, seen>>
      BY <1>13 DEF StatusErrors, Respond, Goto
    <2>2. /\ report' \in [Conn -> Report] /\ r \in Report
          /\ r.errors = crypto_errors
          /\ r.sealed = report[c].sealed /\ r.opened = report[c].opened
      BY <1>2, <2>1 DEF Report
    <2> HIDE DEF r
    <2>3. /\ pc'[c] = "write" /\ resp'[c].kind = "status" /\ resp'[c].report = r
          /\ \A d \in Conn \ {c} : /\ pc'[d] = pc[d] /\ report'[d] = report[d]
                                   /\ resp'[d] = resp[d]
      BY <1>2, <2>1 DEF Status
    <2>4. /\ seen[c].sealed <= r.sealed /\ seen[c].opened <= r.opened
          /\ seen[c].errors <= r.errors
      BY <2>1, <2>2 DEF StatusInv, CountersCover, ReportProgress, Owed
    <2>5. /\ ~Failure(resp'[c]) /\ seen[c] \in Tally
          /\ Owed(c)' = Count(seen[c], resp'[c]) /\ Owed(c) = seen[c]
          /\ \A d \in Conn \ {c} : Owed(d)' = Owed(d)
      BY <1>2, <2>1, <2>3 DEF Owed, Failure
    <2>6. /\ Owed(c)'.sealed = seen[c].sealed /\ Owed(c)'.opened = seen[c].opened
          /\ Owed(c)'.errors = seen[c].errors
      <3>1. /\ Count(seen[c], resp'[c]).sealed = seen[c].sealed
            /\ Count(seen[c], resp'[c]).opened = seen[c].opened
        BY <2>3, <2>5, CountAnswer
      <3>2. Count(seen[c], resp'[c]).errors = seen[c].errors
        BY <2>5, CountAnswer
      <3> QED
        BY <2>5, <3>1, <3>2
    <2>7. CountersCover'
      BY <2>1, <2>5, <2>6 DEF StatusInv, CountersCover, counters
    <2>8. ReportsTyped' /\ ReportProgress'
      BY <1>2, <2>1, <2>2, <2>3 DEF StatusInv, ReportsTyped, ReportProgress
    <2>9. StatusCoversAnswers'
      BY <2>1, <2>3, <2>4 DEF StatusInv, StatusCoversAnswers
    <2> QED
      BY <2>7, <2>8, <2>9 DEF StatusInv
  <1>14. ASSUME NEW c \in Conn, EncryptSeal(c)
        PROVE  StatusInv'
    <2> DEFINE frame == SealRequest(key[c], req[c].params)
    <2>1. /\ pc[c] = "enc_provider" /\ pc' = [pc EXCEPT ![c] = "write"]
          /\ UNCHANGED <<seen, report>>
          /\ \/ /\ resp' = [resp EXCEPT ![c] = Error(422)]
                /\ UNCHANGED counters
             \/ /\ resp' = [resp EXCEPT ![c] = Ciphertext(frame.val)]
                /\ packets_sealed' = packets_sealed + 1
                /\ UNCHANGED <<packets_opened, crypto_errors>>
             \/ /\ resp' = [resp EXCEPT ![c] = Error(500)]
                /\ crypto_errors' = crypto_errors + 1
                /\ UNCHANGED <<packets_sealed, packets_opened>>
      BY <1>14 DEF EncryptSeal, Respond, Goto
    <2>2. /\ Error(422).kind = "error" /\ Error(500).kind = "error"
          /\ Ciphertext(frame.val).kind = "ciphertext"
          /\ ~Failure(Ciphertext(frame.val))
      BY DEF Error, Ciphertext, Failure
    <2> HIDE DEF frame
    <2> QED
      BY <1>2, <1>6, <2>1, <2>2, CountedStep DEF counters
  <1>15. ASSUME NEW c \in Conn, DecryptOpen(c)
        PROVE  StatusInv'
    <2> DEFINE text == wire_open(provider, key[c], req[c].params, length(req[c].params))
    <2>1. /\ pc[c] = "dec_provider" /\ pc' = [pc EXCEPT ![c] = "write"]
          /\ UNCHANGED <<seen, report>>
          /\ \/ /\ resp' = [resp EXCEPT ![c] = Plaintext(text.val)]
                /\ packets_opened' = packets_opened + 1
                /\ UNCHANGED <<packets_sealed, crypto_errors>>
             \/ /\ resp' = [resp EXCEPT ![c] = Error(open_error(text.err))]
                /\ crypto_errors' = crypto_errors + 1
                /\ UNCHANGED <<packets_sealed, packets_opened>>
      BY <1>15 DEF DecryptOpen, Respond, Goto
    <2>2. /\ Plaintext(text.val).kind = "plaintext" /\ ~Failure(Plaintext(text.val))
          /\ Error(open_error(text.err)).kind = "error"
      BY DEF Error, Plaintext, Failure
    <2> HIDE DEF text
    <2> QED
      BY <1>2, <2>1, <2>2, CountedStep
  <1>16. ASSUME NEW c \in Conn, ReadEof(c)
        PROVE  StatusInv'
    BY <1>2, <1>16, UncountedStep DEF ReadEof, Goto
  <1>17. ASSUME NEW c \in Conn, ReadGarbage(c)
        PROVE  StatusInv'
    BY <1>2, <1>17, UncountedStep, <1>6 DEF ReadGarbage, Respond, Goto
  <1>18. ASSUME NEW c \in Conn, RotateSetProvider(c)
        PROVE  StatusInv'
    BY <1>2, <1>18, UncountedStep DEF RotateSetProvider, Goto
  <1>19. ASSUME NEW c \in Conn, RotateSetAlgo(c)
        PROVE  StatusInv'
    BY <1>2, <1>19, UncountedStep DEF RotateSetAlgo, Goto
  <1>20. ASSUME NEW c \in Conn, RotateSetKey(c)
        PROVE  StatusInv'
    BY <1>2, <1>20, UncountedStep, <1>6 DEF RotateSetKey, Respond, Goto
  <1>21. ASSUME NEW c \in Conn, SetPolicy(c)
        PROVE  StatusInv'
    BY <1>2, <1>21, UncountedStep, <1>6 DEF SetPolicy, Respond, Goto
  <1>22. ASSUME NEW c \in Conn, EncryptKey(c)
        PROVE  StatusInv'
    BY <1>2, <1>22, UncountedStep, <1>6 DEF EncryptKey, CloneKey, Respond, Goto
  <1>23. ASSUME NEW c \in Conn, DecryptKey(c)
        PROVE  StatusInv'
    BY <1>2, <1>23, UncountedStep, <1>6 DEF DecryptKey, CloneKey, Respond, Goto
  <1>24. ASSUME NEW c \in Conn, ClientClose(c)
        PROVE  StatusInv'
    BY <1>1, <1>24 DEF ClientClose
  <1>25. CASE UNCHANGED vars
    BY <1>1, <1>25 DEF vars
  <1> QED
    BY <1>3, <1>4, <1>5, <1>7, <1>8, <1>9, <1>10, <1>11, <1>12, <1>13, <1>14, <1>15, <1>16, <1>17, <1>18, <1>19, <1>20, <1>21, <1>22, <1>23, <1>24, <1>25 DEF Next

\* A new daemon has answered nobody.
LEMMA StatusInit == Init => StatusInv
  <1> SUFFICES ASSUME Init PROVE StatusInv
    OBVIOUS
  <1>1. EmptyReport \in Report /\ NothingSeen \in Tally
    BY DEF EmptyReport, Report, ProviderAlgo, NothingSeen, Tally
  <1> QED
    BY <1>1 DEF Init, StatusInv, ReportsTyped, CountersCover, ReportProgress,
                StatusCoversAnswers, Owed, NothingSeen

\* A status report is never behind what its reader was answered, however the
\* five loads that make it up interleave with the other connections.
THEOREM StatusCorrect == Spec => []StatusCoversAnswers
  <1>1. StatusInv => StatusCoversAnswers
    BY DEF StatusInv
  <1> QED
    BY <1>1, StatusInit, TypeInit, TypeStep, StatusStep, PTL DEF Spec

-----------------------------------------------------------------------------
(* Plaintexts.  A frame leaves the daemon, or a peer, and decrypt is given *)
(* whatever is made of it, so the invariant says what every frame outside  *)
(* looks like and that every decrypt request is made of such frames and of *)
(* bytes that nobody sealed.                                               *)

\* The frame that the handle k makes of the parameters p.
SealedFrame(k, p) ==
    LET hdr == encode([version |-> VERSION, flags |-> 0, key_id |-> k.id,
                       algo |-> k.algo, nonce_len |-> nonce_len(k.algo)])
    IN  [hdr |-> hdr, nonce |-> p.nonce,
         body |-> aead_seal(k.material, p.nonce, hdr, p.plaintext, tag_len(k.algo))]

HandedOut(f, p) == /\ p \in EncryptParams
                   /\ p.nonce.len = 12
                   /\ \E k \in ServedKey : f = SealedFrame(k, p)

FramesOutside == \A e \in emitted : HandedOut(e.frame, e.params)

FramesToWrite ==
    \A c \in Conn : pc[c] = "write" /\ resp[c].kind = "ciphertext" =>
        HandedOut(resp[c].frame, req[c].params)

DecryptsFrames ==
    \A c \in Conn : pc[c] \in Handling /\ req[c].method = "decrypt" =>
        req[c].params \in ClientFrames

PlainInv == /\ AtLabel /\ FramesOutside /\ FramesToWrite /\ DecryptsFrames
            /\ PlaintextsAreAuthentic

\* A sealed frame: a header of 12 bytes, the caller's nonce, a body with its tag
\* that remembers what it was sealed from.
Shape(f, k, p) ==
    /\ f = [hdr |-> f.hdr, nonce |-> f.nonce, body |-> f.body]
    /\ Len(f.hdr) = 12
    /\ f.nonce = p.nonce
    /\ f.body = [len |-> p.plaintext.len + 16, intact |-> TRUE,
                 material |-> k.material, nonce |-> p.nonce, aad |-> f.hdr,
                 pt |-> p.plaintext]

\* Every sealed frame has it.
LEMMA SealedShape ==
    ASSUME NEW k, NEW p
    PROVE  Shape(SealedFrame(k, p), k, p)
  <1> DEFINE h   == [version |-> VERSION, flags |-> 0, key_id |-> k.id,
                     algo |-> k.algo, nonce_len |-> nonce_len(k.algo)]
             hdr == encode(h)
             f   == SealedFrame(k, p)
  <1>1. Len(hdr) = 12
    BY DEF encode
  <1>2. f = [hdr |-> hdr, nonce |-> p.nonce,
             body |-> aead_seal(k.material, p.nonce, hdr, p.plaintext, tag_len(k.algo))]
    BY DEF SealedFrame
  <1> HIDE DEF hdr
  <1>3. f.body = [len |-> p.plaintext.len + 16, intact |-> TRUE,
                  material |-> k.material, nonce |-> p.nonce, aad |-> hdr,
                  pt |-> p.plaintext]
    BY <1>2 DEF aead_seal, tag_len
  <1>4. f.hdr = hdr /\ f.nonce = p.nonce
    BY <1>2
  <1>5. f = [hdr |-> f.hdr, nonce |-> f.nonce, body |-> f.body]
    BY <1>2
  <1> HIDE DEF f
  <1> QED
    BY <1>1, <1>3, <1>4, <1>5, Zenon DEF Shape, f

\* acm_wire::seal as encrypt calls it returns the frame of the clone.
LEMMA EncryptMakesFrame ==
    ASSUME NEW q \in [kind : {"ring"}, algo : ProviderAlgo], NEW k \in ServedKey,
           NEW p \in EncryptParams, NEW out_len \in Int,
           wire_seal(q, k, k.id, p.nonce, 0, p.plaintext, out_len).ok
    PROVE  /\ wire_seal(q, k, k.id, p.nonce, 0, p.plaintext, out_len).val =
                SealedFrame(k, p)
           /\ p.nonce.len = 12 /\ k.algo = q.algo
  <1> DEFINE hdr == SealedHeader(q, k.id, p.nonce, 0)
             f   == wire_seal(q, k, k.id, p.nonce, 0, p.plaintext, out_len).val
  <1>1. q \in Provider
    BY DEF Provider, ProviderKind
  <1>2. p.nonce.len \in Nat /\ p.plaintext.len \in Nat
    BY CryptodAssumption DEF Blob
  <1>3. /\ k.algo = q.algo
        /\ p.nonce.len = nonce_len(q.algo)
        /\ f = [hdr |-> hdr, nonce |-> p.nonce,
                body |-> aead_seal(k.material, p.nonce, hdr, p.plaintext, tag_len(q.algo))]
    BY <1>1, <1>2, WireSeal DEF Ok
  <1>4. hdr = encode([version |-> VERSION, flags |-> 0, key_id |-> k.id,
                      algo |-> k.algo, nonce_len |-> nonce_len(k.algo)])
    BY <1>3 DEF SealedHeader
  <1> HIDE DEF hdr, f
  <1>5. f = SealedFrame(k, p)
    BY <1>3, <1>4, Zenon DEF SealedFrame
  <1>6. p.nonce.len = 12
    BY <1>3 DEF nonce_len
  <1> QED
    BY <1>3, <1>5, <1>6 DEF f

\* With a provider of the key's algorithm acm_wire::seal cannot fail.
LEMMA SealCannotFail ==
    ASSUME NEW q \in [kind : {"ring"}, algo : ProviderAlgo], NEW k \in ServedKey,
           NEW p \in EncryptParams, p.nonce.len = 12, k.algo = q.algo
    PROVE  wire_seal(q, k, k.id, p.nonce, 0, p.plaintext,
                     frame_len(p.plaintext.len, p.nonce.len, tag_len(q.algo))).ok
  <1> DEFINE need == frame_len(p.plaintext.len, p.nonce.len, tag_len(q.algo))
  <1>1. q \in Provider /\ k.material.len = key_len(q.algo)
    BY ServedKeyFields DEF Provider, ProviderKind
  <1>2. k.id \in Nat /\ IsU32(k.id) /\ 0 \in Byte
    BY ServedKeyFields DEF Byte
  <1>3. p.plaintext.len \in Nat /\ p.nonce.len = nonce_len(q.algo)
    BY CryptodAssumption DEF Blob, nonce_len
  <1>4. need \in Nat /\ need >= need
    BY <1>3 DEF frame_len, HEADER_LEN, tag_len
  <1>5. p.plaintext.len >= p.plaintext.len
    BY <1>3
  <1> QED
    BY <1>1, <1>2, <1>3, <1>4, <1>5, SealedFrameOpens

\* What a peer hands out is such a frame too, of one of its keys.
LEMMA PeerFramesHandedOut ==
    ASSUME NEW e \in PeerFrames
    PROVE  HandedOut(e.frame, e.params)
  <1>1. PICK k \in PeerKeys, p \in EncryptParams :
            /\ PeerSeal(k, p).ok
            /\ e = [frame |-> PeerSeal(k, p).val, params |-> p]
    BY DEF PeerFrames
  <1> DEFINE q   == [kind |-> "ring", algo |-> k.algo]
             len == frame_len(p.plaintext.len, p.nonce.len, tag_len(k.algo))
  <1>2. k \in ServedKey /\ k.algo \in ProviderAlgo
    BY CryptodAssumption, ServedKeyFields
  <1>3. q \in [kind : {"ring"}, algo : ProviderAlgo]
    BY <1>2
  <1>4. len \in Int
    BY CryptodAssumption DEF frame_len, HEADER_LEN, tag_len, Blob
  <1>5. PeerSeal(k, p) = wire_seal(q, k, k.id, p.nonce, 0, p.plaintext, len)
    BY <1>2 DEF PeerSeal, Provider_new, Ok
  <1> HIDE DEF q, len
  <1>6. PeerSeal(k, p).val = SealedFrame(k, p) /\ p.nonce.len = 12
    BY <1>1, <1>2, <1>3, <1>4, <1>5, EncryptMakesFrame
  <1> QED
    BY <1>1, <1>2, <1>6 DEF HandedOut

\* What a frame is that decrypt may be given.  Its parts have lengths that fit
\* together, and if its body is intact and was sealed with the header and the
\* nonce it comes with, the whole is a frame that was handed out.
LEMMA ClientFrame ==
    ASSUME FramesOutside, NEW g \in ClientFrames
    PROVE  /\ Len(g.hdr) \in Nat /\ Len(g.hdr) <= 12
           /\ g.nonce.len \in Nat /\ g.nonce.len <= 12 /\ g.body.len \in Nat
           /\ Len(g.hdr) < 12 => g.nonce.len = 0
           /\ g.nonce.len < 12 => g.body.len = 0
           /\ g.body.intact /\ g.body.aad = g.hdr /\ g.body.nonce = g.nonce =>
                \E e \in Frames : e.frame = g /\ g.body.pt = e.params.plaintext
  <1>1. ASSUME NEW e \in Frames
        PROVE  /\ e.frame = [hdr |-> e.frame.hdr, nonce |-> e.frame.nonce,
                             body |-> e.frame.body]
               /\ Len(e.frame.hdr) = 12 /\ e.frame.nonce.len = 12
               /\ e.frame.body.len \in Nat
               /\ e.frame.body.aad = e.frame.hdr /\ e.frame.body.nonce = e.frame.nonce
               /\ e.frame.body.pt = e.params.plaintext
    <2>1. HandedOut(e.frame, e.params)
      BY PeerFramesHandedOut DEF Frames, FramesOutside
    <2> DEFINE f == e.frame
               p == e.params
    <2>2. PICK k \in ServedKey : f = SealedFrame(k, p)
      BY <2>1 DEF HandedOut
    <2>3. p.nonce.len = 12 /\ p.plaintext.len \in Nat
      BY <2>1, CryptodAssumption DEF HandedOut, Blob
    <2>4. Shape(f, k, p)
      BY <2>2, SealedShape
    <2> HIDE DEF f, p
    <2>5. f.body.len \in Nat /\ f.body.aad = f.hdr /\ f.body.nonce = p.nonce
          /\ f.body.pt = p.plaintext
      BY <2>3, <2>4 DEF Shape
    <2>6. /\ f = [hdr |-> f.hdr, nonce |-> f.nonce, body |-> f.body]
          /\ Len(f.hdr) = 12 /\ f.nonce = p.nonce
      BY <2>4 DEF Shape
    <2> QED
      BY <2>3, <2>5, <2>6 DEF f, p
  <1>2. /\ g = [hdr |-> g.hdr, nonce |-> g.nonce, body |-> g.body]
        /\ g.hdr \in {e.frame.hdr : e \in Frames} \cup MadeUp.hdrs
        /\ g.nonce \in {e.frame.nonce : e \in Frames} \cup MadeUp.nonces
        /\ g.body \in {e.frame.body : e \in Frames} \cup {junk(n) : n \in MadeUp.lens}
        /\ Len(g.hdr) < 12 => g.nonce.len = 0
        /\ g.nonce.len < 12 => g.body.len = 0
    BY DEF ClientFrames, HEADER_LEN
  <1>3. Len(g.hdr) \in Nat /\ Len(g.hdr) <= 12
    <2>1. CASE g.hdr \in MadeUp.hdrs
      BY <2>1, CryptodAssumption DEF HEADER_LEN
    <2>2. CASE g.hdr \in {e.frame.hdr : e \in Frames}
      <3>1. PICK e \in Frames : g.hdr = e.frame.hdr
        BY <2>2
      <3>2. Len(e.frame.hdr) = 12
        BY <1>1, Zenon
      <3> QED
        BY <3>1, <3>2
    <2> QED
      BY <1>2, <2>1, <2>2
  <1>4. g.nonce.len \in Nat /\ g.nonce.len <= 12
    <2>1. CASE g.nonce \in MadeUp.nonces
      BY <2>1, CryptodAssumption DEF Blob
    <2>2. CASE g.nonce \in {e.frame.nonce : e \in Frames}
      <3>1. PICK e \in Frames : g.nonce = e.frame.nonce
        BY <2>2
      <3>2. e.frame.nonce.len = 12
        BY <1>1, Zenon
      <3> QED
        BY <3>1, <3>2
    <2> QED
      BY <1>2, <2>1, <2>2
  <1>5. CASE g.body \in {junk(n) : n \in MadeUp.lens}
    <2>1. g.body.len \in Nat /\ g.body.intact = FALSE
      BY <1>5, CryptodAssumption DEF junk
    <2> QED
      BY <1>2, <1>3, <1>4, <2>1
  <1>6. CASE g.body \in {e.frame.body : e \in Frames}
    <2>1. PICK e \in Frames : g.body = e.frame.body
      BY <1>6
    <2>2. /\ e.frame = [hdr |-> e.frame.hdr, nonce |-> e.frame.nonce,
                        body |-> e.frame.body]
          /\ e.frame.body.aad = e.frame.hdr /\ e.frame.body.nonce = e.frame.nonce
          /\ e.frame.body.pt = e.params.plaintext
          /\ e.frame.body.len \in Nat
      BY <1>1
    <2>3. g.body.aad = g.hdr /\ g.body.nonce = g.nonce => e.frame = g
      BY <1>2, <2>1, <2>2, Zenon
    <2>4. g.body.len \in Nat /\ g.body.pt = e.params.plaintext
      BY <2>1, <2>2, Zenon
    <2> QED
      BY <1>2, <1>3, <1>4, <2>3, <2>4
  <1> QED
    BY <1>2, <1>5, <1>6

\* Nothing else that may be sent depends on the state.
LEMMA SameClientFrames ==
    ASSUME emitted' = emitted
    PROVE  Frames' = Frames /\ ClientFrames' = ClientFrames
  <1>1. Frames' = Frames
    BY DEF Frames, PeerFrames, PeerSeal
  <1> QED
    BY <1>1 DEF ClientFrames, junk

\* The more frames are outside, the more can be made of them.
LEMMA MoreClientFrames ==
    ASSUME emitted \subseteq emitted'
    PROVE  Frames \subseteq Frames' /\ ClientFrames \subseteq ClientFrames'
  <1>1. Frames \subseteq Frames'
    BY DEF Frames, PeerFrames, PeerSeal
  <1>2. ASSUME NEW g \in ClientFrames
        PROVE  g \in ClientFrames'
    <2> DEFINE H(F) == {e.frame.hdr : e \in F} \cup MadeUp.hdrs
               N(F) == {e.frame.nonce : e \in F} \cup MadeUp.nonces
               B(F) == {e.frame.body : e \in F} \cup {junk(n) : n \in MadeUp.lens}
    <2>1. /\ H(Frames) \subseteq H(Frames') /\ N(Frames) \subseteq N(Frames')
          /\ B(Frames) \subseteq B(Frames')
      BY <1>1
    <2>2. /\ g \in [hdr : H(Frames), nonce : N(Frames), body : B(Frames)]
          /\ Len(g.hdr) < HEADER_LEN => g.nonce.len = 0
          /\ g.nonce.len < 12 => g.body.len = 0
      BY DEF ClientFrames
    <2> HIDE DEF H, N, B
    <2>3. g \in [hdr : H(Frames'), nonce : N(Frames'), body : B(Frames')]
      BY <2>1, <2>2
    <2> QED
      BY <2>2, <2>3 DEF ClientFrames, H, N, B
  <1> QED
    BY <1>1, <1>2

\* A plaintext stays authentic while the frames outside only get more.
LEMMA PlainStep == TypeInv /\ PlainInv /\ [Next]_vars => PlainInv'
  <1> SUFFICES ASSUME TypeInv, PlainInv, [Next]_vars
               PROVE  PlainInv'
    OBVIOUS
  <1> USE DEF PlainInv, AtLabel, FramesOutside, FramesToWrite, DecryptsFrames,
              PlaintextsAreAuthentic,
              slot, counters, locals, history, bounds
  <1>1. /\ pc \in [Conn -> Handling \cup {"closed", "read"}]
        /\ DOMAIN req = Conn /\ DOMAIN resp = Conn /\ DOMAIN key = Conn
        /\ emitted' = emitted => Frames' = Frames /\ ClientFrames' = ClientFrames
    BY SameClientFrames DEF TypeInv, TypeOK, Domains
  <1>2. CASE UNCHANGED vars
    BY <1>1, <1>2 DEF vars
  <1>3. CASE Restart
    BY <1>1, <1>3 DEF Restart, Handling
  <1>4. ASSUME NEW c \in Conn, NEW r \in Requests(c), ReadRequest(c, r)
        PROVE  PlainInv'
    <2>1. /\ pc' = [pc EXCEPT ![c] = entry(r.method)]
          /\ req' = [req EXCEPT ![c] = r]
          /\ UNCHANGED <<resp, emitted, key>>
      BY <1>4 DEF ReadRequest, Goto
    <2>2. entry(r.method) # "write"
      BY RequestKinds, EntryLabels
    <2>3. r.method = "decrypt" =>
              r.params \in ClientFrames
      BY DEF Requests
    <2>4. AtLabel'
      <3>1. entry(r.method) \notin {"closed", "read"}
        BY RequestKinds, EntryLabels
      <3> QED
        BY <1>1, <2>1, <3>1, RequestKinds, EntryLabels
    <2>5. FramesOutside' /\ FramesToWrite' /\ PlaintextsAreAuthentic'
      BY <1>1, <2>1, <2>2
    <2>6. DecryptsFrames'
      BY <1>1, <2>1, <2>3
    <2> QED
      BY <2>4, <2>5, <2>6
  <1>5. ASSUME NEW c \in Conn, WriteResponse(c)
        PROVE  PlainInv'
    <2>1. /\ pc[c] = "write"
          /\ \E l \in {"read", "closed"} : pc' = [pc EXCEPT ![c] = l]
          /\ req' = [req EXCEPT ![c] = NoReq]
          /\ resp' = [resp EXCEPT ![c] = NoResp]
          /\ key' = [key EXCEPT ![c] = NoKey]
      BY <1>5 DEF WriteResponse, Goto
    <2>2. \/ emitted' = emitted
          \/ /\ resp[c].kind = "ciphertext"
             /\ emitted' = emitted \cup {[frame |-> resp[c].frame,
                                          params |-> req[c].params]}
      BY <1>5 DEF WriteResponse
    <2>3. /\ FramesOutside'
          /\ Frames \subseteq Frames' /\ ClientFrames \subseteq ClientFrames'
      BY <2>1, <2>2, MoreClientFrames
    <2>4. /\ pc'[c] \in {"read", "closed"} /\ req'[c] = NoReq
          /\ \A d \in Conn \ {c} : /\ pc'[d] = pc[d] /\ req'[d] = req[d]
                                   /\ resp'[d] = resp[d] /\ key'[d] = key[d]
      BY <1>1, <2>1
    <2>5. DecryptsFrames'
      BY <2>3, <2>4 DEF Handling
    <2>6. AtLabel' /\ FramesToWrite'
      BY <1>1, <2>1, <2>4
    <2>7. PlaintextsAreAuthentic'
      BY <2>3, <2>4
    <2> QED
      BY <2>3, <2>5, <2>6, <2>7
  <1>6. ASSUME NEW c \in Conn, EncryptSeal(c)
        PROVE  PlainInv'
    <2> DEFINE p     == req[c].params
               need  == frame_len(p.plaintext.len, p.nonce.len, tag_len(provider.algo))
               frame == wire_seal(provider, key[c], key[c].id, p.nonce, 0,
                                  p.plaintext, need)
    <2>1. /\ pc[c] = "enc_provider" /\ key[c] \in ServedKey /\ p \in EncryptParams
          /\ req[c].method = "encrypt"
          /\ provider \in [kind : {"ring"}, algo : ProviderAlgo]
      BY <1>6 DEF EncryptSeal, TypeInv, TypeOK, HasKey, HoldsKey, ServesRequest,
                  Encrypting, Handling
    <2>2. need \in Int
      <3>1. p.plaintext.len \in Nat /\ p.nonce.len \in Nat
        BY <2>1, CryptodAssumption DEF Blob
      <3> HIDE DEF p
      <3> QED
        BY <3>1 DEF frame_len, HEADER_LEN, tag_len
    <2>3. frame.ok => HandedOut(frame.val, p)
      BY <2>1, <2>2, EncryptMakesFrame DEF HandedOut
    <2>4. /\ pc' = [pc EXCEPT ![c] = "write"]
          /\ UNCHANGED <<emitted, req, key>>
          /\ \/ \E code \in {422, 500} : resp' = [resp EXCEPT ![c] = Error(code)]
             \/ frame.ok /\ resp' = [resp EXCEPT ![c] = Ciphertext(frame.val)]
      BY <1>6 DEF EncryptSeal, SealRequest, Respond, Goto
    <2> HIDE DEF frame, need, p
    <2>5. /\ resp'[c].kind # "plaintext"
          /\ resp'[c].kind = "ciphertext" => frame.ok /\ resp'[c].frame = frame.val
      BY <1>1, <2>4 DEF Error, Ciphertext
    <2>6. pc'[c] = "write" /\ \A d \in Conn \ {c} : pc'[d] = pc[d] /\ resp'[d] = resp[d]
      BY <1>1, <2>4
    <2>7. FramesToWrite'
      BY <2>3, <2>4, <2>5, <2>6 DEF p
    <2>8. AtLabel' /\ FramesOutside' /\ PlaintextsAreAuthentic'
      BY <1>1, <2>4, <2>5, <2>6
    <2>9. DecryptsFrames'
      BY <1>1, <2>1, <2>4, <2>6
    <2> QED
      BY <2>7, <2>8, <2>9
  <1>7. ASSUME NEW c \in Conn, DecryptOpen(c)
        PROVE  PlainInv'
    <2> DEFINE g    == req[c].params
               text == wire_open(provider, key[c], g, length(g))
    <2>1. pc[c] = "dec_provider" /\ req[c].method = "decrypt" /\ provider \in Provider
      BY <1>7 DEF DecryptOpen, TypeInv, TypeOK, Provider, ProviderKind
    <2>2. g \in ClientFrames
      BY <2>1 DEF Handling
    <2>3. /\ Len(g.hdr) \in Nat /\ g.nonce.len \in Nat /\ g.body.len \in Nat
          /\ g.body.intact /\ g.body.aad = g.hdr /\ g.body.nonce = g.nonce =>
               \E e \in Frames : e.frame = g /\ g.body.pt = e.params.plaintext
      BY <2>2, ClientFrame
    <2>4. length(g) \in Nat
      <3> HIDE DEF g
      <3>1. \A x, y, z \in Nat : x + y + z \in Nat
        OBVIOUS
      <3> QED
        BY <2>3, <3>1, Zenon DEF length
    <2>5. text.ok => /\ g.body.material = key[c].material
                     /\ \E e \in Frames : e.frame = g /\ text.val = e.params.plaintext
      <3> SUFFICES ASSUME text.ok
                   PROVE  /\ g.body.material = key[c].material
                          /\ \E e \in Frames : e.frame = g /\ text.val = e.params.plaintext
        OBVIOUS
      <3>1. text = Ok(g.body.pt) /\ aead_opens(key[c].material, g.nonce, g.hdr, g.body)
        BY <2>1, <2>3, <2>4, OpenedFrameIsAuthentic
      <3>2. /\ g.body.intact /\ g.body.aad = g.hdr /\ g.body.nonce = g.nonce
            /\ g.body.material = key[c].material
        BY <3>1 DEF aead_opens
      <3>3. text.val = g.body.pt
        BY <3>1 DEF Ok
      <3> QED
        BY <2>3, <3>2, <3>3
    <2>6. /\ pc' = [pc EXCEPT ![c] = "write"]
          /\ UNCHANGED <<emitted, req, key>>
          /\ \/ text.ok /\ resp' = [resp EXCEPT ![c] = Plaintext(text.val)]
             \/ \E code : resp' = [resp EXCEPT ![c] = Error(code)]
      BY <1>7 DEF DecryptOpen, Respond, Goto
    <2> HIDE DEF text, g
    <2>7. /\ resp'[c].kind # "ciphertext"
          /\ resp'[c].kind = "plaintext" => text.ok /\ resp'[c].text = text.val
      BY <1>1, <2>6 DEF Error, Plaintext
    <2>8. pc'[c] = "write" /\ \A x \in Conn \ {c} : pc'[x] = pc[x] /\ resp'[x] = resp[x]
      BY <1>1, <2>6
    <2>9. PlaintextsAreAuthentic'
      <3>1. resp'[c].kind = "plaintext" =>
                \E e \in Frames : /\ e.frame = req'[c].params
                                  /\ e.frame.body.material = key'[c].material
                                  /\ e.params.plaintext = resp'[c].text
        BY <2>5, <2>6, <2>7 DEF g
      <3> QED
        BY <1>1, <2>6, <2>8, <3>1
    <2>10. AtLabel' /\ FramesOutside' /\ FramesToWrite'
      BY <2>6, <2>7, <2>8
    <2>11. DecryptsFrames'
      BY <1>1, <2>1, <2>6, <2>8 DEF Handling
    <2> QED
      BY <2>9, <2>10, <2>11
  <1>8. ASSUME NEW c \in Conn, Accept(c)
        PROVE  PlainInv'
    BY <1>1, <1>8 DEF Accept, Goto, Handling
  <1>9. ASSUME NEW c \in Conn, ClientClose(c)
        PROVE  PlainInv'
    BY <1>1, <1>9 DEF ClientClose, Goto
  <1>10. ASSUME NEW c \in Conn, ReadEof(c)
        PROVE  PlainInv'
    BY <1>1, <1>10 DEF ReadEof, Goto, Handling
  <1>11. ASSUME NEW c \in Conn, ReadGarbage(c)
        PROVE  PlainInv'
    BY <1>1, <1>11 DEF ReadGarbage, Respond, Error, NoReq, Goto
  <1>12. ASSUME NEW c \in Conn, StatusAlgo(c)
        PROVE  PlainInv'
    BY <1>1, <1>12 DEF StatusAlgo, Goto, Handling
  <1>13. ASSUME NEW c \in Conn, StatusKey(c)
        PROVE  PlainInv'
    BY <1>1, <1>13 DEF StatusKey, Goto, Handling
  <1>14. ASSUME NEW c \in Conn, StatusSealed(c)
        PROVE  PlainInv'
    BY <1>1, <1>14 DEF StatusSealed, Goto, Handling
  <1>15. ASSUME NEW c \in Conn, StatusOpened(c)
        PROVE  PlainInv'
    BY <1>1, <1>15 DEF StatusOpened, Goto, Handling
  <1>16. ASSUME NEW c \in Conn, StatusErrors(c)
        PROVE  PlainInv'
    BY <1>1, <1>16 DEF StatusErrors, Respond, Status, Goto, Handling
  <1>17. ASSUME NEW c \in Conn, RotateValidate(c)
        PROVE  PlainInv'
    BY <1>1, <1>17 DEF RotateValidate, Respond, Error, Goto, Handling
  <1>18. ASSUME NEW c \in Conn, RotateSetProvider(c)
        PROVE  PlainInv'
    BY <1>1, <1>18 DEF RotateSetProvider, Goto, Handling
  <1>19. ASSUME NEW c \in Conn, RotateSetAlgo(c)
        PROVE  PlainInv'
    BY <1>1, <1>19 DEF RotateSetAlgo, Goto, Handling
  <1>20. ASSUME NEW c \in Conn, RotateSetKey(c)
        PROVE  PlainInv'
    BY <1>1, <1>20 DEF RotateSetKey, Respond, OkResponse, Goto, Handling
  <1>21. ASSUME NEW c \in Conn, SetPolicy(c)
        PROVE  PlainInv'
    BY <1>1, <1>21 DEF SetPolicy, Respond, OkResponse, Goto, Handling
  <1>22. ASSUME NEW c \in Conn, EncryptKey(c)
        PROVE  PlainInv'
    BY <1>1, <1>22 DEF EncryptKey, CloneKey, Respond, Error, Goto, Handling
  <1>23. ASSUME NEW c \in Conn, DecryptKey(c)
        PROVE  PlainInv'
    BY <1>1, <1>23 DEF DecryptKey, CloneKey, Respond, Error, Goto, Handling
  <1> QED
    BY <1>2, <1>3, <1>4, <1>5, <1>6, <1>7, <1>8, <1>9, <1>10,
       <1>11, <1>12, <1>13, <1>14, <1>15, <1>16, <1>17, <1>18,
       <1>19, <1>20, <1>21, <1>22, <1>23 DEF Next

\* A new daemon has handed out nothing and answered no decrypt.
LEMMA PlainInit == Init => PlainInv
  BY DEF Init, PlainInv, AtLabel, FramesOutside, FramesToWrite, DecryptsFrames,
         PlaintextsAreAuthentic, Handling

\* Whatever header, nonce and body a client puts together, and whatever is rotated
\* or restarted in between, decrypt only ever returns the plaintext of a frame that
\* this daemon or a peer cryptod handed out under the handler's key material, and
\* only for exactly that frame.
THEOREM PlaintextsCorrect == Spec => []PlaintextsAreAuthentic
  <1>1. PlainInv => PlaintextsAreAuthentic
    BY DEF PlainInv
  <1> QED
    BY <1>1, PlainInit, TypeInit, TypeStep, PlainStep, PTL DEF Spec
=============================================================================
