---------------------- MODULE CryptodRefinementProofs ----------------------
(***************************************************************************)
(* The daemon implements KeyService, for any number of connections, as     *)
(* long as one connection does all the rotations.  Every step of the       *)
(* daemon is matched with the step of KeyService it stands for, or with    *)
(* none.                                                                   *)
(***************************************************************************)
EXTENDS CryptodRefinement, CryptodProofs

\* The abstract state, as the refinement mapping computes it.
Stage    == [c \in Conn |-> StageOf(pc[c])]
Note     == [c \in Conn |-> NoteOf(report[c])]
Answered == [c \in Conn |-> AnswerOf(resp[c])]

Labels == Handling \cup {"closed", "read"}

\* How the steps of a task show in the abstract state.
LEMMA MappedMove ==
    ASSUME NEW c \in Conn, pc \in [Conn -> Labels],
           NEW l, pc' = [pc EXCEPT ![c] = l],
           NEW s, StageOf(pc[c]) = s, NEW t, StageOf(l) = t
    PROVE  Stage[c] = s /\ Stage' = [Stage EXCEPT ![c] = t]
  BY DEF Stage

\* What a change of a report shows.
LEMMA MappedReport ==
    ASSUME NEW c \in Conn, DOMAIN report = Conn,
           NEW r, report' = [report EXCEPT ![c] = r], NEW n, NoteOf(r) = n
    PROVE  Note[c] = NoteOf(report[c]) /\ Note' = [Note EXCEPT ![c] = n]
  BY DEF Note

\* What an answer shows.
LEMMA MappedAnswer ==
    ASSUME NEW c \in Conn, DOMAIN resp = Conn,
           NEW r, resp' = [resp EXCEPT ![c] = r], NEW a, AnswerOf(r) = a
    PROVE  Answered' = [Answered EXCEPT ![c] = a]
  BY DEF Answered

\* The stage of each label.
LEMMA StageTable ==
    /\ StageOf("closed") = "idle" /\ StageOf("read") = "idle"
    /\ StageOf("status_algo") = "asked" /\ StageOf("policy") = "asked"
    /\ StageOf("rotate") = "asked" /\ StageOf("enc_key") = "asked"
    /\ StageOf("dec_key") = "asked"
    /\ StageOf("status_key") = "looked"
    /\ StageOf("status_sealed") = "taken" /\ StageOf("status_opened") = "taken"
    /\ StageOf("status_errors") = "taken" /\ StageOf("enc_provider") = "taken"
    /\ StageOf("dec_provider") = "taken"
    /\ StageOf("set_provider") = "accepted" /\ StageOf("set_algo") = "accepted"
    /\ StageOf("set_key") = "accepted"
    /\ StageOf("write") = "answered"
  BY DEF StageOf

\* A task is in the stage "accepted" only between its validation and its answer.
LEMMA AcceptedLabels ==
    ASSUME NEW l \in Labels
    PROVE  StageOf(l) = "accepted" <=> l \in {"set_provider", "set_algo", "set_key"}
  BY DEF StageOf, Labels, Handling

-----------------------------------------------------------------------------
(* The reported algorithm.  get_status reads active_algo and active_key at *)
(* different times; what it reads first is explained by the key in the     *)
(* slot unless a rotation is about to store its key.                       *)

AlgoOfSlot ==
    (\A c \in Conn : pc[c] # "set_key") =>
        active_algo = IF active_key = NoKey THEN "Aes256Gcm" ELSE active_key.algo

\* Only a rotation changes the algorithm or the key, and with one rotator it
\* ends with the two in agreement.
LEMMA AlgoStep ==
    ASSUME SingleRotator
    PROVE  TypeInv /\ RotationInv /\ AlgoOfSlot /\ [Next]_vars => AlgoOfSlot'
  <1> SUFFICES ASSUME TypeInv, RotationInv, AlgoOfSlot, [Next]_vars
               PROVE  AlgoOfSlot'
    OBVIOUS
  <1> USE DEF slot, counters, locals, history, bounds
  <1>1. pc \in [Conn -> Labels]
    BY DEF TypeInv, TypeOK, Labels
  <1>2. ASSUME NEW c \in Conn, UNCHANGED <<active_algo, active_key>>,
               pc[c] # "set_key", \A d \in Conn \ {c} : pc'[d] = pc[d]
        PROVE  AlgoOfSlot'
    BY <1>2 DEF AlgoOfSlot
  <1>3. CASE UNCHANGED vars
    BY <1>3 DEF vars, AlgoOfSlot
  <1>4. CASE Restart
    BY <1>4 DEF Restart, AlgoOfSlot
  <1>5. ASSUME NEW c \in Conn, RotateSetAlgo(c)
        PROVE  AlgoOfSlot'
    BY <1>1, <1>5 DEF RotateSetAlgo, Goto, AlgoOfSlot
  <1>6. ASSUME NEW c \in Conn, RotateSetKey(c)
        PROVE  AlgoOfSlot'
    <2>1. pc[c] = "set_key" /\ key[c] \in ServedKey /\ active_algo = key[c].algo
      BY <1>6 DEF RotateSetKey, TypeInv, HasKey, HoldsKey, RotationInv, SwapProgress
    <2>2. key[c] # NoKey
      BY <2>1, ServedKeyFields
    <2> QED
      BY <1>6, <2>1, <2>2 DEF RotateSetKey, AlgoOfSlot
  <1>7. ASSUME NEW c \in Conn, RotateSetProvider(c)
        PROVE  AlgoOfSlot'
    BY <1>1, <1>2, <1>7 DEF RotateSetProvider, Goto
  <1>8. ASSUME NEW c \in Conn,
               \/ Accept(c) \/ ClientClose(c) \/ ReadEof(c)
               \/ \E r \in Requests(c) : ReadRequest(c, r)
               \/ ReadGarbage(c) \/ WriteResponse(c)
        PROVE  AlgoOfSlot'
    <2>1. CASE ClientClose(c)
      BY <2>1 DEF ClientClose, AlgoOfSlot
    <2>2. CASE ~ClientClose(c)
      BY <1>1, <1>2, <1>8, <2>2 DEF Accept, ReadEof, ReadRequest, ReadGarbage,
                               WriteResponse, Respond, Goto
    <2> QED
      BY <2>1, <2>2
  <1>9. ASSUME NEW c \in Conn,
               \/ StatusAlgo(c) \/ StatusKey(c) \/ StatusSealed(c)
               \/ StatusOpened(c) \/ StatusErrors(c)
               \/ RotateValidate(c) \/ SetPolicy(c)
               \/ EncryptKey(c) \/ EncryptSeal(c) \/ DecryptKey(c) \/ DecryptOpen(c)
        PROVE  AlgoOfSlot'
    BY <1>1, <1>2, <1>9 DEF StatusAlgo, StatusKey, StatusSealed, StatusOpened,
         StatusErrors, RotateValidate, SetPolicy, EncryptKey, DecryptKey, CloneKey,
         EncryptSeal, DecryptOpen, Respond, Goto
  <1> QED
    BY <1>3, <1>4, <1>5, <1>6, <1>7, <1>8, <1>9 DEF Next

-----------------------------------------------------------------------------
(* KeyService has acm-crypto and acm-wire of its own: the same operators   *)
(* under other names.                                                      *)

\* Algorithms and the AEAD.
LEMMA SameCrypto ==
    /\ \A v : KS!from_u8(v) = from_u8(v)
    /\ \A a : /\ KS!key_len(a) = key_len(a) /\ KS!nonce_len(a) = nonce_len(a)
              /\ KS!tag_len(a) = tag_len(a)
    /\ KS!ProviderAlgo = ProviderAlgo
    /\ \A m, n, a, p, t : KS!aead_seal(m, n, a, p, t) = aead_seal(m, n, a, p, t)
    /\ \A m, n, a, b : KS!aead_opens(m, n, a, b) <=> aead_opens(m, n, a, b)
  <1>1. \A v : KS!from_u8(v) = from_u8(v)
    BY DEF from_u8, KS!from_u8, NoAlgo, KS!NoAlgo
  <1>2. \A a : /\ KS!key_len(a) = key_len(a) /\ KS!nonce_len(a) = nonce_len(a)
               /\ KS!tag_len(a) = tag_len(a)
    BY DEF key_len, KS!key_len, nonce_len, KS!nonce_len, tag_len, KS!tag_len
  <1>3. KS!ProviderAlgo = ProviderAlgo
    BY DEF ProviderAlgo, KS!ProviderAlgo
  <1>4. \A m, n, a, p, t : KS!aead_seal(m, n, a, p, t) = aead_seal(m, n, a, p, t)
    BY DEF aead_seal, KS!aead_seal
  <1>5. \A m, n, a, b : KS!aead_opens(m, n, a, b) <=> aead_opens(m, n, a, b)
    BY DEF aead_opens, KS!aead_opens
  <1> QED
    BY <1>1, <1>2, <1>3, <1>4, <1>5

\* Frames.
LEMMA SameWire ==
    /\ \A h : KS!encode(h) = encode(h)
    /\ \A x : KS!decode(x) = decode(x)
    /\ \A f : KS!length(f) = length(f)
    /\ \A a, b, c : KS!frame_len(a, b, c) = frame_len(a, b, c)
    /\ KS!VERSION = VERSION
  <1>1. \A h : KS!encode(h) = encode(h)
    <2>1. \A a : KS!as_u8(a) = as_u8(a)
      BY DEF as_u8, KS!as_u8
    <2>2. \A k : KS!to_be_bytes(k) = to_be_bytes(k)
      BY SMT DEF to_be_bytes, KS!to_be_bytes
    <2>3. KS!MAGIC = MAGIC
      BY DEF MAGIC, KS!MAGIC
    <2> QED
      BY <2>1, <2>2, <2>3, Zenon DEF encode, KS!encode
  <1>2. \A x : KS!decode(x) = decode(x)
    <2>1. /\ KS!MAGIC = MAGIC /\ KS!VERSION = VERSION /\ KS!NoAlgo = NoAlgo
          /\ KS!HEADER_LEN = HEADER_LEN
      BY DEF MAGIC, KS!MAGIC, VERSION, KS!VERSION, NoAlgo, KS!NoAlgo, HEADER_LEN,
             KS!HEADER_LEN
    <2>2. \A v : KS!Ok(v) = Ok(v) /\ KS!Err(v) = Err(v)
      BY DEF Ok, KS!Ok, Err, KS!Err
    <2>3. \A a, b, c, d : KS!from_be_bytes(a, b, c, d) = from_be_bytes(a, b, c, d)
      BY SMT DEF from_be_bytes, KS!from_be_bytes
    <2> QED
      BY <2>1, <2>2, <2>3, SameCrypto, Zenon DEF decode, KS!decode
  <1>3. \A f : KS!length(f) = length(f)
    BY Zenon DEF length, KS!length
  <1>4. \A a, b, c : KS!frame_len(a, b, c) = frame_len(a, b, c)
    BY Zenon DEF frame_len, KS!frame_len, HEADER_LEN, KS!HEADER_LEN
  <1>5. KS!VERSION = VERSION
    BY DEF VERSION, KS!VERSION
  <1> QED
    BY <1>1, <1>2, <1>3, <1>4, <1>5

-----------------------------------------------------------------------------
(* Encrypt and decrypt                                                     *)

\* The clone and the mounted provider disagree only if a rotation has overtaken
\* the call or is under way, which is what KeyService calls disturbed.
LEMMA MismatchIsDisturbed ==
    ASSUME NEW c \in Conn, TypeInv, RotationInv,
           pc[c] \in {"enc_provider", "dec_provider"},
           key[c].algo # provider.algo
    PROVE  KS!Disturbed(c)
  <1> SUFFICES ASSUME active_key = key[c], KS!Rotating = {}
               PROVE  FALSE
    BY DEF KS!Disturbed
  <1>1. pc \in [Conn -> Labels]
    BY DEF TypeInv, TypeOK, Labels
  <1>2. \A d \in Conn : StageOf(pc[d]) # "accepted"
    BY DEF KS!Rotating
  <1>3. \A d \in Conn : ~Swapping(d)
    BY <1>1, <1>2, AcceptedLabels DEF Swapping
  <1>4. active_key # NoKey
    BY ServedKeyFields DEF TypeInv, HasKey, HoldsKey
  <1> QED
    BY <1>3, <1>4 DEF RotationInv, QuiescentAgreement

\* Why acm_wire::open refuses the bytes it is given: they are no frame of the
\* key (or too short), the provider is not the key's, or the tag is wrong.
LEMMA OpenVerdict ==
    ASSUME NEW q \in [kind : {"ring"}, algo : ProviderAlgo], NEW k \in ServedKey,
           NEW g, Len(g.hdr) \in Nat, Len(g.hdr) <= 12,
           g.nonce.len \in Nat, g.nonce.len <= 12, g.body.len \in Nat,
           Len(g.hdr) < 12 => g.nonce.len = 0, g.nonce.len < 12 => g.body.len = 0
    PROVE  LET text  == wire_open(q, k, g, length(g))
               good  == KS!WellFormed(k, g)
               opens == aead_opens(k.material, g.nonce, g.hdr, g.body)
           IN  /\ text.ok => good /\ opens /\ text.val = g.body.pt
               /\ ~text.ok /\ text.err = "AuthFailed" => good /\ ~opens
               /\ ~text.ok /\ text.err # "AuthFailed" => ~good \/ k.algo # q.algo
  <1> DEFINE text  == wire_open(q, k, g, length(g))
             good  == KS!WellFormed(k, g)
             opens == aead_opens(k.material, g.nonce, g.hdr, g.body)
             head  == decode(g.hdr)
             n     == length(g)
  <1>1. n \in Nat /\ (n < 40 \/ (g.nonce.len = 12 /\ n = 24 + g.body.len))
    <2> DEFINE x == Len(g.hdr)
               y == g.nonce.len
               z == g.body.len
    <2>1. n = x + y + z
      BY Zenon DEF length
    <2>2. /\ x \in Nat /\ x <= 12 /\ y \in Nat /\ y <= 12 /\ z \in Nat
          /\ x < 12 => y = 0
          /\ y < 12 => z = 0
      OBVIOUS
    <2> HIDE DEF x, y, z, n
    <2>3. n \in Nat /\ (n < 40 \/ (y = 12 /\ n = 24 + z))
      BY <2>1, <2>2
    <2> QED
      BY <2>3, Zenon DEF y, z
  <1>2. good <=> /\ head.ok /\ head.val.algo = k.algo /\ head.val.nonce_len = 12
                 /\ n >= 40
    <2>1. frame_len(0, nonce_len(k.algo), tag_len(k.algo)) = 40
      BY DEF frame_len, HEADER_LEN, nonce_len, tag_len
    <2>2. good <=> /\ head.ok /\ head.val.algo = k.algo
                   /\ head.val.nonce_len = nonce_len(k.algo)
                   /\ n >= frame_len(0, nonce_len(k.algo), tag_len(k.algo))
      BY SameCrypto, SameWire, Zenon DEF KS!WellFormed
    <2> HIDE DEF good, head, n
    <2> QED
      BY <2>1, <2>2 DEF nonce_len
  <1>3. ~head.ok => head.err # "AuthFailed"
    BY DEF decode, Err, Ok
  <1>4. q.kind = "ring" /\ k.material.len = key_len(k.algo)
    BY ServedKeyFields
  <1>5. text = IF ~head.ok THEN head
               ELSE IF head.val.algo # q.algo THEN Err("AlgorithmMismatch")
               ELSE IF head.val.nonce_len # 12 THEN Err("NonceLenMismatch")
               ELSE IF n < 12 + head.val.nonce_len + 16 THEN Err("BodyTooShort")
               ELSE IF n < g.body.len - 16 THEN Err("OutputTooSmall")
               ELSE ring_open(q, k, g.nonce, g.hdr, g.body, n)
    BY <1>4, Zenon DEF wire_open, provider_open, body_too_short, hdr_buf, nonce_len,
                  tag_len, HEADER_LEN
  <1>6. g.nonce.len = 12 => ring_open(q, k, g.nonce, g.hdr, g.body, n) =
            IF g.body.len < 16 THEN Err("AuthFailed")
            ELSE IF k.algo # q.algo THEN Err("AlgorithmMismatch")
            ELSE IF n < g.body.len - 16 THEN Err("BufferTooSmall")
            ELSE IF ~opens THEN Err("AuthFailed")
            ELSE Ok(g.body.pt)
    BY <1>4 DEF ring_open, tag_len, nonce_len
  <1> HIDE DEF text, good, opens, head, n
  <1>7. /\ \A e : Err(e).ok = FALSE /\ Err(e).err = e
        /\ \A v : Ok(v).ok = TRUE /\ Ok(v).val = v
    BY DEF Err, Ok
  <1>8. ~(n < 40) => /\ g.nonce.len = 12 /\ n >= 40
                     /\ ~(n < g.body.len - 16) /\ ~(g.body.len < 16)
    BY <1>1
  <1>9. /\ text.ok => good /\ opens /\ text.val = g.body.pt
        /\ ~text.ok /\ text.err = "AuthFailed" => good /\ ~opens
        /\ ~text.ok /\ text.err # "AuthFailed" => ~good \/ k.algo # q.algo
    <2>1. CASE ~head.ok
      BY <1>2, <1>3, <1>5, <2>1
    <2>2. CASE head.ok /\ head.val.algo # q.algo
      BY <1>2, <1>5, <1>7, <2>2
    <2>3. CASE head.ok /\ head.val.algo = q.algo /\ head.val.nonce_len # 12
      BY <1>2, <1>5, <1>7, <2>3
    <2>4. CASE head.ok /\ head.val.algo = q.algo /\ head.val.nonce_len = 12
      <3>1. CASE n < 40
        <4>1. text = Err("BodyTooShort") /\ ~good
          <5>1. 12 + head.val.nonce_len + 16 = 40
            BY <2>4
          <5> QED
            BY <1>1, <1>2, <1>5, <2>4, <3>1, <5>1
        <4> QED
          BY <1>7, <4>1
      <3>2. CASE ~(n < 40)
        <4>1. text = ring_open(q, k, g.nonce, g.hdr, g.body, n)
          BY <1>5, <1>8, <2>4, <3>2
        <4>2. n >= 40
          BY <1>1, <3>2
        <4>3. CASE k.algo # q.algo
          <5>1. text = Err("AlgorithmMismatch")
            BY <1>6, <1>8, <3>2, <4>1, <4>3
          <5> QED
            BY <1>7, <4>3, <5>1
        <4>4. CASE k.algo = q.algo
          <5>1. good
            BY <1>2, <2>4, <4>2, <4>4
          <5>2. text = IF opens THEN Ok(g.body.pt) ELSE Err("AuthFailed")
            BY <1>6, <1>8, <3>2, <4>1, <4>4
          <5> QED
            BY <1>7, <5>1, <5>2
        <4> QED
          BY <4>3, <4>4
      <3> QED
        BY <3>1, <3>2
    <2> QED
      BY <2>1, <2>2, <2>3, <2>4
  <1> QED
    BY <1>9 DEF text, good, opens

\* What KeyService makes of a key and a request is what the daemon sends.
LEMMA SameSealed ==
    ASSUME NEW k, NEW p
    PROVE  KS!Sealed(k, p) = SealedFrame(k, p)
  BY SameCrypto, SameWire, Zenon DEF KS!Sealed, SealedFrame

-----------------------------------------------------------------------------
(* The steps                                                               *)

\* Every task has one request.
RequestPerTask == req = [c \in Conn |-> req[c]]

\* No step gives a task two, or one to nobody.
LEMMA RequestPerTaskStep == RequestPerTask /\ [Next]_vars => RequestPerTask'
  <1> SUFFICES ASSUME RequestPerTask, [Next]_vars
               PROVE  RequestPerTask'
    OBVIOUS
  <1>1. \/ req' = req
        \/ \E c \in Conn : \E r : req' = [req EXCEPT ![c] = r]
        \/ \E r : req' = [c \in Conn |-> r]
    BY DEF Next, vars, slot, counters, locals, history, bounds, Restart, Accept,
           ClientClose, ReadEof, ReadRequest, ReadGarbage, WriteResponse, StatusAlgo,
           StatusKey, StatusSealed, StatusOpened, StatusErrors, RotateValidate,
           RotateSetProvider, RotateSetAlgo, RotateSetKey, SetPolicy, EncryptKey,
           DecryptKey, CloneKey, EncryptSeal, DecryptOpen
  <1> QED
    BY <1>1 DEF RequestPerTask

RefinementInv == /\ TypeInv /\ RotationInv /\ AlgoOfSlot
                 /\ StatusInv /\ PlainInv /\ RequestPerTask

\* Calls that begin and end, and those that touch no key.
LEMMA ServerRefines ==
    ASSUME RefinementInv, NEW c \in Conn,
           \/ Accept(c) \/ ClientClose(c) \/ ReadEof(c)
           \/ \E r \in Requests(c) : ReadRequest(c, r)
           \/ ReadGarbage(c) \/ WriteResponse(c) \/ SetPolicy(c)
    PROVE  [KS!Next]_(KS!vars)
  <1> USE DEF slot, counters, locals, history, bounds
  <1>1. /\ pc \in [Conn -> Labels] /\ DOMAIN req = Conn /\ DOMAIN resp = Conn
        /\ DOMAIN report = Conn
    BY DEF RefinementInv, TypeInv, TypeOK, Domains, Labels, StatusInv, ReportsTyped
  <1>2. CASE ClientClose(c)
    BY <1>2 DEF ClientClose, KS!vars
  <1>3. CASE Accept(c) \/ ReadEof(c)
    <2>1. /\ pc[c] \in {"closed", "read"}
          /\ \E l \in {"closed", "read"} : pc' = [pc EXCEPT ![c] = l]
          /\ UNCHANGED <<active_key, req, key, report, resp>>
      BY <1>3 DEF Accept, ReadEof, Goto
    <2>2. Stage' = Stage
      <3>1. PICK l \in {"closed", "read"} : pc' = [pc EXCEPT ![c] = l]
        BY <2>1
      <3>2. StageOf(l) = StageOf(pc[c])
        BY <2>1, StageTable
      <3> QED
        BY <1>1, <3>1, <3>2 DEF Stage
    <2> QED
      BY <2>1, <2>2 DEF KS!vars, Stage
  <1>4. ASSUME NEW r \in Requests(c), ReadRequest(c, r)
        PROVE  KS!Ask(c)
    <2>1. /\ pc[c] = "read" /\ pc' = [pc EXCEPT ![c] = entry(r.method)]
          /\ req' = [req EXCEPT ![c] = r]
          /\ UNCHANGED <<active_key, key, report, resp>>
      BY <1>4 DEF ReadRequest, Goto
    <2>2. StageOf(entry(r.method)) = "asked" /\ StageOf(pc[c]) = "idle"
      BY <2>1, RequestKinds, EntryLabels, StageTable
    <2>3. Stage[c] = "idle" /\ Stage' = [Stage EXCEPT ![c] = "asked"]
      BY <1>1, <2>1, <2>2, MappedMove
    <2>4. req' = [req EXCEPT ![c] = req'[c]]
      BY <1>1, <2>1
    <2> QED
      BY <2>1, <2>3, <2>4 DEF KS!Ask, KS!Goto, Stage
  <1>5. CASE ReadGarbage(c)
    <2>1. /\ pc[c] = "read" /\ pc' = [pc EXCEPT ![c] = "write"]
          /\ req' = [req EXCEPT ![c] = NoReq]
          /\ resp' = [resp EXCEPT ![c] = Error(400)]
          /\ UNCHANGED <<active_key, key, report>>
      BY <1>5 DEF ReadGarbage, Respond, Goto
    <2>2. Stage[c] = "idle" /\ Stage' = [Stage EXCEPT ![c] = "answered"]
      <3>1. StageOf(pc[c]) = "idle" /\ StageOf("write") = "answered"
        BY <2>1, StageTable
      <3> QED
        BY <1>1, <2>1, <3>1, MappedMove
    <2>3. Answered' = [Answered EXCEPT ![c] = KS!Refusal(400)]
      <3>1. AnswerOf(Error(400)) = KS!Refusal(400)
        BY DEF AnswerOf, Error, KS!Refusal
      <3> QED
        BY <1>1, <2>1, <3>1, MappedAnswer
    <2>4. req' = req
      BY <1>1, <2>1 DEF RefinementInv, PlainInv, AtLabel, RequestPerTask
    <2>5. KS!Reject(c)
      BY <2>1, <2>2, <2>3, <2>4 DEF KS!Reject, KS!Answer, KS!Goto, Stage, Answered
    <2> QED
      BY <2>5 DEF KS!Next
  <1>6. CASE WriteResponse(c)
    <2>1. /\ pc[c] = "write"
          /\ pc' = [pc EXCEPT ![c] = IF peer[c] THEN "read" ELSE "closed"]
          /\ req' = [req EXCEPT ![c] = NoReq]
          /\ key' = [key EXCEPT ![c] = NoKey]
          /\ report' = [report EXCEPT ![c] = EmptyReport]
          /\ resp' = [resp EXCEPT ![c] = NoResp]
          /\ UNCHANGED active_key
      BY <1>6 DEF WriteResponse, Goto
    <2>2. StageOf(pc[c]) = "answered" /\ StageOf(IF peer[c] THEN "read" ELSE "closed") = "idle"
      BY <2>1, StageTable
    <2>3. Stage[c] = "answered" /\ Stage' = [Stage EXCEPT ![c] = "idle"]
      BY <1>1, <2>1, <2>2, MappedMove
    <2>4. Note' = [Note EXCEPT ![c] = KS!EmptyNote]
      <3>1. NoteOf(EmptyReport) = KS!EmptyNote
        BY DEF NoteOf, EmptyReport, KS!EmptyNote
      <3> QED
        BY <1>1, <2>1, <3>1, MappedReport
    <2>5. Answered' = [Answered EXCEPT ![c] = KS!NoAnswer]
      <3>1. AnswerOf(NoResp) = KS!NoAnswer
        BY DEF AnswerOf, NoResp, KS!NoAnswer
      <3> QED
        BY <1>1, <2>1, <3>1, MappedAnswer
    <2>6. NoReq = KS!NoAsk
      BY DEF NoReq, KS!NoAsk
    <2>7. KS!Finish(c)
      BY <2>1, <2>3, <2>4, <2>5, <2>6 DEF KS!Finish, KS!Goto, Stage, Note, Answered
    <2> QED
      BY <2>7 DEF KS!Next
  <1>7. CASE SetPolicy(c)
    <2>1. /\ pc[c] = "policy" /\ pc' = [pc EXCEPT ![c] = "write"]
          /\ resp' = [resp EXCEPT ![c] = OkResponse]
          /\ UNCHANGED <<active_key, req, key, report>>
      BY <1>7 DEF SetPolicy, Respond, Goto
    <2>2. Stage[c] = "asked" /\ Stage' = [Stage EXCEPT ![c] = "answered"]
      <3>1. StageOf(pc[c]) = "asked" /\ StageOf("write") = "answered"
        BY <2>1, StageTable
      <3> QED
        BY <1>1, <2>1, <3>1, MappedMove
    <2>3. Answered' = [Answered EXCEPT ![c] = [kind |-> "ok"]]
      BY <1>1, <2>1, MappedAnswer DEF AnswerOf, OkResponse
    <2>4. req[c].method = "set_policy"
      BY <2>1 DEF RefinementInv, PlainInv, AtLabel
    <2>5. KS!SetPolicy(c)
      BY <2>1, <2>2, <2>3, <2>4 DEF KS!SetPolicy, KS!Answer, KS!Goto, Stage, Answered
    <2> QED
      BY <2>5 DEF KS!Next
  <1> QED
    BY <1>2, <1>3, <1>4, <1>5, <1>6, <1>7 DEF KS!Next

\* get_status: two looks, and three loads of counters that KeyService knows
\* nothing of.
LEMMA StatusRefines ==
    ASSUME RefinementInv, NEW c \in Conn,
           \/ StatusAlgo(c) \/ StatusKey(c) \/ StatusSealed(c)
           \/ StatusOpened(c) \/ StatusErrors(c)
    PROVE  [KS!Next]_(KS!vars)
  <1> USE DEF slot, counters, locals, history, bounds
  <1>1. /\ pc \in [Conn -> Labels] /\ DOMAIN req = Conn /\ DOMAIN resp = Conn
        /\ DOMAIN report = Conn /\ report[c] \in Report
    BY DEF RefinementInv, TypeInv, TypeOK, Domains, Labels, StatusInv, ReportsTyped
  <1>2. \A r \in Report : \A x :
            /\ NoteOf([r EXCEPT !.algo = x]) = [NoteOf(r) EXCEPT !.algo = x]
            /\ NoteOf([r EXCEPT !.key_id = x]) = [NoteOf(r) EXCEPT !.key_id = x]
            /\ NoteOf([r EXCEPT !.sealed = x]) = NoteOf(r)
            /\ NoteOf([r EXCEPT !.opened = x]) = NoteOf(r)
            /\ NoteOf([r EXCEPT !.errors = x]) = NoteOf(r)
    BY DEF NoteOf, Report
  <1>3. req[c].method = "get_status"
    BY DEF RefinementInv, PlainInv, AtLabel, StatusAlgo, StatusKey, StatusSealed,
           StatusOpened, StatusErrors
  <1>4. CASE StatusAlgo(c)
    <2> DEFINE r == [report[c] EXCEPT !.algo = active_algo]
               n == [NoteOf(report[c]) EXCEPT !.algo = active_algo]
    <2>1. /\ pc[c] = "status_algo" /\ pc' = [pc EXCEPT ![c] = "status_key"]
          /\ report' = [report EXCEPT ![c] = r]
          /\ UNCHANGED <<active_key, req, key, resp>>
      BY <1>4 DEF StatusAlgo, Goto
    <2>2. Stage[c] = "asked" /\ Stage' = [Stage EXCEPT ![c] = "looked"]
      <3>1. StageOf(pc[c]) = "asked" /\ StageOf("status_key") = "looked"
        BY <2>1, StageTable
      <3> QED
        BY <1>1, <2>1, <3>1, MappedMove
    <2>3. NoteOf(r) = n
      BY <1>1, <1>2
    <2> HIDE DEF r, n
    <2>4. Note[c] = NoteOf(report[c]) /\ Note' = [Note EXCEPT ![c] = n]
      BY <1>1, <2>1, <2>3, MappedReport
    <2>5. Note' = [Note EXCEPT ![c].algo = active_algo]
      BY <2>4 DEF n
    <2>6. active_algo \in {IF active_key = NoKey THEN "Aes256Gcm" ELSE active_key.algo}
                         \cup {key[d].algo : d \in KS!Rotating}
      <3>1. CASE \A d \in Conn : pc[d] # "set_key"
        BY <3>1 DEF RefinementInv, AlgoOfSlot
      <3>2. CASE \E d \in Conn : pc[d] = "set_key"
        <4>1. PICK d \in Conn : pc[d] = "set_key"
          BY <3>2
        <4>2. active_algo = key[d].algo
          BY <4>1 DEF RefinementInv, RotationInv, SwapProgress
        <4>3. d \in KS!Rotating
          BY <1>1, <4>1, StageTable DEF KS!Rotating
        <4> QED
          BY <4>2, <4>3
      <3> QED
        BY <3>1, <3>2
    <2>7. KS!Look(c)
      BY <1>3, <2>1, <2>2, <2>5, <2>6 DEF KS!Look, KS!Goto, Stage, Note
    <2> QED
      BY <2>7 DEF KS!Next
  <1>5. CASE StatusKey(c)
    <2> DEFINE id == IF active_key = NoKey THEN NoKey ELSE active_key.id
               r  == [report[c] EXCEPT !.key_id = id]
               n  == [NoteOf(report[c]) EXCEPT !.key_id = id]
    <2>1. /\ pc[c] = "status_key" /\ pc' = [pc EXCEPT ![c] = "status_sealed"]
          /\ report' = [report EXCEPT ![c] = r]
          /\ UNCHANGED <<active_key, req, key, resp>>
      BY <1>5 DEF StatusKey, Goto
    <2>2. Stage[c] = "looked" /\ Stage' = [Stage EXCEPT ![c] = "taken"]
      <3>1. StageOf(pc[c]) = "looked" /\ StageOf("status_sealed") = "taken"
        BY <2>1, StageTable
      <3> QED
        BY <1>1, <2>1, <3>1, MappedMove
    <2>3. NoteOf(r) = n
      BY <1>1, <1>2
    <2> HIDE DEF r, n
    <2>4. Note[c] = NoteOf(report[c]) /\ Note' = [Note EXCEPT ![c] = n]
      BY <1>1, <2>1, <2>3, MappedReport
    <2>5. Note' = [Note EXCEPT ![c].key_id = id]
      BY <2>4 DEF n
    <2>6. KS!NoteKey(c)
      BY <2>1, <2>2, <2>5 DEF KS!NoteKey, KS!Goto, Stage, Note
    <2> QED
      BY <2>6 DEF KS!Next
  <1>6. CASE StatusSealed(c) \/ StatusOpened(c)
    <2>1. /\ pc[c] \in {"status_sealed", "status_opened"}
          /\ \E l \in {"status_opened", "status_errors"} : pc' = [pc EXCEPT ![c] = l]
          /\ \/ report' = [report EXCEPT ![c].sealed = packets_sealed]
             \/ report' = [report EXCEPT ![c].opened = packets_opened]
          /\ UNCHANGED <<active_key, req, key, resp>>
      BY <1>6 DEF StatusSealed, StatusOpened, Goto
    <2>2. Stage' = Stage
      <3>1. PICK l \in {"status_opened", "status_errors"} : pc' = [pc EXCEPT ![c] = l]
        BY <2>1
      <3>2. StageOf(l) = StageOf(pc[c])
        BY <2>1, StageTable
      <3> QED
        BY <1>1, <3>1, <3>2 DEF Stage
    <2> DEFINE x == [report[c] EXCEPT !.sealed = packets_sealed]
               y == [report[c] EXCEPT !.opened = packets_opened]
    <2>3. NoteOf(x) = NoteOf(report[c]) /\ NoteOf(y) = NoteOf(report[c])
      BY <1>1, <1>2
    <2>4. report' = [report EXCEPT ![c] = x] \/ report' = [report EXCEPT ![c] = y]
      BY <2>1
    <2> HIDE DEF x, y
    <2>5. Note' = Note
      BY <1>1, <2>3, <2>4 DEF Note
    <2> QED
      BY <2>1, <2>2, <2>5 DEF KS!vars, Stage, Note
  <1>7. CASE StatusErrors(c)
    <2> DEFINE r == [report[c] EXCEPT !.errors = crypto_errors]
    <2>1. /\ pc[c] = "status_errors" /\ pc' = [pc EXCEPT ![c] = "write"]
          /\ report' = [report EXCEPT ![c] = r]
          /\ resp' = [resp EXCEPT ![c] = Status(r)]
          /\ UNCHANGED <<active_key, req, key>>
      BY <1>7 DEF StatusErrors, Respond, Goto
    <2>2. Stage[c] = "taken" /\ Stage' = [Stage EXCEPT ![c] = "answered"]
      <3>1. StageOf(pc[c]) = "taken" /\ StageOf("write") = "answered"
        BY <2>1, StageTable
      <3> QED
        BY <1>1, <2>1, <3>1, MappedMove
    <2>3. NoteOf(r) = NoteOf(report[c])
      BY <1>1, <1>2
    <2> HIDE DEF r
    <2>4. Note' = Note
      BY <1>1, <2>1, <2>3 DEF Note
    <2>5. Answered' = [Answered EXCEPT ![c] = [kind |-> "status", report |-> Note[c]]]
      <3>1. AnswerOf(Status(r)) = [kind |-> "status", report |-> Note[c]]
        BY <2>3 DEF AnswerOf, Status, Note
      <3> QED
        BY <1>1, <2>1, <3>1, MappedAnswer
    <2>6. KS!Report(c)
      BY <1>3, <2>1, <2>2, <2>4, <2>5 DEF KS!Report, KS!Answer, KS!Goto, Stage, Note, Answered
    <2> QED
      BY <2>6 DEF KS!Next
  <1> QED
    BY <1>4, <1>5, <1>6, <1>7

\* rotate_key: its verdict, two assignments that do not show, and the third,
\* which is the rotation.
LEMMA RotateRefines ==
    ASSUME RefinementInv, NEW c \in Conn,
           \/ RotateValidate(c) \/ RotateSetProvider(c) \/ RotateSetAlgo(c)
           \/ RotateSetKey(c)
    PROVE  [KS!Next]_(KS!vars)
  <1> USE DEF slot, counters, locals, history, bounds
  <1>1. /\ pc \in [Conn -> Labels] /\ DOMAIN req = Conn /\ DOMAIN resp = Conn
        /\ DOMAIN report = Conn
    BY DEF RefinementInv, TypeInv, TypeOK, Domains, Labels, StatusInv, ReportsTyped
  <1>2. CASE RotateValidate(c)
    <2> DEFINE p       == req[c].params
               algo    == from_u8(p.algo)
               verdict == rotate_outcome(p)
               good    == algo \in ProviderAlgo /\ p.material.len = key_len(algo)
               handle  == [id |-> p.key_id, algo |-> algo, material |-> p.material]
               code    == IF algo = "OzDst1105" THEN 501 ELSE 422
    <2>1. pc[c] = "rotate" /\ req[c].method = "rotate_key"
      BY <1>2 DEF RotateValidate, RefinementInv, TypeInv, ServesRequest, Rotating, Handling
    <2>2. verdict = IF good THEN Ok(handle) ELSE Err(code)
      BY RotateVerdict
    <2>3. KS!Acceptable(p) <=> good
      BY SameCrypto, Zenon DEF KS!Acceptable
    <2>4. KS!from_u8(p.algo) = algo
      BY SameCrypto
    <2>5. /\ \/ /\ ~verdict.ok
                /\ resp' = [resp EXCEPT ![c] = Error(verdict.err)]
                /\ pc' = [pc EXCEPT ![c] = "write"]
                /\ key' = key
             \/ /\ verdict.ok
                /\ key' = [key EXCEPT ![c] = verdict.val]
                /\ pc' = [pc EXCEPT ![c] = "set_provider"]
                /\ resp' = resp
          /\ UNCHANGED <<active_key, req, report>>
      BY <1>2 DEF RotateValidate, Respond, Goto
    <2> HIDE DEF verdict, good, handle, code, algo
    <2>6. CASE good
      <3>1. verdict.ok /\ verdict.val = handle
        BY <2>2, <2>6 DEF Ok
      <3>2. Stage[c] = "asked" /\ Stage' = [Stage EXCEPT ![c] = "accepted"]
        <4>1. StageOf(pc[c]) = "asked" /\ StageOf("set_provider") = "accepted"
          BY <2>1, StageTable
        <4> QED
          BY <1>1, <2>5, <3>1, <4>1, MappedMove
      <3>3. KS!Accept(c)
        BY <2>1, <2>3, <2>4, <2>5, <2>6, <3>1, <3>2
           DEF KS!Accept, KS!Goto, Stage, handle
      <3> QED
        BY <3>3 DEF KS!Next
    <2>7. CASE ~good
      <3>1. ~verdict.ok /\ verdict.err = code
        BY <2>2, <2>7 DEF Err
      <3>2. Stage[c] = "asked" /\ Stage' = [Stage EXCEPT ![c] = "answered"]
        <4>1. StageOf(pc[c]) = "asked" /\ StageOf("write") = "answered"
          BY <2>1, StageTable
        <4> QED
          BY <1>1, <2>5, <3>1, <4>1, MappedMove
      <3>3. Answered' = [Answered EXCEPT ![c] = KS!Refusal(code)]
        <4>1. AnswerOf(Error(code)) = KS!Refusal(code)
          BY DEF AnswerOf, Error, KS!Refusal
        <4> QED
          BY <1>1, <2>5, <3>1, <4>1, MappedAnswer
      <3>4. KS!Refuse(c)
        BY <2>1, <2>3, <2>4, <2>5, <2>7, <3>1, <3>2, <3>3
           DEF KS!Refuse, KS!Answer, KS!Goto, Stage, Answered, code
      <3> QED
        BY <3>4 DEF KS!Next
    <2> QED
      BY <2>6, <2>7
  <1>3. CASE RotateSetProvider(c) \/ RotateSetAlgo(c)
    <2>1. /\ pc[c] \in {"set_provider", "set_algo"}
          /\ \E l \in {"set_algo", "set_key"} : pc' = [pc EXCEPT ![c] = l]
          /\ UNCHANGED <<active_key, req, key, report, resp>>
      BY <1>3 DEF RotateSetProvider, RotateSetAlgo, Goto
    <2>2. Stage' = Stage
      <3>1. PICK l \in {"set_algo", "set_key"} : pc' = [pc EXCEPT ![c] = l]
        BY <2>1
      <3>2. StageOf(l) = StageOf(pc[c])
        BY <2>1, StageTable
      <3> QED
        BY <1>1, <3>1, <3>2 DEF Stage
    <2> QED
      BY <2>1, <2>2 DEF KS!vars, Stage
  <1>4. CASE RotateSetKey(c)
    <2>1. /\ pc[c] = "set_key" /\ pc' = [pc EXCEPT ![c] = "write"]
          /\ resp' = [resp EXCEPT ![c] = OkResponse]
          /\ active_key' = key[c]
          /\ UNCHANGED <<req, key, report>>
      BY <1>4 DEF RotateSetKey, Respond, Goto
    <2>2. Stage[c] = "accepted" /\ Stage' = [Stage EXCEPT ![c] = "answered"]
      <3>1. StageOf(pc[c]) = "accepted" /\ StageOf("write") = "answered"
        BY <2>1, StageTable
      <3> QED
        BY <1>1, <2>1, <3>1, MappedMove
    <2>3. Answered' = [Answered EXCEPT ![c] = [kind |-> "ok"]]
      BY <1>1, <2>1, MappedAnswer DEF AnswerOf, OkResponse
    <2>4. KS!Install(c)
      BY <2>1, <2>2, <2>3 DEF KS!Install, KS!Answer, KS!Goto, Stage, Answered
    <2> QED
      BY <2>4 DEF KS!Next
  <1> QED
    BY <1>2, <1>3, <1>4

\* encrypt and decrypt: the key is taken out of the slot, and what becomes of
\* the call is what becomes of it under that key, or it was disturbed.
LEMMA CryptRefines ==
    ASSUME RefinementInv, NEW c \in Conn,
           EncryptKey(c) \/ EncryptSeal(c) \/ DecryptKey(c) \/ DecryptOpen(c)
    PROVE  [KS!Next]_(KS!vars)
  <1> USE DEF slot, counters, locals, history, bounds
  <1>1. /\ pc \in [Conn -> Labels] /\ DOMAIN req = Conn /\ DOMAIN resp = Conn
        /\ DOMAIN report = Conn
        /\ provider \in [kind : {"ring"}, algo : ProviderAlgo]
    BY DEF RefinementInv, TypeInv, TypeOK, Domains, Labels, StatusInv, ReportsTyped
  <1>2. \A code : AnswerOf(Error(code)) = KS!Refusal(code)
    BY DEF AnswerOf, Error, KS!Refusal
  <1>3. CASE EncryptKey(c) \/ DecryptKey(c)
    <2>1. PICK to \in {"enc_provider", "dec_provider"} :
            /\ pc[c] \in {"enc_key", "dec_key"}
            /\ \/ /\ active_key = NoKey
                  /\ resp' = [resp EXCEPT ![c] = Error(409)]
                  /\ pc' = [pc EXCEPT ![c] = "write"]
                  /\ key' = key
               \/ /\ active_key # NoKey
                  /\ key' = [key EXCEPT ![c] = active_key]
                  /\ pc' = [pc EXCEPT ![c] = to]
                  /\ resp' = resp
            /\ UNCHANGED <<active_key, req, report>>
      BY <1>3 DEF EncryptKey, DecryptKey, CloneKey, Respond, Goto
    <2>2. req[c].method \in {"encrypt", "decrypt"}
      BY <2>1 DEF RefinementInv, PlainInv, AtLabel, TypeInv, ServesRequest, Encrypting
    <2>3. StageOf(pc[c]) = "asked" /\ StageOf(to) = "taken" /\ StageOf("write") = "answered"
      BY <2>1, StageTable
    <2>4. CASE active_key = NoKey
      <3>1. Stage[c] = "asked" /\ Stage' = [Stage EXCEPT ![c] = "answered"]
        BY <1>1, <2>1, <2>3, <2>4, MappedMove
      <3>2. Answered' = [Answered EXCEPT ![c] = KS!Refusal(409)]
        <4>1. AnswerOf(Error(409)) = KS!Refusal(409)
          BY <1>2
        <4> QED
          BY <1>1, <2>1, <2>4, <4>1, MappedAnswer
      <3>3. KS!Take(c)
        BY <2>1, <2>2, <2>4, <3>1, <3>2 DEF KS!Take, KS!Answer, KS!Goto, Stage, Answered
      <3> QED
        BY <3>3 DEF KS!Next
    <2>5. CASE active_key # NoKey
      <3>1. Stage[c] = "asked" /\ Stage' = [Stage EXCEPT ![c] = "taken"]
        BY <1>1, <2>1, <2>3, <2>5, MappedMove
      <3>2. KS!Take(c)
        BY <2>1, <2>2, <2>5, <3>1 DEF KS!Take, KS!Goto, Stage
      <3> QED
        BY <3>2 DEF KS!Next
    <2> QED
      BY <2>4, <2>5
  <1>4. CASE EncryptSeal(c)
    <2> DEFINE p     == req[c].params
               frame == wire_seal(provider, key[c], key[c].id, p.nonce, 0, p.plaintext,
                          frame_len(p.plaintext.len, p.nonce.len, tag_len(provider.algo)))
    <2>1. /\ pc[c] = "enc_provider" /\ key[c] \in ServedKey /\ p \in EncryptParams
          /\ req[c].method = "encrypt"
      BY <1>4 DEF EncryptSeal, RefinementInv, TypeInv, HasKey, HoldsKey, ServesRequest,
                  Encrypting, Handling
    <2>2. /\ pc' = [pc EXCEPT ![c] = "write"]
          /\ UNCHANGED <<active_key, req, key, report>>
          /\ \/ p.nonce.len # 12 /\ resp' = [resp EXCEPT ![c] = Error(422)]
             \/ /\ p.nonce.len = 12 /\ frame.ok
                /\ resp' = [resp EXCEPT ![c] = Ciphertext(frame.val)]
             \/ /\ p.nonce.len = 12 /\ ~frame.ok
                /\ resp' = [resp EXCEPT ![c] = Error(500)]
      BY <1>4 DEF EncryptSeal, SealRequest, Respond, Goto, nonce_len
    <2>3. frame.ok => frame.val = KS!Sealed(key[c], p)
      <3>1. frame_len(p.plaintext.len, p.nonce.len, tag_len(provider.algo)) \in Int
        BY <2>1, CryptodAssumption DEF frame_len, HEADER_LEN, tag_len, Blob
      <3>2. frame.ok => frame.val = SealedFrame(key[c], p)
        BY <1>1, <2>1, <3>1, EncryptMakesFrame
      <3> QED
        BY <3>2, SameSealed
    <2>4. p.nonce.len = 12 /\ ~frame.ok => KS!Disturbed(c)
      <3>1. p.nonce.len = 12 /\ ~frame.ok => key[c].algo # provider.algo
        BY <1>1, <2>1, SealCannotFail
      <3> QED
        BY <2>1, <3>1, MismatchIsDisturbed DEF RefinementInv
    <2>5. KS!nonce_len(key[c].algo) = 12
      BY DEF KS!nonce_len
    <2> HIDE DEF frame
    <2>6. Stage[c] = "taken" /\ Stage' = [Stage EXCEPT ![c] = "answered"]
      <3>1. StageOf(pc[c]) = "taken" /\ StageOf("write") = "answered"
        BY <2>1, StageTable
      <3>2. pc' = [pc EXCEPT ![c] = "write"]
        BY <2>2
      <3> QED
        BY <1>1, <3>1, <3>2, MappedMove
    <2>7. \/ p.nonce.len # 12 /\ Answered' = [Answered EXCEPT ![c] = KS!Refusal(422)]
          \/ /\ p.nonce.len = 12
             /\ Answered' = [Answered EXCEPT ![c] =
                    [kind |-> "ciphertext", frame |-> KS!Sealed(key[c], p)]]
          \/ /\ p.nonce.len = 12 /\ KS!Disturbed(c)
             /\ Answered' = [Answered EXCEPT ![c] = KS!Refusal(500)]
      <3>1. /\ AnswerOf(Error(422)) = KS!Refusal(422)
            /\ AnswerOf(Error(500)) = KS!Refusal(500)
        BY <1>2
      <3>2. AnswerOf(Ciphertext(frame.val)) = [kind |-> "ciphertext", frame |-> frame.val]
        BY DEF AnswerOf, Ciphertext
      <3>3. CASE p.nonce.len # 12
        BY <1>1, <2>2, <3>1, <3>3, MappedAnswer
      <3>4. CASE p.nonce.len = 12 /\ frame.ok
        BY <1>1, <2>2, <2>3, <3>2, <3>4, MappedAnswer
      <3>5. CASE p.nonce.len = 12 /\ ~frame.ok
        BY <1>1, <2>2, <2>4, <3>1, <3>5, MappedAnswer
      <3> QED
        BY <3>3, <3>4, <3>5
    <2> HIDE DEF p
    <2>8. KS!Encrypt(c)
      BY <2>1, <2>2, <2>5, <2>6, <2>7
         DEF KS!Encrypt, KS!Answer, KS!Goto, Stage, Answered, p
    <2> QED
      BY <2>8 DEF KS!Next
  <1>5. CASE DecryptOpen(c)
    <2> DEFINE g     == req[c].params
               text  == wire_open(provider, key[c], g, length(g))
               good  == KS!WellFormed(key[c], g)
               opens == aead_opens(key[c].material, g.nonce, g.hdr, g.body)
    <2>1. /\ pc[c] = "dec_provider" /\ key[c] \in ServedKey
          /\ req[c].method = "decrypt"
      BY <1>5 DEF DecryptOpen, RefinementInv, TypeInv, HasKey, HoldsKey, PlainInv, AtLabel
    <2>2. /\ pc' = [pc EXCEPT ![c] = "write"]
          /\ UNCHANGED <<active_key, req, key, report>>
          /\ \/ text.ok /\ resp' = [resp EXCEPT ![c] = Plaintext(text.val)]
             \/ /\ ~text.ok
                /\ resp' = [resp EXCEPT ![c] = Error(open_error(text.err))]
      BY <1>5 DEF DecryptOpen, Respond, Goto
    <2>3. /\ Len(g.hdr) \in Nat /\ Len(g.hdr) <= 12
          /\ g.nonce.len \in Nat /\ g.nonce.len <= 12 /\ g.body.len \in Nat
          /\ Len(g.hdr) < 12 => g.nonce.len = 0
          /\ g.nonce.len < 12 => g.body.len = 0
      <3>1. g \in ClientFrames /\ FramesOutside
        BY <2>1 DEF RefinementInv, PlainInv, DecryptsFrames, Handling
      <3> HIDE DEF g
      <3> QED
        BY <3>1, ClientFrame
    <2>4. /\ text.ok => good /\ opens /\ text.val = g.body.pt
          /\ ~text.ok /\ text.err = "AuthFailed" => good /\ ~opens
          /\ ~text.ok /\ text.err # "AuthFailed" => ~good \/ key[c].algo # provider.algo
      BY <1>1, <2>1, <2>3, OpenVerdict
    <2>5. key[c].algo # provider.algo => KS!Disturbed(c)
      BY <2>1, MismatchIsDisturbed DEF RefinementInv
    <2>6. KS!aead_opens(key[c].material, g.nonce, g.hdr, g.body) <=> opens
      BY SameCrypto
    <2>7. Stage[c] = "taken" /\ Stage' = [Stage EXCEPT ![c] = "answered"]
      <3>1. StageOf(pc[c]) = "taken" /\ StageOf("write") = "answered"
        BY <2>1, StageTable
      <3> QED
        BY <1>1, <2>2, <3>1, MappedMove
    <2> HIDE DEF text, good, opens
    <2>8. \/ /\ good /\ opens
             /\ Answered' = [Answered EXCEPT ![c] =
                                  [kind |-> "plaintext", text |-> g.body.pt]]
          \/ /\ good /\ ~opens
             /\ Answered' = [Answered EXCEPT ![c] = KS!Refusal(401)]
          \/ /\ ~good \/ KS!Disturbed(c)
             /\ Answered' = [Answered EXCEPT ![c] = KS!Refusal(422)]
      <3>1. CASE text.ok
        <4>1. AnswerOf(Plaintext(text.val)) = [kind |-> "plaintext", text |-> g.body.pt]
          BY <2>4, <3>1 DEF AnswerOf, Plaintext
        <4> QED
          BY <1>1, <2>2, <2>4, <3>1, <4>1, MappedAnswer
      <3>2. CASE ~text.ok /\ text.err = "AuthFailed"
        <4>1. AnswerOf(Error(open_error(text.err))) = KS!Refusal(401)
          BY <1>2, <3>2 DEF open_error
        <4> QED
          BY <1>1, <2>2, <2>4, <3>2, <4>1, MappedAnswer
      <3>3. CASE ~text.ok /\ text.err # "AuthFailed"
        <4>1. AnswerOf(Error(open_error(text.err))) = KS!Refusal(422)
          BY <1>2, <3>3 DEF open_error
        <4> QED
          BY <1>1, <2>2, <2>4, <2>5, <3>3, <4>1, MappedAnswer
      <3> QED
        BY <3>1, <3>2, <3>3
    <2> HIDE DEF g
    <2>9. KS!Decrypt(c)
      BY <2>1, <2>2, <2>6, <2>7, <2>8
         DEF KS!Decrypt, KS!Answer, KS!Goto, Stage, Answered, g, good
    <2> QED
      BY <2>9 DEF KS!Next
  <1> QED
    BY <1>3, <1>4, <1>5

\* A restart of the daemon is the loss of everything that KeyService allows for.
LEMMA RestartRefines == Restart => KS!Reset
  <1> SUFFICES ASSUME Restart PROVE KS!Reset
    OBVIOUS
  <1>1. NoReq = KS!NoAsk
    BY DEF NoReq, KS!NoAsk
  <1>2. Stage' = [c \in Conn |-> "idle"]
    BY StageTable DEF Restart, Stage
  <1>3. Note' = [c \in Conn |-> KS!EmptyNote]
    <2>1. NoteOf(EmptyReport) = KS!EmptyNote
      BY DEF NoteOf, EmptyReport, KS!EmptyNote
    <2> QED
      BY <2>1 DEF Restart, Note
  <1>4. Answered' = [c \in Conn |-> KS!NoAnswer]
    <2>1. AnswerOf(NoResp) = KS!NoAnswer
      BY DEF AnswerOf, NoResp, KS!NoAnswer
    <2> QED
      BY <2>1 DEF Restart, Answered
  <1> QED
    BY <1>1, <1>2, <1>3, <1>4 DEF Restart, KS!Reset, KS!Idle, Stage, Note, Answered

\* A new daemon is an empty KeyService.
LEMMA InitRefines == Init => KS!Init
  <1> SUFFICES ASSUME Init PROVE KS!Init
    OBVIOUS
  <1>1. NoReq = KS!NoAsk
    BY DEF NoReq, KS!NoAsk
  <1>2. Stage = [c \in Conn |-> "idle"]
    BY StageTable DEF Init, Stage
  <1>3. Note = [c \in Conn |-> KS!EmptyNote]
    <2>1. NoteOf(EmptyReport) = KS!EmptyNote
      BY DEF NoteOf, EmptyReport, KS!EmptyNote
    <2> QED
      BY <2>1 DEF Init, Note
  <1>4. Answered = [c \in Conn |-> KS!NoAnswer]
    <2>1. AnswerOf(NoResp) = KS!NoAnswer
      BY DEF AnswerOf, NoResp, KS!NoAnswer
    <2> QED
      BY <2>1 DEF Init, Answered
  <1> QED
    BY <1>1, <1>2, <1>3, <1>4 DEF Init, KS!Init, KS!Idle, Stage, Note, Answered

\* Every step of the daemon is a step of KeyService or none.
LEMMA StepRefines == RefinementInv /\ [Next]_vars => [KS!Next]_(KS!vars)
  <1> SUFFICES ASSUME RefinementInv, [Next]_vars
               PROVE  [KS!Next]_(KS!vars)
    OBVIOUS
  <1>1. CASE UNCHANGED vars
    BY <1>1 DEF vars, slot, locals, KS!vars
  <1>2. CASE Restart
    BY <1>2, RestartRefines DEF KS!Next
  <1> QED
    BY <1>1, <1>2, ServerRefines, StatusRefines, RotateRefines, CryptRefines DEF Next

\* As long as one connection does all the rotations, the daemon implements
\* KeyService: three assignments under three locks look like one slot that
\* changes at once, and encrypt and decrypt, which read key and provider one
\* after the other, like calls that work with one key.
THEOREM RefinementCorrect ==
    ASSUME SingleRotator
    PROVE  Spec => ImplementsKeyService
  <1>1. Init => RefinementInv
    <2>1. Init => AlgoOfSlot /\ RequestPerTask
      BY DEF Init, AlgoOfSlot, RequestPerTask
    <2> QED
      BY <2>1, TypeInit, RotationInit, StatusInit, PlainInit DEF RefinementInv
  <1>2. RefinementInv /\ [Next]_vars => RefinementInv'
    BY TypeStep, RotationStep, AlgoStep, StatusStep, PlainStep, RequestPerTaskStep
       DEF RefinementInv
  <1> QED
    BY <1>1, <1>2, InitRefines, StepRefines, PTL DEF Spec, KS!Spec, ImplementsKeyService
=============================================================================
