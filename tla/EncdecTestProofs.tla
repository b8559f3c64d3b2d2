-------------------------- MODULE EncdecTestProofs --------------------------
(***************************************************************************)
(* acm-encdec-test against the daemon, for any number of other clients,    *)
(* any keys, nonces and plaintexts: as long as nobody else uses the key,   *)
(* the test never reports a wrong answer.                                  *)
(***************************************************************************)
EXTENDS EncdecTest, CryptodProofs

-----------------------------------------------------------------------------
(* The inductive invariant                                                 *)

Idle     == {"closed", "read"}
Asking   == {"status_algo", "status_key", "status_sealed", "status_opened",
             "status_errors"}
Crypting == {"enc_key", "enc_provider", "dec_key", "dec_provider"}

\* Each connection only ever runs the handlers of what its client calls.
RoleInv ==
    /\ pc[Cli] \in Idle \cup Rotating \cup {"write"}
    /\ pc[Tester] \in Idle \cup Asking \cup Crypting \cup {"write"}
    /\ \A c \in Conn \ Programs : pc[c] \in Idle \cup Asking \cup {"policy", "write"}

ScriptTyped ==
    /\ outcome \in [Programs -> {"running", "ok", "failed", "timeout"}]
    /\ step \in [Programs -> Nat]
    /\ step[Cli] = 1
    /\ step[Tester] \in 1 .. LastStep(Tester)

\* Once rotate-key has been answered with Ok there is a key, and once it has
\* exited with 0 its connection is idle.
CliInv ==
    /\ outcome[Cli] = "ok" => pc[Cli] \in Idle /\ active_key # NoKey
    /\ pc[Cli] = "write" /\ resp[Cli].kind = "ok" => active_key # NoKey

\* The call of the test that is next or under way, and whether the daemon has
\* computed its answer.
call     == step[Tester]
Answered == pc[Tester] = "write"

\* The counters have grown so much since the test's first status report.
Tallied(sealed, opened, errors) ==
    /\ packets_sealed = base.sealed + sealed
    /\ packets_opened = base.opened + opened
    /\ crypto_errors = base.errors + errors

Counted ==
    /\ \A i \in 1 .. Len(Texts) : call = 2 * i =>
          Tallied(IF Answered THEN i ELSE i - 1, i - 1, 0)
    /\ \A i \in 1 .. Len(Texts) : call = 2 * i + 1 =>
          Tallied(i, IF Answered /\ i < Len(Texts) THEN i ELSE i - 1,
                  IF Answered /\ i = Len(Texts) THEN 1 ELSE 0)
    /\ call = 2 * Len(Texts) + 2 => Tallied(Len(Texts), Len(Texts) - 1, 1)

\* A status report of the test shows the key and the counters as they are.
Reported ==
    /\ pc[Tester] \in {"status_sealed", "status_opened", "status_errors"} =>
          report[Tester].key_id # NoKey
    /\ pc[Tester] \in {"status_opened", "status_errors"} =>
          report[Tester].sealed = packets_sealed
    /\ pc[Tester] = "status_errors" => report[Tester].opened = packets_opened
    /\ Answered /\ call = 1 => /\ resp[Tester].report.sealed = packets_sealed
                               /\ resp[Tester].report.opened = packets_opened
                               /\ resp[Tester].report.errors = crypto_errors

\* The frame of the last encrypt is the one that the active key makes of it.
FrameKept ==
    \A i \in 1 .. Len(Texts) :
        /\ call = 2 * i /\ Answered =>
              resp[Tester].frame = SealedFrame(active_key, encryptParams(i))
        /\ call = 2 * i + 1 =>
              /\ frame = SealedFrame(active_key, encryptParams(i))
              /\ \E e \in emitted : e.frame = frame

\* From dialling on: the daemon serves the call that the script is at, under the
\* active key, and what it has answered is what the test expects.
Conversation ==
    /\ outcome[Cli] = "ok" /\ peer[Tester] /\ pc[Tester] # "closed"
    /\ pc[Tester] \in Handling => req[Tester] = TestRequest(call)
    /\ pc[Tester] \in {"enc_provider", "dec_provider"} => key[Tester] = active_key
    /\ Answered => TestExpects(call, resp[Tester])
    /\ call > 1 => base.sealed \in Nat /\ base.opened \in Nat /\ base.errors \in Nat
    /\ Reported /\ FrameKept /\ Counted

TesterInv ==
    /\ TestNeverFails
    /\ Running(Tester) => \/ pc[Tester] = "closed" /\ call = 1
                          \/ Conversation

DaemonInv == TypeInv /\ RotationInv /\ StatusInv /\ PlainInv

TestInv == DaemonInv /\ RoleInv /\ ScriptTyped /\ CliInv /\ TesterInv

-----------------------------------------------------------------------------
(* The script                                                              *)

\* Halves and parities.
LEMMA Halves ==
    ASSUME NEW i \in Nat
    PROVE  /\ (2 * i) \div 2 = i /\ (2 * i) % 2 = 0
           /\ (2 * i + 1) \div 2 = i /\ (2 * i + 1) % 2 = 1
  OBVIOUS

\* The script ends with the call after the last decrypt.
LEMMA ScriptEnd == LastStep(Tester) = 2 * Len(Texts) + 2 /\ LastStep(Cli) = 1
  BY TestAssumption DEF LastStep

\* A call of the script asks for the status or belongs to a plaintext.
LEMMA ScriptPosition ==
    ASSUME NEW n \in 1 .. LastStep(Tester)
    PROVE  \/ n = 1
           \/ n = 2 * Len(Texts) + 2
           \/ \E i \in 1 .. Len(Texts) : n = 2 * i \/ n = 2 * i + 1
  <1> DEFINE k == Len(Texts)
             i == n \div 2
  <1>1. k \in Nat /\ n \in 1 .. 2 * k + 2
    BY TestAssumption, ScriptEnd
  <1> HIDE DEF k
  <1>2. i \in Nat /\ (n = 2 * i \/ n = 2 * i + 1)
    BY <1>1
  <1> HIDE DEF i
  <1>3. n = 1 \/ n = 2 * k + 2 \/ i \in 1 .. k
    BY <1>1, <1>2
  <1> QED
    BY <1>2, <1>3 DEF k

\* The request of each call.
LEMMA ScriptCalls ==
    /\ TestRequest(1) = [method |-> "get_status", params |-> {}]
    /\ TestRequest(2 * Len(Texts) + 2) = [method |-> "get_status", params |-> {}]
    /\ \A i \in 1 .. Len(Texts) :
          /\ TestRequest(2 * i) = [method |-> "encrypt", params |-> encryptParams(i)]
          /\ TestRequest(2 * i + 1) =
               [method |-> "decrypt",
                params |-> IF i = Len(Texts) THEN tampered(frame) ELSE frame]
  <1> DEFINE k == Len(Texts)
  <1>1. k \in Nat \ {0} /\ LastStep(Tester) = 2 * k + 2
    BY TestAssumption, ScriptEnd
  <1> HIDE DEF k
  <1>2. TestRequest(1) = [method |-> "get_status", params |-> {}]
    BY DEF TestRequest
  <1>3. TestRequest(2 * k + 2) = [method |-> "get_status", params |-> {}]
    BY <1>1 DEF TestRequest
  <1>4. ASSUME NEW i \in 1 .. k
        PROVE  /\ TestRequest(2 * i) = [method |-> "encrypt", params |-> encryptParams(i)]
               /\ TestRequest(2 * i + 1) =
                    [method |-> "decrypt",
                     params |-> IF i = k THEN tampered(frame) ELSE frame]
    <2>1. /\ i \in Nat /\ 2 * i # 1 /\ 2 * i # 2 * k + 2
          /\ 2 * i + 1 # 1 /\ 2 * i + 1 # 2 * k + 2
      BY <1>1
    <2>2. /\ textAt(2 * i) = i /\ (2 * i) % 2 = 0
          /\ textAt(2 * i + 1) = i /\ (2 * i + 1) % 2 = 1
      BY <2>1, Halves DEF textAt
    <2> DEFINE a == 2 * i
               b == 2 * i + 1
    <2> HIDE DEF a, b
    <2>3. TestRequest(a) = [method |-> "encrypt", params |-> encryptParams(i)]
      BY <1>1, <2>1, <2>2 DEF TestRequest, a
    <2>4. TestRequest(b) = [method |-> "decrypt",
                            params |-> IF i = k THEN tampered(frame) ELSE frame]
      BY <1>1, <2>1, <2>2 DEF TestRequest, b, k
    <2> QED
      BY <2>3, <2>4 DEF a, b
  <1> QED
    BY <1>2, <1>3, <1>4 DEF k

\* What the test expects of each call.
LEMMA ScriptExpects ==
    ASSUME NEW r
    PROVE  /\ TestExpects(1, r) <=> r.kind = "status" /\ r.report.key_id # NoKey
           /\ TestExpects(2 * Len(Texts) + 2, r) <=>
                /\ r.kind = "status"
                /\ r.report.sealed = base.sealed + Len(Texts)
                /\ r.report.opened = base.opened + Len(Texts) - 1
                /\ r.report.errors = base.errors + 1
           /\ \A i \in 1 .. Len(Texts) :
                /\ TestExpects(2 * i, r) <=>
                     /\ r.kind = "ciphertext"
                     /\ i = Len(Texts) \/ length(r.frame) = Texts[i].len + 40
                /\ TestExpects(2 * i + 1, r) <=>
                     r = IF i = Len(Texts) THEN Error(401) ELSE Plaintext(Texts[i])
  <1> DEFINE k == Len(Texts)
  <1>1. k \in Nat \ {0} /\ LastStep(Tester) = 2 * k + 2
    BY TestAssumption, ScriptEnd
  <1> HIDE DEF k
  <1>2. TestExpects(1, r) <=> r.kind = "status" /\ r.report.key_id # NoKey
    <2>1. LastStep(Tester) # 1 /\ 1 % 2 = 1
      BY <1>1
    <2> QED
      BY <2>1 DEF TestExpects
  <1>3. TestExpects(2 * k + 2, r) <=>
          /\ r.kind = "status"
          /\ r.report.sealed = base.sealed + k
          /\ r.report.opened = base.opened + k - 1
          /\ r.report.errors = base.errors + 1
    <2>1. 2 * k + 2 # 1 /\ (2 * k + 2) % 2 = 0
      BY <1>1
    <2> DEFINE a == 2 * k + 2
    <2>2. a # 1 /\ a % 2 = 0 /\ a = LastStep(Tester)
      BY <1>1, <2>1
    <2> HIDE DEF a
    <2>3. TestExpects(a, r) <=> /\ r.kind = "status"
                                /\ r.report.sealed = base.sealed + k
                                /\ r.report.opened = base.opened + k - 1
                                /\ r.report.errors = base.errors + 1
      BY <2>2 DEF TestExpects, k
    <2> QED
      BY <2>3 DEF a
  <1>4. ASSUME NEW i \in 1 .. k
        PROVE  /\ TestExpects(2 * i, r) <=>
                     /\ r.kind = "ciphertext"
                     /\ i = Len(Texts) \/ length(r.frame) = Texts[i].len + 40
               /\ TestExpects(2 * i + 1, r) <=>
                     r = IF i = k THEN Error(401) ELSE Plaintext(Texts[i])
    <2>1. /\ i \in Nat /\ 2 * i # 1 /\ 2 * i # 2 * k + 2
          /\ 2 * i + 1 # 1 /\ 2 * i + 1 # 2 * k + 2
      BY <1>1
    <2>2. /\ textAt(2 * i) = i /\ (2 * i) % 2 = 0
          /\ textAt(2 * i + 1) = i /\ (2 * i + 1) % 2 = 1
      BY <2>1, Halves DEF textAt
    <2> DEFINE a == 2 * i
               b == 2 * i + 1
    <2> HIDE DEF a, b
    <2>3. TestExpects(a, r) <=>
            /\ r.kind = "ciphertext"
            /\ i = Len(Texts) \/ length(r.frame) = Texts[i].len + 40
      BY <1>1, <2>1, <2>2 DEF TestExpects, a
    <2>4. TestExpects(b, r) <=> r = IF i = k THEN Error(401) ELSE Plaintext(Texts[i])
      BY <1>1, <2>1, <2>2 DEF TestExpects, b, k
    <2> QED
      BY <2>3, <2>4 DEF a, b
  <1> QED
    BY <1>2, <1>3, <1>4 DEF k

\* While the test waits for an answer, its request stays the request of the
\* call it is at, and an answer it would accept stays one.
LEMMA ScriptStays ==
    ASSUME UNCHANGED <<step, base, frame>>
    PROVE  /\ TestRequest(call)' = TestRequest(call)
           /\ \A r : resp'[Tester] = r /\ TestExpects(call, r) =>
                        TestExpects(call, resp[Tester])'
  <1>1. TestRequest(call)' = TestRequest(call)
    BY DEF TestRequest, call
  <1>2. ASSUME NEW r, resp'[Tester] = r, TestExpects(call, r)
        PROVE  TestExpects(call, resp[Tester])'
    BY <1>2 DEF TestExpects, call
  <1> QED
    BY <1>1, <1>2

-----------------------------------------------------------------------------
(* The programs are clients of the daemon.                                 *)

\* With nobody else around, only acm-cli rotates.
LEMMA TestHasOneRotator == OnlyTheTest => SingleRotator
  BY TestAssumption DEF OnlyTheTest, SingleRotator, Rotators, Programs

\* A whole header, a whole nonce and any body can be put together.
LEMMA PartsMakeFrames ==
    \A h \in {x.frame.hdr : x \in Frames} \cup MadeUp.hdrs,
       n \in {x.frame.nonce : x \in Frames} \cup MadeUp.nonces,
       b \in {x.frame.body : x \in Frames} \cup {junk(m) : m \in MadeUp.lens} :
        Len(h) = 12 /\ n.len = 12 =>
            [hdr |-> h, nonce |-> n, body |-> b] \in ClientFrames
  <1> DEFINE H == {x.frame.hdr : x \in Frames} \cup MadeUp.hdrs
             N == {x.frame.nonce : x \in Frames} \cup MadeUp.nonces
             B == {x.frame.body : x \in Frames} \cup {junk(m) : m \in MadeUp.lens}
  <1> SUFFICES ASSUME NEW h \in H, NEW n \in N, NEW b \in B, Len(h) = 12, n.len = 12
               PROVE  [hdr |-> h, nonce |-> n, body |-> b] \in ClientFrames
    OBVIOUS
  <1> DEFINE r == [hdr |-> h, nonce |-> n, body |-> b]
  <1>1. r \in [hdr : H, nonce : N, body : B]
    OBVIOUS
  <1>2. r.hdr = h /\ r.nonce = n
    OBVIOUS
  <1> HIDE DEF r, H, N, B
  <1>3. ~(Len(r.hdr) < HEADER_LEN) /\ ~(r.nonce.len < 12)
    <2>1. Len(r.hdr) = 12 /\ r.nonce.len = 12
      BY <1>2, Zenon
    <2>2. \A x : x = 12 => ~(x < 12)
      OBVIOUS
    <2> QED
      BY <2>1, <2>2, Zenon DEF HEADER_LEN
  <1> QED
    BY <1>1, <1>3 DEF ClientFrames, r, H, N, B

\* Whatever call the test is at, its request is one that Cryptod allows.
LEMMA TestSendsRequests ==
    ASSUME ScriptTyped, TesterInv, Running(Tester), pc[Tester] = "read"
    PROVE  /\ TestRequest(call) \in Requests(Tester)
           /\ TestRequest(call).method \in {"get_status", "encrypt", "decrypt"}
           /\ Conversation
  <1>1. Conversation
    BY DEF TesterInv
  <1>2. call \in 1 .. LastStep(Tester)
    BY DEF ScriptTyped, call
  <1>3. CASE call = 1 \/ call = 2 * Len(Texts) + 2
    <2>1. TestRequest(call) = [method |-> "get_status", params |-> {}]
      BY <1>3, ScriptCalls
    <2>2. TestRequest(call) \in Requests(Tester)
      BY <2>1, TestAssumption DEF Requests
    <2> QED
      BY <1>1, <2>1, <2>2
  <1>4. ASSUME NEW i \in 1 .. Len(Texts), call = 2 * i
        PROVE  /\ TestRequest(call) \in Requests(Tester)
               /\ TestRequest(call).method = "encrypt"
    <2>1. TestRequest(call) = [method |-> "encrypt", params |-> encryptParams(i)]
      BY <1>4, ScriptCalls
    <2>2. encryptParams(i) \in EncryptParams /\ "encrypt" \in Sends[Tester]
      BY TestAssumption
    <2> QED
      BY <2>1, <2>2 DEF Requests
  <1>5. ASSUME NEW i \in 1 .. Len(Texts), call = 2 * i + 1
        PROVE  /\ TestRequest(call) \in Requests(Tester)
               /\ TestRequest(call).method = "decrypt"
    <2>1. PICK e \in emitted : e.frame = frame
      BY <1>1, <1>5 DEF Conversation, FrameKept
    <2>2. PICK g : TestRequest(call) = [method |-> "decrypt", params |-> g] /\ g \in ClientFrames
      <3> DEFINE g == IF i = Len(Texts) THEN tampered(frame) ELSE frame
                 k == active_key
                 p == encryptParams(i)
      <3>1. TestRequest(call) = [method |-> "decrypt", params |-> g]
        BY <1>5, ScriptCalls
      <3>2. frame = SealedFrame(k, p)
        BY <1>1, <1>5 DEF Conversation, FrameKept
      <3>3. Shape(frame, k, p)
        BY <3>2, SealedShape
      <3>4. p.nonce.len = 12 /\ p.plaintext = Texts[i]
        BY TestAssumption DEF encryptParams
      <3> HIDE DEF k, p
      <3>5. /\ frame = [hdr |-> frame.hdr, nonce |-> frame.nonce, body |-> frame.body]
            /\ Len(frame.hdr) = 12 /\ frame.nonce.len = 12
            /\ frame.body.len = Texts[i].len + 16
        BY <3>3, <3>4 DEF Shape
      <3>6. e \in Frames
        BY DEF Frames
      <3> DEFINE H == {x.frame.hdr : x \in Frames} \cup MadeUp.hdrs
                 N == {x.frame.nonce : x \in Frames} \cup MadeUp.nonces
                 B == {x.frame.body : x \in Frames} \cup {junk(n) : n \in MadeUp.lens}
      <3>7. frame.hdr \in H /\ frame.nonce \in N /\ frame.body \in B
        BY <2>1, <3>6
      <3>8. \A h \in H, n \in N, b \in B :
               Len(h) = 12 /\ n.len = 12 =>
                  [hdr |-> h, nonce |-> n, body |-> b] \in ClientFrames
        BY PartsMakeFrames
      <3> HIDE DEF H, N, B
      <3>9. frame \in ClientFrames
        <4>1. [hdr |-> frame.hdr, nonce |-> frame.nonce, body |-> frame.body] \in ClientFrames
          BY <3>5, <3>7, <3>8
        <4> QED
          BY <3>5, <4>1, Zenon
      <3>10. i = Len(Texts) => tampered(frame) \in ClientFrames
        <4> SUFFICES ASSUME i = Len(Texts) PROVE tampered(frame) \in ClientFrames
          OBVIOUS
        <4> DEFINE b == junk(frame.body.len)
        <4>1. b \in B
          BY <3>5, TestAssumption DEF B
        <4>2. tampered(frame) = [hdr |-> frame.hdr, nonce |-> frame.nonce, body |-> b]
          BY Zenon DEF tampered
        <4> HIDE DEF b
        <4> QED
          BY <3>5, <3>7, <3>8, <4>1, <4>2
      <3> QED
        BY <3>1, <3>9, <3>10
    <2>3. "decrypt" \in Sends[Tester]
      BY TestAssumption
    <2> QED
      BY <2>2, <2>3 DEF Requests
  <1> QED
    BY <1>1, <1>2, <1>3, <1>4, <1>5, ScriptPosition

\* So does acm-cli.
LEMMA CliSendsRequests ==
    /\ ScriptRequests(Cli) \subseteq Requests(Cli)
    /\ \A r \in ScriptRequests(Cli) : r.method = "rotate_key"
  BY TestAssumption DEF ScriptRequests, Requests

\* Every step of the composition is one of the daemon or of its clients, or none
\* that they can see.
LEMMA TestStepIsStep ==
    ASSUME ScriptTyped, TesterInv, [TestNext]_allVars
    PROVE  [Next]_vars
  <1>1. CASE UNCHANGED allVars
    BY <1>1 DEF allVars
  <1>2. ASSUME NEW c \in Conn, Serve(c)
        PROVE  Next
    BY <1>2 DEF Serve, RunTask, LockKey, Next
  <1>3. ASSUME NEW p \in Programs, Dial(p) \/ Receive(p) \/ Deadline(p) \/ Exit(p)
        PROVE  Next
    <2>1. Accept(p) \/ WriteResponse(p) \/ ClientClose(p)
      BY <1>3 DEF Dial, Receive, Deadline, Exit
    <2>2. p \in Conn
      BY TestAssumption
    <2> QED
      BY <2>1, <2>2 DEF Next
  <1>4. ASSUME NEW p \in Programs, Send(p)
        PROVE  Next
    <2>1. p \in Conn
      BY TestAssumption
    <2>2. PICK r \in ScriptRequests(p) : ReadRequest(p, r)
      BY <1>4 DEF Send
    <2>3. CASE p = Cli
      BY <2>1, <2>2, <2>3, CliSendsRequests DEF Next
    <2>4. CASE p = Tester
      <3>1. Running(Tester) /\ pc[Tester] = "read"
        BY <1>4, <2>2, <2>4 DEF Send, ReadRequest
      <3>2. r = TestRequest(call)
        BY <2>2, <2>4, TestAssumption DEF ScriptRequests, call
      <3>3. r \in Requests(Tester)
        BY <3>1, <3>2, TestSendsRequests
      <3> QED
        BY <2>1, <2>2, <2>4, <3>3 DEF Next
    <2> QED
      BY <2>3, <2>4 DEF Programs
  <1>5. ASSUME NEW c \in Conn \ Programs, Others(c)
        PROVE  Next
    BY <1>5 DEF Others, Next
  <1> QED
    BY <1>1, <1>2, <1>3, <1>4, <1>5 DEF TestNext

-----------------------------------------------------------------------------
(* Who does what                                                           *)

\* The steps of a connection that do not begin a handler.
TaskStep(c) ==
    \/ RunTask(c) \/ LockKey(c) \/ ReadEof(c) \/ Accept(c) \/ ClientClose(c)
    \/ ReadGarbage(c)

\* They move one task, and within the handler it is in.
LEMMA TaskLabels ==
    ASSUME TypeInv, NEW c \in Conn, TaskStep(c)
    PROVE  /\ \A d \in Conn \ {c} : pc'[d] = pc[d]
           /\ pc[c] \in Asking => pc'[c] \in Asking \cup {"write"}
           /\ pc[c] \in Rotating => pc'[c] \in Rotating \cup {"write"}
           /\ pc[c] \in Crypting => pc'[c] \in Crypting \cup {"write"}
           /\ pc[c] = "policy" => pc'[c] \in {"policy", "write"}
           /\ pc[c] \in Idle \cup {"write"} => pc'[c] \in Idle \cup {"write"}
  <1>1. pc \in [Conn -> Handling \cup {"closed", "read"}]
    BY DEF TypeInv, TypeOK
  <1> USE <1>1 DEF Goto, Respond, Asking, Rotating, Crypting, Idle
  <1>2. CASE StatusAlgo(c) \/ StatusKey(c) \/ StatusSealed(c) \/ StatusOpened(c)
             \/ StatusErrors(c)
    BY <1>2 DEF StatusAlgo, StatusKey, StatusSealed, StatusOpened, StatusErrors
  <1>3. CASE RotateValidate(c) \/ RotateSetProvider(c) \/ RotateSetAlgo(c)
             \/ RotateSetKey(c)
    BY <1>3 DEF RotateValidate, RotateSetProvider, RotateSetAlgo, RotateSetKey
  <1>4. CASE EncryptKey(c) \/ DecryptKey(c) \/ EncryptSeal(c) \/ DecryptOpen(c)
    BY <1>4 DEF EncryptKey, DecryptKey, CloneKey, EncryptSeal, DecryptOpen
  <1>5. CASE SetPolicy(c)
    BY <1>5 DEF SetPolicy
  <1>6. CASE WriteResponse(c) \/ ReadEof(c) \/ Accept(c) \/ ClientClose(c)
             \/ ReadGarbage(c)
    BY <1>6 DEF WriteResponse, ReadEof, Accept, ClientClose, ReadGarbage
  <1> QED
    BY <1>2, <1>3, <1>4, <1>5, <1>6 DEF TaskStep, RunTask, LockKey

\* A step of the composition belongs to one connection: it begins a handler its
\* client has asked for, or it is one of the other steps.
LEMMA TestStepKinds ==
    ASSUME OnlyTheTest, ScriptTyped, TesterInv, TestNext
    PROVE  \E c \in Conn :
              \/ TaskStep(c)
              \/ \E r \in Requests(c) :
                    /\ ReadRequest(c, r)
                    /\ c = Cli => r.method = "rotate_key"
                    /\ c = Tester => r.method \in {"get_status", "encrypt", "decrypt"}
                    /\ c \notin Programs => r.method \in {"get_status", "set_policy"}
  <1> USE DEF TaskStep
  <1>1. ASSUME NEW c \in Conn, Serve(c)
        PROVE  TaskStep(c)
    BY <1>1 DEF Serve, RunTask
  <1>2. ASSUME NEW p \in Programs, Dial(p) \/ Receive(p) \/ Deadline(p) \/ Exit(p)
        PROVE  TaskStep(p)
    BY <1>2 DEF Dial, Receive, Deadline, Exit, RunTask
  <1>3. ASSUME NEW p \in Programs, Send(p)
        PROVE  \E r \in Requests(p) :
                    /\ ReadRequest(p, r)
                    /\ p = Cli => r.method = "rotate_key"
                    /\ p = Tester => r.method \in {"get_status", "encrypt", "decrypt"}
    <2>1. PICK r \in ScriptRequests(p) : ReadRequest(p, r)
      BY <1>3 DEF Send
    <2>2. CASE p = Cli
      BY <2>1, <2>2, CliSendsRequests, TestAssumption
    <2>3. CASE p = Tester
      <3>1. Running(Tester) /\ pc[Tester] = "read"
        BY <1>3, <2>1, <2>3 DEF Send, ReadRequest
      <3>2. r = TestRequest(call)
        BY <2>1, <2>3, TestAssumption DEF ScriptRequests, call
      <3> QED
        BY <2>1, <2>3, <3>1, <3>2, TestSendsRequests, TestAssumption
    <2> QED
      BY <2>2, <2>3 DEF Programs
  <1>4. ASSUME NEW c \in Conn \ Programs, Others(c)
        PROVE  TaskStep(c) \/ \E r \in Requests(c) :
                    ReadRequest(c, r) /\ r.method \in {"get_status", "set_policy"}
    <2>1. CASE \E r \in Requests(c) : ReadRequest(c, r)
      <3>1. PICK r \in Requests(c) : ReadRequest(c, r)
        BY <2>1
      <3>2. r.method \in {"get_status", "set_policy"}
        BY RequestKinds DEF OnlyTheTest
      <3> QED
        BY <3>1, <3>2
    <2>2. CASE Accept(c) \/ ClientClose(c) \/ WriteResponse(c) \/ ReadGarbage(c)
      BY <2>2 DEF RunTask
    <2> QED
      BY <1>4, <2>1, <2>2 DEF Others
  <1>5. Programs \subseteq Conn /\ Cli \in Programs /\ Tester \in Programs
    BY TestAssumption DEF Programs
  <1> QED
    BY <1>1, <1>2, <1>3, <1>4, <1>5 DEF TestNext

\* Nobody ever runs a handler of somebody else's.
LEMMA RoleStep ==
    ASSUME OnlyTheTest, TypeInv, ScriptTyped, TesterInv, RoleInv,
           [TestNext]_allVars
    PROVE  RoleInv'
  <1>1. CASE UNCHANGED allVars
    BY <1>1 DEF allVars, vars, RoleInv
  <1>2. CASE TestNext
    <2>1. PICK c \in Conn :
              \/ TaskStep(c)
              \/ \E r \in Requests(c) :
                    /\ ReadRequest(c, r)
                    /\ c = Cli => r.method = "rotate_key"
                    /\ c = Tester => r.method \in {"get_status", "encrypt", "decrypt"}
                    /\ c \notin Programs => r.method \in {"get_status", "set_policy"}
      BY <1>2, TestStepKinds
    <2>2. /\ Cli \in Conn /\ Tester \in Conn /\ Cli # Tester
          /\ Programs = {Cli, Tester}
      BY TestAssumption DEF Programs
    <2>3. CASE TaskStep(c)
      <3>1. /\ \A d \in Conn \ {c} : pc'[d] = pc[d]
            /\ pc[c] \in Asking => pc'[c] \in Asking \cup {"write"}
            /\ pc[c] \in Rotating => pc'[c] \in Rotating \cup {"write"}
            /\ pc[c] \in Crypting => pc'[c] \in Crypting \cup {"write"}
            /\ pc[c] = "policy" => pc'[c] \in {"policy", "write"}
            /\ pc[c] \in Idle \cup {"write"} => pc'[c] \in Idle \cup {"write"}
        BY <2>3, TaskLabels
      <3> QED
        BY <2>2, <3>1 DEF RoleInv
    <2>4. ASSUME NEW r \in Requests(c), ReadRequest(c, r),
                 c = Cli => r.method = "rotate_key",
                 c = Tester => r.method \in {"get_status", "encrypt", "decrypt"},
                 c \notin Programs => r.method \in {"get_status", "set_policy"}
          PROVE  RoleInv'
      <3>1. /\ \A d \in Conn \ {c} : pc'[d] = pc[d]
            /\ pc'[c] = entry(r.method)
        BY <2>4 DEF ReadRequest, Goto, TypeInv, TypeOK
      <3> QED
        BY <2>2, <2>4, <3>1, EntryLabels DEF RoleInv, Asking, Rotating, Crypting
    <2> QED
      BY <2>1, <2>3, <2>4
  <1> QED
    BY <1>1, <1>2

\* What the daemon knows of the test.
testerTask == <<pc[Tester], peer[Tester], req[Tester], key[Tester], report[Tester],
                resp[Tester]>>

\* A step of another connection leaves the test's task, the counters and the
\* frames alone, and the key slot too unless it rotates.
LEMMA OthersStep ==
    ASSUME TypeInv, ReportsTyped, RoleInv, NEW c \in Conn \ {Tester},
           TaskStep(c) \/ \E r : ReadRequest(c, r)
    PROVE  /\ UNCHANGED testerTask
           /\ UNCHANGED counters
           /\ emitted \subseteq emitted'
           /\ pc[c] \notin Rotating => UNCHANGED slot
  <1>1. /\ pc \in [Conn -> Handling \cup {"closed", "read"}]
        /\ peer \in [Conn -> BOOLEAN] /\ key \in [Conn -> ServedKey \cup {NoKey}]
        /\ DOMAIN req = Conn /\ DOMAIN resp = Conn /\ report \in [Conn -> Report]
    BY DEF TypeInv, TypeOK, Domains, ReportsTyped
  <1>2. pc[c] \notin Crypting
    BY TestAssumption
       DEF RoleInv, Crypting, Idle, Rotating, Asking, Programs
  <1>3. Tester \in Conn /\ Tester # c
    BY TestAssumption DEF Programs
  <1> USE <1>1, <1>3 DEF Goto, Respond, testerTask, slot, counters, locals, history, bounds
  <1>4. CASE StatusAlgo(c) \/ StatusKey(c) \/ StatusSealed(c) \/ StatusOpened(c)
             \/ StatusErrors(c)
    BY <1>4 DEF StatusAlgo, StatusKey, StatusSealed, StatusOpened, StatusErrors
  <1>5. CASE RotateValidate(c) \/ RotateSetProvider(c) \/ RotateSetAlgo(c)
             \/ RotateSetKey(c)
    BY <1>5 DEF RotateValidate, RotateSetProvider, RotateSetAlgo, RotateSetKey, Rotating
  <1>6. CASE EncryptKey(c) \/ DecryptKey(c) \/ EncryptSeal(c) \/ DecryptOpen(c)
    BY <1>2, <1>6 DEF EncryptKey, DecryptKey, CloneKey, EncryptSeal, DecryptOpen, Crypting
  <1>7. CASE SetPolicy(c)
    BY <1>7 DEF SetPolicy
  <1>8. CASE WriteResponse(c)
    BY <1>8 DEF WriteResponse
  <1>9. CASE ReadEof(c) \/ Accept(c) \/ ClientClose(c) \/ ReadGarbage(c)
    BY <1>9 DEF ReadEof, Accept, ClientClose, ReadGarbage
  <1>10. ASSUME NEW r, ReadRequest(c, r)
         PROVE  /\ UNCHANGED testerTask
                /\ UNCHANGED counters
                /\ emitted \subseteq emitted'
                /\ UNCHANGED slot
    BY <1>10 DEF ReadRequest
  <1> QED
    BY <1>4, <1>5, <1>6, <1>7, <1>8, <1>9, <1>10 DEF TaskStep, RunTask, LockKey

\* A key is never taken away again.
LEMMA KeyStays ==
    ASSUME TypeInv, NEW c \in Conn, TaskStep(c) \/ \E r : ReadRequest(c, r)
    PROVE  /\ active_key # NoKey => active_key' # NoKey
           /\ pc'[c] = "write" /\ pc[c] \in Rotating /\ resp'[c].kind = "ok" =>
                active_key' # NoKey
  <1>0. /\ pc \in [Conn -> Handling \cup {"closed", "read"}] /\ DOMAIN resp = Conn
    BY DEF TypeInv, TypeOK, Domains
  <1> USE <1>0 DEF slot, Goto, Respond
  <1>1. CASE RotateSetKey(c)
    <2>1. active_key' = key[c] /\ key[c] \in ServedKey
      BY <1>1 DEF RotateSetKey, TypeInv, HasKey, HoldsKey
    <2> QED
      BY <2>1, ServedKeyFields
  <1>2. CASE RotateValidate(c)
    BY <1>2 DEF RotateValidate, Error
  <1>3. CASE RotateSetProvider(c) \/ RotateSetAlgo(c)
    BY <1>3 DEF RotateSetProvider, RotateSetAlgo
  <1>4. CASE StatusAlgo(c) \/ StatusKey(c) \/ StatusSealed(c) \/ StatusOpened(c)
             \/ StatusErrors(c) \/ SetPolicy(c)
    BY <1>4 DEF StatusAlgo, StatusKey, StatusSealed, StatusOpened, StatusErrors,
                SetPolicy, Rotating
  <1>5. CASE EncryptKey(c) \/ DecryptKey(c) \/ EncryptSeal(c) \/ DecryptOpen(c)
    BY <1>5 DEF EncryptKey, DecryptKey, CloneKey, EncryptSeal, DecryptOpen, Rotating
  <1>6. CASE WriteResponse(c) \/ ReadEof(c) \/ Accept(c) \/ ReadGarbage(c)
    BY <1>6 DEF WriteResponse, ReadEof, Accept, ReadGarbage, Rotating
  <1>7. CASE ClientClose(c)
    BY <1>7 DEF ClientClose, Rotating
  <1>8. ASSUME NEW r, ReadRequest(c, r)
        PROVE  UNCHANGED active_key /\ pc[c] \notin Rotating
    BY <1>8 DEF ReadRequest, Rotating
  <1> QED
    BY <1>1, <1>2, <1>3, <1>4, <1>5, <1>6, <1>7, <1>8 DEF TaskStep, RunTask, LockKey

-----------------------------------------------------------------------------
(* The programs                                                            *)

\* A program's outcome and position in its script are what they should be.
LEMMA ScriptTypedStep == ScriptTyped /\ [TestNext]_allVars => ScriptTyped'
  <1> SUFFICES ASSUME ScriptTyped, [TestNext]_allVars PROVE ScriptTyped'
    OBVIOUS
  <1> USE DEF ScriptTyped
  <1>1. ASSUME UNCHANGED <<outcome, step>> PROVE ScriptTyped'
    BY <1>1, TestAssumption DEF LastStep
  <1>2. ASSUME NEW p \in Programs, Receive(p) PROVE ScriptTyped'
    <2>1. CASE UNCHANGED step /\ (Ends(p, "failed") \/ Ends(p, "ok"))
      BY <2>1 DEF Ends, LastStep
    <2>2. CASE /\ step[p] < LastStep(p) /\ step' = [step EXCEPT ![p] = @ + 1]
               /\ UNCHANGED outcome
      <3>1. p # Cli
        BY <2>2, ScriptEnd
      <3>2. p = Tester
        BY <3>1 DEF Programs
      <3>3. step[Tester] < 2 * Len(Texts) + 2 /\ Len(Texts) \in Nat
        BY <2>2, <3>2, ScriptEnd, TestAssumption
      <3>4. step[Tester] + 1 \in 1 .. 2 * Len(Texts) + 2
        BY <3>3
      <3>5. /\ step' \in [Programs -> Nat] /\ step'[Cli] = 1
            /\ step'[Tester] = step[Tester] + 1
        BY <2>2, <3>1, <3>2 DEF Programs
      <3>6. LastStep(Tester)' = LastStep(Tester)
        BY DEF LastStep
      <3> QED
        BY <2>2, <3>4, <3>5, <3>6, ScriptEnd
    <2> QED
      BY <1>2, <2>1, <2>2 DEF Receive
  <1>3. ASSUME NEW p \in Programs, Dial(p) \/ Send(p) \/ Deadline(p) \/ Exit(p)
        PROVE  ScriptTyped'
    <2>1. CASE Deadline(p)
      BY <2>1 DEF Deadline, Ends, LastStep
    <2>2. CASE Dial(p) \/ Send(p) \/ Exit(p)
      BY <1>1, <2>2 DEF Dial, Send, Exit, testVars
    <2> QED
      BY <1>3, <2>1, <2>2
  <1>4. ASSUME NEW c \in Conn, Serve(c) \/ Others(c)
        PROVE  ScriptTyped'
    BY <1>1, <1>4 DEF Serve, Others, testVars
  <1> QED
    BY <1>1, <1>2, <1>3, <1>4 DEF TestNext, allVars, testVars

\* A step of one connection changes the label and the answer of no other.
LEMMA OneTask ==
    ASSUME TypeInv, NEW c \in Conn, TaskStep(c) \/ \E r : ReadRequest(c, r)
    PROVE  \A d \in Conn \ {c} : pc'[d] = pc[d] /\ resp'[d] = resp[d]
  <1>0. pc \in [Conn -> Handling \cup {"closed", "read"}] /\ DOMAIN resp = Conn
    BY DEF TypeInv, TypeOK, Domains
  <1> USE <1>0 DEF Goto, Respond
  <1>1. CASE StatusAlgo(c) \/ StatusKey(c) \/ StatusSealed(c) \/ StatusOpened(c)
             \/ StatusErrors(c) \/ SetPolicy(c)
    BY <1>1 DEF StatusAlgo, StatusKey, StatusSealed, StatusOpened, StatusErrors,
                SetPolicy
  <1>2. CASE RotateValidate(c) \/ RotateSetProvider(c) \/ RotateSetAlgo(c)
             \/ RotateSetKey(c)
    BY <1>2 DEF RotateValidate, RotateSetProvider, RotateSetAlgo, RotateSetKey
  <1>3. CASE EncryptKey(c) \/ DecryptKey(c) \/ EncryptSeal(c) \/ DecryptOpen(c)
    BY <1>3 DEF EncryptKey, DecryptKey, CloneKey, EncryptSeal, DecryptOpen
  <1>4. CASE WriteResponse(c) \/ ReadEof(c) \/ Accept(c) \/ ClientClose(c)
             \/ ReadGarbage(c)
    BY <1>4 DEF WriteResponse, ReadEof, Accept, ClientClose, ReadGarbage
  <1>5. ASSUME NEW r, ReadRequest(c, r)
        PROVE  \A d \in Conn \ {c} : pc'[d] = pc[d] /\ resp'[d] = resp[d]
    BY <1>5 DEF ReadRequest
  <1> QED
    BY <1>1, <1>2, <1>3, <1>4, <1>5 DEF TaskStep, RunTask, LockKey

\* What acm-cli reports is so, and stays so.
LEMMA CliStep ==
    ASSUME TypeInv, RoleInv, ScriptTyped, CliInv, [TestNext]_allVars
    PROVE  CliInv'
  <1>0. /\ Cli \in Conn /\ Tester \in Conn /\ Cli # Tester
        /\ Programs = {Cli, Tester}
        /\ pc \in [Conn -> Handling \cup {"closed", "read"}]
        /\ peer \in [Conn -> BOOLEAN]
        /\ DOMAIN resp = Conn
        /\ outcome \in [Programs -> {"running", "ok", "failed", "timeout"}]
    BY TestAssumption DEF Programs, TypeInv, TypeOK, Domains, ScriptTyped
  <1>1. CASE UNCHANGED allVars
    BY <1>1 DEF allVars, vars, slot, testVars, CliInv
  <1>2. ASSUME NEW c \in Conn \ {Cli}, TaskStep(c) \/ (\E r : ReadRequest(c, r)),
               outcome'[Cli] = outcome[Cli]
        PROVE  CliInv'
    <2>1. pc'[Cli] = pc[Cli] /\ resp'[Cli] = resp[Cli]
      BY <1>0, <1>2, OneTask
    <2>2. active_key # NoKey => active_key' # NoKey
      BY <1>2, KeyStays
    <2> QED
      BY <1>2, <2>1, <2>2 DEF CliInv
  <1>3. ASSUME NEW c \in Conn \ {Cli}, Serve(c) \/ Others(c)
        PROVE  CliInv'
    <2>1. TaskStep(c) \/ \E r : ReadRequest(c, r)
      BY <1>3 DEF Serve, Others, TaskStep, RunTask
    <2>2. outcome'[Cli] = outcome[Cli]
      BY <1>3 DEF Serve, Others, testVars
    <2> QED
      BY <1>2, <2>1, <2>2
  <1>4. CASE \/ Dial(Tester) \/ Send(Tester) \/ Receive(Tester)
             \/ Deadline(Tester) \/ Exit(Tester)
    <2>1. TaskStep(Tester) \/ \E r : ReadRequest(Tester, r)
      BY <1>4 DEF Dial, Send, Receive, Deadline, Exit, TaskStep, RunTask
    <2>2. outcome'[Cli] = outcome[Cli]
      BY <1>0, <1>4 DEF Dial, Send, Receive, Deadline, Exit, Ends, testVars
    <2> QED
      BY <1>0, <1>2, <2>1, <2>2
  <1>5. CASE Serve(Cli)
    <2>1. UNCHANGED outcome
      BY <1>5 DEF Serve, testVars
    <2>2. CASE pc[Cli] \in Idle
      <3>1. ReadEof(Cli)
        BY <1>5, <2>2 DEF Serve, RunTask, LockKey, Idle, WriteResponse, StatusAlgo,
              StatusKey, StatusSealed, StatusOpened, StatusErrors, RotateValidate,
              RotateSetProvider, RotateSetAlgo, RotateSetKey, SetPolicy, EncryptKey,
              DecryptKey, CloneKey, EncryptSeal, DecryptOpen
      <3> QED
        BY <1>0, <2>1, <3>1 DEF CliInv, ReadEof, Goto, slot, Idle
    <2>3. CASE pc[Cli] = "write"
      <3>1. WriteResponse(Cli)
        BY <1>5, <2>3 DEF Serve, LockKey, ReadEof, StatusKey, RotateSetKey, EncryptKey,
                          DecryptKey, CloneKey
      <3> QED
        BY <1>0, <2>1, <2>3, <3>1 DEF CliInv, WriteResponse, Goto, slot, Idle
    <2>4. CASE pc[Cli] \in Rotating
      <3>1. TaskStep(Cli)
        BY <1>5 DEF Serve, TaskStep, RunTask
      <3>2. pc'[Cli] = "write" /\ resp'[Cli].kind = "ok" => active_key' # NoKey
        BY <1>0, <2>4, <3>1, KeyStays
      <3>3. outcome[Cli] # "ok"
        BY <2>4 DEF CliInv, Rotating, Idle
      <3> QED
        BY <2>1, <3>2, <3>3 DEF CliInv
    <2> QED
      BY <2>2, <2>3, <2>4 DEF RoleInv
  <1>6. CASE Dial(Cli)
    BY <1>0, <1>6 DEF CliInv, Dial, Running, Accept, Goto, testVars
  <1>7. CASE Send(Cli)
    <2>1. PICK r \in ScriptRequests(Cli) : ReadRequest(Cli, r)
      BY <1>7 DEF Send
    <2>2. pc'[Cli] = "rotate" /\ outcome'[Cli] = "running"
      BY <1>0, <1>7, <2>1, CliSendsRequests, EntryLabels
         DEF Send, Running, ReadRequest, Goto, testVars
    <2> QED
      BY <2>2 DEF CliInv
  <1>8. CASE Receive(Cli)
    <2>1. /\ pc[Cli] = "write" /\ pc'[Cli] = "read" /\ UNCHANGED active_key
      BY <1>0, <1>8 DEF Receive, WriteResponse, Goto, slot
    <2>2. outcome'[Cli] = "ok" => resp[Cli] = OkResponse
      BY <1>0, <1>8 DEF Receive, Running, Ends, Expects
    <2>3. OkResponse.kind = "ok"
      BY DEF OkResponse
    <2> QED
      BY <2>1, <2>2, <2>3 DEF CliInv, Idle
  <1>9. CASE Deadline(Cli)
    BY <1>0, <1>9 DEF CliInv, Deadline, ClientClose, Ends, slot
  <1>10. CASE Exit(Cli)
    BY <1>10 DEF CliInv, Exit, ClientClose, slot, testVars
  <1>11. ASSUME NEW c \in Conn \ Programs, Others(c) PROVE CliInv'
    BY <1>0, <1>3, <1>11
  <1>12. ASSUME NEW c \in Conn, Serve(c) PROVE CliInv'
    BY <1>3, <1>5, <1>12
  <1> QED
    BY <1>0, <1>1, <1>4, <1>6, <1>7, <1>8, <1>9, <1>10, <1>11, <1>12 DEF TestNext

-----------------------------------------------------------------------------
(* Encrypt and decrypt under one key                                       *)

\* The frame of a plaintext is 40 bytes longer, opens under its key, and is
\* refused as forged once its body has been touched.
LEMMA FrameVerdicts ==
    ASSUME NEW q \in [kind : {"ring"}, algo : ProviderAlgo], NEW k \in ServedKey,
           NEW p \in EncryptParams, p.nonce.len = 12, k.algo = q.algo,
           NEW f, f = SealedFrame(k, p), NEW g, g = tampered(f)
    PROVE  /\ length(f) = p.plaintext.len + 40
           /\ wire_open(q, k, f, length(f)) = Ok(p.plaintext)
           /\ wire_open(q, k, g, length(g)) = Err("AuthFailed")
  <1> DEFINE need == frame_len(p.plaintext.len, p.nonce.len, tag_len(q.algo))
             w    == wire_seal(q, k, k.id, p.nonce, 0, p.plaintext, need)
  <1>1. q \in Provider /\ k.material.len = key_len(q.algo)
    BY ServedKeyFields DEF Provider, ProviderKind
  <1>2. k.id \in Nat /\ IsU32(k.id) /\ 0 \in Byte
    BY ServedKeyFields DEF Byte
  <1>3. p.plaintext.len \in Nat /\ p.nonce.len = nonce_len(q.algo)
    BY CryptodAssumption DEF Blob, nonce_len
  <1>4. need \in Nat /\ need >= need /\ need = p.plaintext.len + 40
    BY <1>3 DEF frame_len, HEADER_LEN, tag_len
  <1>5. w.ok
    BY SealCannotFail
  <1>6. w.val = f
    BY <1>4, <1>5, EncryptMakesFrame
  <1>7. length(f) = need
    BY <1>1, <1>2, <1>3, <1>4, <1>6, SealedFrameOpens
  <1>8. wire_open(q, k, f, length(f)) = Ok(p.plaintext)
    <2>1. need >= p.plaintext.len
      BY <1>3, <1>4
    <2>2. wire_open(q, k, w.val, need) = Ok(p.plaintext)
      BY <1>1, <1>2, <1>3, <1>4, <2>1, SealedFrameOpens
    <2> QED
      BY <1>6, <1>7, <2>2
  <1>9. wire_open(q, k, g, length(g)) = Err("AuthFailed")
    <2>1. Shape(f, k, p)
      BY SealedShape
    <2>2. /\ f = [hdr |-> f.hdr, nonce |-> f.nonce, body |-> f.body]
          /\ Len(f.hdr) = 12 /\ f.nonce.len = 12
          /\ f.body = [len |-> p.plaintext.len + 16, intact |-> TRUE,
                       material |-> k.material, nonce |-> p.nonce, aad |-> f.hdr,
                       pt |-> p.plaintext]
      BY <2>1 DEF Shape
    <2>3. f.body.len = p.plaintext.len + 16
      BY <2>2
    <2>4. /\ g.hdr = f.hdr /\ g.nonce = f.nonce
          /\ g.body = junk(f.body.len)
      BY DEF tampered
    <2>5. g.body.len = p.plaintext.len + 16 /\ g.body.intact = FALSE
      BY <2>3, <2>4 DEF junk
    <2>6. decode(g.hdr) = Ok([version |-> VERSION, flags |-> 0, key_id |-> k.id,
                              algo |-> q.algo, nonce_len |-> nonce_len(q.algo)])
      <3>1. f.hdr = SealedHeader(q, k.id, p.nonce, 0)
        BY <1>3 DEF SealedFrame, SealedHeader
      <3>2. decode(SealedHeader(q, k.id, p.nonce, 0)) =
              Ok([version |-> VERSION, flags |-> 0, key_id |-> k.id,
                  algo |-> q.algo, nonce_len |-> nonce_len(q.algo)])
        BY <1>1, <1>2, <1>3, SealedHeaderDecodes
      <3>3. g.hdr = SealedHeader(q, k.id, p.nonce, 0)
        BY <2>4, <3>1
      <3> QED
        BY <3>2, <3>3, Zenon
    <2>7. length(g) = p.plaintext.len + 40
      <3>1. Len(g.hdr) = 12 /\ g.nonce.len = 12
        BY <2>2, <2>4
      <3> DEFINE x == p.plaintext.len
      <3>2. length(g) = 12 + 12 + (x + 16)
        BY <2>5, <3>1, Zenon DEF length
      <3>3. x \in Nat
        BY <1>3
      <3> HIDE DEF x
      <3>4. 12 + 12 + (x + 16) = x + 40
        BY <3>3
      <3> QED
        BY <3>2, <3>4, Zenon DEF x
    <2> DEFINE n == length(g)
    <2>8. ~aead_opens(k.material, g.nonce, g.hdr, g.body)
      BY <2>5 DEF aead_opens
    <2>9. ring_open(q, k, g.nonce, g.hdr, g.body, n) = Err("AuthFailed")
      <3>1. /\ ~(g.body.len < 16) /\ ~(n < g.body.len - 16)
            /\ g.nonce.len = 12
        BY <1>3, <2>2, <2>4, <2>5, <2>7
      <3> HIDE DEF n
      <3> QED
        BY <1>1, <2>8, <3>1 DEF ring_open, tag_len, nonce_len
    <2> DEFINE head == decode(g.hdr)
    <2>10. head.ok /\ head.val.algo = q.algo /\ head.val.nonce_len = 12
      BY <2>6 DEF Ok, nonce_len
    <2>11. ~(n < 12 + 12 + 16) /\ ~(n < g.body.len - 16)
      BY <1>3, <2>5, <2>7
    <2>12. wire_open(q, k, g, n) =
              IF ~head.ok THEN head
              ELSE IF head.val.algo # q.algo THEN Err("AlgorithmMismatch")
              ELSE IF head.val.nonce_len # 12 THEN Err("NonceLenMismatch")
              ELSE IF n < 12 + head.val.nonce_len + 16 THEN Err("BodyTooShort")
              ELSE IF n < g.body.len - 16 THEN Err("OutputTooSmall")
              ELSE ring_open(q, k, g.nonce, g.hdr, g.body, n)
      <3>1. q.kind = "ring"
        OBVIOUS
      <3> QED
        BY <3>1, Zenon DEF wire_open, provider_open, body_too_short, hdr_buf, nonce_len,
                    tag_len, HEADER_LEN
    <2> HIDE DEF head, n
    <2> QED
      BY <2>9, <2>10, <2>11, <2>12 DEF n
  <1> HIDE DEF need
  <1> QED
    BY <1>4, <1>7, <1>8, <1>9

-----------------------------------------------------------------------------
(* The other connections                                                   *)

\* A step that changes nothing of what the test and the daemon know of their
\* conversation, but for more frames outside.
LEMMA ConversationStays ==
    ASSUME Conversation, outcome'[Cli] = "ok", UNCHANGED <<step, base, frame>>,
           UNCHANGED testerTask, UNCHANGED counters, UNCHANGED active_key,
           emitted \subseteq emitted'
    PROVE  Conversation'
  <1>1. /\ pc'[Tester] = pc[Tester] /\ peer'[Tester] = peer[Tester]
        /\ req'[Tester] = req[Tester] /\ key'[Tester] = key[Tester]
        /\ report'[Tester] = report[Tester] /\ resp'[Tester] = resp[Tester]
    BY DEF testerTask
  <1>2. call' = call /\ (Answered' <=> Answered)
    BY <1>1 DEF call, Answered
  <1>3. TestRequest(call)' = TestRequest(call)
    BY ScriptStays
  <1>4. Answered' => TestExpects(call, resp[Tester])'
    BY <1>1, <1>2, ScriptStays DEF Conversation
  <1>5. Reported'
    BY <1>1, <1>2 DEF Conversation, Reported, counters
  <1>6. FrameKept'
    BY <1>1, <1>2 DEF Conversation, FrameKept, SealedFrame, encryptParams
  <1>7. Counted'
    BY <1>1, <1>2 DEF Conversation, Counted, Tallied, counters
  <1>8. call' > 1 => base'.sealed \in Nat /\ base'.opened \in Nat /\ base'.errors \in Nat
    BY <1>2 DEF Conversation
  <1> QED
    BY <1>1, <1>2, <1>3, <1>4, <1>5, <1>6, <1>7, <1>8 DEF Conversation

\* Nothing another connection does can disturb the test: once acm-cli is done
\* nobody rotates any more, and nobody else seals or opens.
LEMMA OthersKeepTester ==
    ASSUME TypeInv, ReportsTyped, RoleInv, CliInv, TesterInv,
           NEW c \in Conn \ {Tester}, TaskStep(c) \/ (\E r : ReadRequest(c, r)),
           outcome'[Tester] = outcome[Tester], step'[Tester] = step[Tester],
           outcome[Cli] = "ok" => /\ outcome'[Cli] = "ok"
                                  /\ UNCHANGED <<step, base, frame>>
    PROVE  TesterInv'
  <1>1. /\ UNCHANGED testerTask
        /\ UNCHANGED counters
        /\ emitted \subseteq emitted'
        /\ pc[c] \notin Rotating => UNCHANGED slot
    BY OthersStep
  <1>2. CASE outcome[Cli] = "ok"
    <2>1. pc[c] \notin Rotating
      <3>1. pc[Cli] \in Idle
        BY <1>2 DEF CliInv
      <3>2. c \notin Programs \/ c = Cli
        BY DEF Programs
      <3> QED
        BY <3>1, <3>2 DEF RoleInv, Rotating, Idle, Asking
    <2>2. UNCHANGED active_key
      BY <1>1, <2>1 DEF slot
    <2>3. Conversation => Conversation'
      BY <1>1, <1>2, <2>2, ConversationStays
    <2>4. pc'[Tester] = pc[Tester] /\ call' = call
      BY <1>1 DEF testerTask, call
    <2> QED
      BY <2>3, <2>4 DEF TesterInv, TestNeverFails, Running
  <1>3. CASE outcome[Cli] # "ok"
    <2>1. Running(Tester) => pc[Tester] = "closed" /\ call = 1
      BY <1>3 DEF TesterInv, Conversation
    <2>2. pc'[Tester] = pc[Tester] /\ call' = call
      BY <1>1 DEF testerTask, call
    <2> QED
      BY <2>1, <2>2 DEF TesterInv, TestNeverFails, Running
  <1> QED
    BY <1>2, <1>3

-----------------------------------------------------------------------------
(* The daemon serves the test.                                             *)

\* The calls of the script are all different.
LEMMA CallsDiffer ==
    ASSUME NEW i \in 1 .. Len(Texts), NEW j \in 1 .. Len(Texts)
    PROVE  /\ 2 * i # 1 /\ 2 * i # 2 * Len(Texts) + 2 /\ 2 * i # 2 * j + 1
           /\ 2 * i + 1 # 1 /\ 2 * i + 1 # 2 * Len(Texts) + 2
           /\ 2 * i = 2 * j => i = j
           /\ 2 * i + 1 = 2 * j + 1 => i = j
           /\ 1 # 2 * Len(Texts) + 2
           /\ 2 * i > 1 /\ 2 * i + 1 > 1 /\ 2 * Len(Texts) + 2 > 1
  <1> DEFINE k == Len(Texts)
  <1>1. k \in Nat
    BY TestAssumption
  <1> HIDE DEF k
  <1>2. ASSUME NEW x \in 1 .. k, NEW y \in 1 .. k
        PROVE  /\ 2 * x # 1 /\ 2 * x # 2 * k + 2 /\ 2 * x # 2 * y + 1
               /\ 2 * x + 1 # 1 /\ 2 * x + 1 # 2 * k + 2
               /\ 2 * x = 2 * y => x = y
               /\ 2 * x + 1 = 2 * y + 1 => x = y
               /\ 1 # 2 * k + 2
               /\ 2 * x > 1 /\ 2 * x + 1 > 1 /\ 2 * k + 2 > 1
    BY <1>1
  <1> QED
    BY <1>2 DEF k

\* Which call of the script a request belongs to.
LEMMA CallKinds ==
    ASSUME ScriptTyped
    PROVE  /\ TestRequest(call).method = "get_status" =>
                call = 1 \/ call = 2 * Len(Texts) + 2
           /\ TestRequest(call).method = "encrypt" =>
                \E i \in 1 .. Len(Texts) : call = 2 * i
           /\ TestRequest(call).method = "decrypt" =>
                \E i \in 1 .. Len(Texts) : call = 2 * i + 1
  <1>1. call \in 1 .. LastStep(Tester)
    BY DEF ScriptTyped, call
  <1>2. CASE call = 1 \/ call = 2 * Len(Texts) + 2
    BY <1>2, ScriptCalls
  <1>3. CASE \E i \in 1 .. Len(Texts) : call = 2 * i
    <2>1. PICK i \in 1 .. Len(Texts) : call = 2 * i
      BY <1>3
    <2>2. TestRequest(call) = [method |-> "encrypt", params |-> encryptParams(i)]
      BY <2>1, ScriptCalls
    <2> QED
      BY <1>3, <2>2
  <1>4. CASE \E i \in 1 .. Len(Texts) : call = 2 * i + 1
    <2>1. PICK i \in 1 .. Len(Texts) : call = 2 * i + 1
      BY <1>4
    <2>2. TestRequest(call) =
            [method |-> "decrypt",
             params |-> IF i = Len(Texts) THEN tampered(frame) ELSE frame]
      BY <2>1, ScriptCalls
    <2> QED
      BY <1>4, <2>2
  <1> QED
    BY <1>1, <1>2, <1>3, <1>4, ScriptPosition

\* The handler takes a step but has no answer yet.
LEMMA HandlerMoves ==
    ASSUME Conversation, UNCHANGED testVars, UNCHANGED counters,
           UNCHANGED <<active_key, emitted, peer, req>>,
           pc[Tester] \in Handling \ {"write"}, pc'[Tester] \in Handling \ {"write"},
           pc'[Tester] \in {"enc_provider", "dec_provider"} => key'[Tester] = active_key,
           Reported'
    PROVE  Conversation'
  <1> USE DEF testVars
  <1>1. call' = call /\ ~Answered /\ ~Answered'
    BY DEF call, Answered
  <1>2. TestRequest(call)' = TestRequest(call)
    BY ScriptStays
  <1>3. FrameKept'
    BY <1>1 DEF Conversation, FrameKept, SealedFrame, encryptParams
  <1>4. Counted'
    BY <1>1 DEF Conversation, Counted, Tallied, counters
  <1>5. call' > 1 => base'.sealed \in Nat /\ base'.opened \in Nat /\ base'.errors \in Nat
    BY <1>1 DEF Conversation
  <1>6. /\ outcome'[Cli] = "ok" /\ peer'[Tester] /\ pc'[Tester] # "closed"
        /\ req'[Tester] = TestRequest(call)
    BY DEF Conversation, Handling
  <1> QED
    BY <1>1, <1>2, <1>3, <1>4, <1>5, <1>6 DEF Conversation

\* The handler computes the answer r.
LEMMA HandlerAnswers ==
    ASSUME Conversation, UNCHANGED testVars, UNCHANGED <<active_key, emitted, peer, req>>,
           pc[Tester] \in Handling \ {"write"}, pc'[Tester] = "write",
           NEW r, resp'[Tester] = r, TestExpects(call, r),
           \A i \in 1 .. Len(Texts) :
                call = 2 * i => r.frame = SealedFrame(active_key, encryptParams(i)),
           call = 1 => /\ r.report.sealed = packets_sealed'
                       /\ r.report.opened = packets_opened'
                       /\ r.report.errors = crypto_errors',
           Counted'
    PROVE  Conversation'
  <1> USE DEF testVars
  <1>1. call' = call /\ ~Answered /\ Answered'
    BY DEF call, Answered
  <1>2. TestRequest(call)' = TestRequest(call) /\ TestExpects(call, resp[Tester])'
    BY ScriptStays
  <1>3. FrameKept'
    BY <1>1 DEF Conversation, FrameKept, SealedFrame, encryptParams
  <1>4. Reported'
    BY <1>1 DEF Reported
  <1>5. call' > 1 => base'.sealed \in Nat /\ base'.opened \in Nat /\ base'.errors \in Nat
    BY <1>1 DEF Conversation
  <1>6. /\ outcome'[Cli] = "ok" /\ peer'[Tester] /\ pc'[Tester] # "closed"
        /\ req'[Tester] = TestRequest(call)
    BY DEF Conversation
  <1> QED
    BY <1>1, <1>2, <1>3, <1>4, <1>5, <1>6 DEF Conversation

\* While the test runs there is a key, and the mounted provider is the key's.
LEMMA TestHasItsKey ==
    ASSUME TypeInv, RotationInv, RoleInv, CliInv, Conversation
    PROVE  /\ active_key \in ServedKey /\ active_key # NoKey
           /\ active_key.id # NoKey
           /\ provider \in [kind : {"ring"}, algo : ProviderAlgo]
           /\ active_key.algo = provider.algo
  <1>1. pc[Cli] \in Idle /\ active_key # NoKey
    BY DEF Conversation, CliInv
  <1>2. active_key \in ServedKey /\ provider \in [kind : {"ring"}, algo : ProviderAlgo]
    BY <1>1 DEF TypeInv, TypeOK
  <1>3. active_key.id # NoKey
    BY <1>2, ServedKeyFields, CryptodAssumption
  <1>4. \A c \in Conn : ~Swapping(c)
    BY <1>1, TestAssumption
       DEF RoleInv, Swapping, Idle, Asking, Crypting, Programs
  <1> QED
    BY <1>1, <1>2, <1>3, <1>4 DEF RotationInv, QuiescentAgreement

\* get_status for the test: the report shows the key and the counters, which
\* nobody moves while it is put together.
LEMMA StatusServed ==
    ASSUME DaemonInv, RoleInv, ScriptTyped, CliInv, Conversation, UNCHANGED testVars,
           \/ StatusAlgo(Tester) \/ StatusKey(Tester) \/ StatusSealed(Tester)
           \/ StatusOpened(Tester) \/ StatusErrors(Tester)
    PROVE  Conversation'
  <1>0. /\ Tester \in Conn /\ report \in [Conn -> Report]
        /\ pc \in [Conn -> Handling \cup {"closed", "read"}]
        /\ DOMAIN resp = Conn
        /\ TypeInv /\ RotationInv
    BY TestAssumption
       DEF Programs, DaemonInv, StatusInv, ReportsTyped, TypeInv, TypeOK, Domains
  <1>1. report[Tester] \in Report
    BY <1>0
  <1>2. Reported
    BY DEF Conversation
  <1> USE DEF slot, counters, locals, history, Goto, Respond
  <1>3. CASE StatusAlgo(Tester)
    <2>1. /\ pc[Tester] = "status_algo" /\ pc'[Tester] = "status_key"
          /\ UNCHANGED counters /\ UNCHANGED <<active_key, emitted, peer, req>>
      BY <1>0, <1>3 DEF StatusAlgo
    <2>2. Reported'
      BY <2>1 DEF Reported, Answered
    <2> QED
      BY <2>1, <2>2, HandlerMoves DEF Handling
  <1>4. CASE StatusKey(Tester)
    <2>1. /\ pc[Tester] = "status_key" /\ pc'[Tester] = "status_sealed"
          /\ UNCHANGED counters /\ UNCHANGED <<active_key, emitted, peer, req>>
      BY <1>0, <1>4 DEF StatusKey
    <2>2. active_key # NoKey /\ active_key.id # NoKey
      BY <1>0, TestHasItsKey
    <2>3. report'[Tester].key_id = active_key.id
      BY <1>0, <1>1, <1>4, <2>2 DEF StatusKey, Report
    <2>4. Reported'
      BY <2>1, <2>2, <2>3 DEF Reported, Answered
    <2> QED
      BY <2>1, <2>4, HandlerMoves DEF Handling
  <1>5. CASE StatusSealed(Tester)
    <2>1. /\ pc[Tester] = "status_sealed" /\ pc'[Tester] = "status_opened"
          /\ UNCHANGED counters /\ UNCHANGED <<active_key, emitted, peer, req>>
      BY <1>0, <1>5 DEF StatusSealed
    <2>2. /\ report'[Tester].sealed = packets_sealed
          /\ report'[Tester].key_id = report[Tester].key_id
      BY <1>0, <1>1, <1>5 DEF StatusSealed, Report
    <2>3. Reported'
      BY <1>2, <2>1, <2>2 DEF Reported, Answered
    <2> QED
      BY <2>1, <2>3, HandlerMoves DEF Handling
  <1>6. CASE StatusOpened(Tester)
    <2>1. /\ pc[Tester] = "status_opened" /\ pc'[Tester] = "status_errors"
          /\ UNCHANGED counters /\ UNCHANGED <<active_key, emitted, peer, req>>
      BY <1>0, <1>6 DEF StatusOpened
    <2>2. /\ report'[Tester].opened = packets_opened
          /\ report'[Tester].sealed = report[Tester].sealed
          /\ report'[Tester].key_id = report[Tester].key_id
      BY <1>0, <1>1, <1>6 DEF StatusOpened, Report
    <2>3. Reported'
      BY <1>2, <2>1, <2>2 DEF Reported, Answered
    <2> QED
      BY <2>1, <2>3, HandlerMoves DEF Handling
  <1>7. CASE StatusErrors(Tester)
    <2> DEFINE rep == [report[Tester] EXCEPT !.errors = crypto_errors]
               r   == Status(rep)
    <2>1. /\ pc[Tester] = "status_errors" /\ pc'[Tester] = "write"
          /\ UNCHANGED counters /\ UNCHANGED <<active_key, emitted, peer, req>>
          /\ resp'[Tester] = r
      BY <1>0, <1>7 DEF StatusErrors
    <2>2. r.kind = "status" /\ r.report = rep
      BY DEF Status
    <2>3. /\ rep.key_id = report[Tester].key_id /\ rep.sealed = report[Tester].sealed
          /\ rep.opened = report[Tester].opened /\ rep.errors = crypto_errors
      BY <1>1 DEF Report
    <2> HIDE DEF rep
    <2>4. /\ r.report.key_id # NoKey /\ r.report.sealed = packets_sealed
          /\ r.report.opened = packets_opened /\ r.report.errors = crypto_errors
      BY <1>2, <2>1, <2>2, <2>3 DEF Reported
    <2> HIDE DEF r
    <2>5. call = 1 \/ call = 2 * Len(Texts) + 2
      <3>1. req[Tester].method = "get_status"
        BY <1>0, <2>1 DEF DaemonInv, PlainInv, AtLabel
      <3>2. req[Tester] = TestRequest(call)
        BY <2>1 DEF Conversation, Handling
      <3> QED
        BY <3>1, <3>2, CallKinds
    <2>6. \A i \in 1 .. Len(Texts) : call # 2 * i /\ call # 2 * i + 1
      BY <2>5, CallsDiffer
    <2>7. call' = call /\ Answered' /\ Len(Texts) \in Nat
      BY <2>1, TestAssumption DEF call, Answered, testVars
    <2>8. Counted'
      BY <2>1, <2>6, <2>7 DEF Conversation, Counted, Tallied, testVars
    <2>9. TestExpects(call, r)
      <3>1. CASE call = 1
        BY <2>2, <2>4, <3>1, ScriptExpects
      <3>2. CASE call = 2 * Len(Texts) + 2
        <4> DEFINE k == Len(Texts)
        <4>1. /\ packets_sealed = base.sealed + k
              /\ packets_opened = base.opened + (k - 1)
              /\ crypto_errors = base.errors + 1
          BY <3>2 DEF Conversation, Counted, Tallied
        <4>2. base.opened \in Nat
          <5>1. call > 1
            BY <2>7, <3>2
          <5> QED
            BY <5>1 DEF Conversation
        <4>3. base.opened + (k - 1) = base.opened + k - 1
          BY <2>7, <4>2
        <4> QED
          BY <2>2, <2>4, <3>2, <4>1, <4>3, ScriptExpects
      <3> QED
        BY <2>5, <3>1, <3>2
    <2> QED
      BY <2>1, <2>4, <2>6, <2>8, <2>9, HandlerAnswers DEF Handling
  <1> QED
    BY <1>3, <1>4, <1>5, <1>6, <1>7

\* encrypt and decrypt clone the active key.
LEMMA CloneServed ==
    ASSUME DaemonInv, RoleInv, ScriptTyped, CliInv, Conversation, UNCHANGED testVars,
           EncryptKey(Tester) \/ DecryptKey(Tester)
    PROVE  Conversation'
  <1>0. /\ Tester \in Conn
        /\ pc \in [Conn -> Handling \cup {"closed", "read"}]
        /\ key \in [Conn -> ServedKey \cup {NoKey}]
        /\ TypeInv /\ RotationInv
    BY TestAssumption DEF Programs, DaemonInv, TypeInv, TypeOK
  <1>1. active_key # NoKey
    BY <1>0, TestHasItsKey
  <1>2. /\ pc[Tester] \in {"enc_key", "dec_key"}
        /\ pc'[Tester] \in {"enc_provider", "dec_provider"}
        /\ key'[Tester] = active_key
        /\ UNCHANGED counters /\ UNCHANGED <<active_key, emitted, peer, req>>
    BY <1>0, <1>1 DEF EncryptKey, DecryptKey, CloneKey, Goto, slot, history
  <1>3. Reported'
    BY <1>2 DEF Reported, Answered
  <1> QED
    BY <1>2, <1>3, HandlerMoves DEF Handling

\* encrypt for the test: the provider is the clone's, so the plaintext is sealed
\* and counted.
LEMMA EncryptServed ==
    ASSUME DaemonInv, RoleInv, ScriptTyped, CliInv, Conversation, UNCHANGED testVars,
           EncryptSeal(Tester)
    PROVE  Conversation'
  <1>0. /\ Tester \in Conn
        /\ pc \in [Conn -> Handling \cup {"closed", "read"}]
        /\ DOMAIN resp = Conn
        /\ TypeInv /\ RotationInv
        /\ packets_sealed \in Nat
    BY TestAssumption DEF Programs, DaemonInv, TypeInv, TypeOK, Domains
  <1>1. pc[Tester] = "enc_provider" /\ key[Tester] = active_key
    BY DEF EncryptSeal, Conversation
  <1>2. req[Tester] = TestRequest(call) /\ req[Tester].method = "encrypt"
    BY <1>0, <1>1
       DEF Conversation, Handling, TypeInv, ServesRequest, Encrypting
  <1>3. PICK i \in 1 .. Len(Texts) : call = 2 * i
    BY <1>2, CallKinds
  <1> DEFINE p == encryptParams(i)
             f == SealedFrame(active_key, p)
  <1>4. req[Tester].params = p
    <2>1. TestRequest(call) = [method |-> "encrypt", params |-> p]
      BY <1>3, ScriptCalls
    <2> QED
      BY <1>2, <2>1
  <1>5. p \in EncryptParams /\ p.nonce.len = 12 /\ p.plaintext = Texts[i]
    BY TestAssumption DEF encryptParams
  <1> HIDE DEF p
  <1>6. /\ active_key \in ServedKey /\ active_key.algo = provider.algo
        /\ provider \in [kind : {"ring"}, algo : ProviderAlgo]
    BY <1>0, TestHasItsKey
  <1> DEFINE w == SealRequest(active_key, p)
  <1>7. w.ok /\ w.val = f
    <2>1. p.plaintext.len \in Nat
      BY <1>5, CryptodAssumption DEF Blob
    <2>2. frame_len(p.plaintext.len, p.nonce.len, tag_len(provider.algo)) \in Int
      BY <1>5, <2>1 DEF frame_len, HEADER_LEN, tag_len
    <2> QED
      BY <1>5, <1>6, <2>2, SealCannotFail, EncryptMakesFrame DEF SealRequest
  <1>8. length(f) = p.plaintext.len + 40
    BY <1>5, <1>6, FrameVerdicts
  <1> HIDE DEF f, w
  <1> DEFINE r == Ciphertext(f)
  <1>9. /\ pc'[Tester] = "write" /\ resp'[Tester] = r
        /\ packets_sealed' = packets_sealed + 1
        /\ UNCHANGED <<packets_opened, crypto_errors>>
        /\ UNCHANGED <<active_key, emitted, peer, req>>
    <2>1. p.nonce.len = nonce_len(provider.algo)
      BY <1>5 DEF nonce_len
    <2>2. SealRequest(key[Tester], req[Tester].params) = w
      BY <1>1, <1>4 DEF w
    <2> QED
      BY <1>0, <1>4, <1>7, <2>1, <2>2
         DEF EncryptSeal, Respond, Goto, slot, history, locals
  <1>10. r.kind = "ciphertext" /\ r.frame = f
    BY DEF Ciphertext
  <1> HIDE DEF r
  <1>11. TestExpects(call, r)
    BY <1>3, <1>5, <1>8, <1>10, ScriptExpects
  <1>12. /\ call # 1 /\ call # 2 * Len(Texts) + 2
         /\ \A j \in 1 .. Len(Texts) : call # 2 * j + 1 /\ (call = 2 * j => j = i)
    BY <1>3, CallsDiffer
  <1>13. Counted'
    <2>1. call' = call /\ ~Answered /\ Answered' /\ base' = base
      BY <1>1, <1>9 DEF call, Answered, testVars
    <2>2. Tallied(i - 1, i - 1, 0)
      BY <1>3, <2>1 DEF Conversation, Counted
    <2>3. base.sealed \in Nat /\ i \in Nat
      <3>1. call > 1
        BY <1>3, CallsDiffer
      <3> QED
        BY <3>1, TestAssumption DEF Conversation
    <2>4. packets_sealed' = base.sealed + i
      <3>1. packets_sealed = base.sealed + (i - 1)
        BY <2>2 DEF Tallied
      <3> QED
        BY <1>0, <1>9, <2>3, <3>1
    <2>5. Tallied(i, i - 1, 0)'
      BY <1>9, <2>1, <2>2, <2>4 DEF Tallied
    <2> QED
      BY <1>12, <2>1, <2>5 DEF Counted
  <1>14. \A j \in 1 .. Len(Texts) :
            call = 2 * j => r.frame = SealedFrame(active_key, encryptParams(j))
    BY <1>10, <1>12 DEF f, p
  <1> QED
    BY <1>1, <1>9, <1>11, <1>12, <1>13, <1>14, HandlerAnswers DEF Handling

\* decrypt for the test: the last frame, under the key that made it, opens, and
\* the tampered one is refused as forged.
LEMMA DecryptServed ==
    ASSUME DaemonInv, RoleInv, ScriptTyped, CliInv, Conversation, UNCHANGED testVars,
           DecryptOpen(Tester)
    PROVE  Conversation'
  <1>0. /\ Tester \in Conn
        /\ pc \in [Conn -> Handling \cup {"closed", "read"}]
        /\ DOMAIN resp = Conn
        /\ TypeInv /\ RotationInv
        /\ packets_opened \in Nat /\ crypto_errors \in Nat
    BY TestAssumption DEF Programs, DaemonInv, TypeInv, TypeOK, Domains
  <1>1. pc[Tester] = "dec_provider" /\ key[Tester] = active_key
    BY DEF DecryptOpen, Conversation
  <1>2. req[Tester] = TestRequest(call) /\ req[Tester].method = "decrypt"
    BY <1>0, <1>1 DEF Conversation, Handling, DaemonInv, PlainInv, AtLabel
  <1>3. PICK i \in 1 .. Len(Texts) : call = 2 * i + 1
    BY <1>2, CallKinds
  <1> DEFINE p    == encryptParams(i)
             f    == SealedFrame(active_key, p)
             last == i = Len(Texts)
             g    == IF last THEN tampered(f) ELSE f
  <1>4. req[Tester].params = g
    <2>1. frame = f
      BY <1>3 DEF Conversation, FrameKept
    <2>2. TestRequest(call) =
            [method |-> "decrypt",
             params |-> IF i = Len(Texts) THEN tampered(frame) ELSE frame]
      BY <1>3, ScriptCalls
    <2> QED
      BY <1>2, <2>1, <2>2
  <1>5. p \in EncryptParams /\ p.nonce.len = 12 /\ p.plaintext = Texts[i]
    BY TestAssumption DEF encryptParams
  <1>6. /\ active_key \in ServedKey /\ active_key.algo = provider.algo
        /\ provider \in [kind : {"ring"}, algo : ProviderAlgo]
    BY <1>0, TestHasItsKey
  <1> HIDE DEF p
  <1> DEFINE text == wire_open(provider, active_key, g, length(g))
  <1>7. text = IF last THEN Err("AuthFailed") ELSE Ok(Texts[i])
    BY <1>5, <1>6, FrameVerdicts
  <1> HIDE DEF f, g, text, last
  <1> DEFINE r == IF last THEN Error(401) ELSE Plaintext(Texts[i])
  <1>8. /\ pc'[Tester] = "write" /\ resp'[Tester] = r
        /\ packets_opened' = IF last THEN packets_opened ELSE packets_opened + 1
        /\ crypto_errors' = IF last THEN crypto_errors + 1 ELSE crypto_errors
        /\ UNCHANGED packets_sealed
        /\ UNCHANGED <<active_key, emitted, peer, req>>
    <2>1. wire_open(provider, key[Tester], req[Tester].params,
                    length(req[Tester].params)) = text
      BY <1>1, <1>4 DEF text
    <2>2. CASE last
      <3>1. ~text.ok /\ text.err = "AuthFailed"
        BY <1>7, <2>2 DEF Err
      <3>2. open_error(text.err) = 401
        BY <3>1 DEF open_error
      <3> QED
        BY <1>0, <2>1, <2>2, <3>1, <3>2
           DEF DecryptOpen, Respond, Goto, slot, history, locals
    <2>3. CASE ~last
      <3>1. text.ok /\ text.val = Texts[i]
        BY <1>7, <2>3 DEF Ok
      <3> QED
        BY <1>0, <2>1, <2>3, <3>1
           DEF DecryptOpen, Respond, Goto, slot, history, locals
    <2> QED
      BY <2>2, <2>3
  <1> HIDE DEF r
  <1>9. TestExpects(call, r)
    BY <1>3, ScriptExpects DEF r, last
  <1>10. /\ call # 1 /\ call # 2 * Len(Texts) + 2
         /\ \A j \in 1 .. Len(Texts) : call # 2 * j /\ (call = 2 * j + 1 => j = i)
    BY <1>3, CallsDiffer
  <1>11. Counted'
    <2>1. call' = call /\ ~Answered /\ Answered' /\ base' = base
      BY <1>1, <1>8 DEF call, Answered, testVars
    <2>2. Tallied(i, i - 1, 0)
      BY <1>3, <2>1 DEF Conversation, Counted
    <2>3. base.opened \in Nat /\ base.errors \in Nat /\ i \in Nat /\ Len(Texts) \in Nat
      <3>1. call > 1
        BY <1>3, CallsDiffer
      <3> QED
        BY <3>1, TestAssumption DEF Conversation
    <2>4. /\ packets_sealed = base.sealed + i
          /\ packets_opened = base.opened + (i - 1)
          /\ crypto_errors = base.errors + 0
      BY <2>2 DEF Tallied
    <2>5. i < Len(Texts) <=> ~last
      BY <2>3 DEF last
    <2>6. /\ packets_opened' = base.opened + (IF i < Len(Texts) THEN i ELSE i - 1)
          /\ crypto_errors' = base.errors + (IF i = Len(Texts) THEN 1 ELSE 0)
      <3>1. CASE last
        <4>1. packets_opened' = base.opened + (i - 1)
          BY <1>8, <2>4, <3>1
        <4>2. crypto_errors' = base.errors + 1
          BY <1>8, <2>3, <2>4, <3>1
        <4> QED
          BY <2>5, <3>1, <4>1, <4>2 DEF last
      <3>2. CASE ~last
        <4>1. packets_opened' = base.opened + i
          BY <1>8, <2>3, <2>4, <3>2
        <4>2. crypto_errors' = base.errors + 0
          BY <1>8, <2>4, <3>2
        <4> QED
          BY <2>5, <3>2, <4>1, <4>2 DEF last
      <3> QED
        BY <3>1, <3>2
    <2>7. Tallied(i, IF i < Len(Texts) THEN i ELSE i - 1, IF i = Len(Texts) THEN 1 ELSE 0)'
      BY <1>8, <2>1, <2>4, <2>6 DEF Tallied
    <2> QED
      BY <1>10, <2>1, <2>7 DEF Counted
  <1> QED
    BY <1>1, <1>8, <1>9, <1>10, <1>11, HandlerAnswers DEF Handling

\* Every step of the daemon that serves the test keeps the conversation.
LEMMA ServeKeepsTester ==
    ASSUME DaemonInv, RoleInv, ScriptTyped, CliInv, TesterInv, Serve(Tester)
    PROVE  TesterInv'
  <1>0. UNCHANGED testVars
    BY DEF Serve
  <1>1. CASE ~Running(Tester)
    BY <1>0, <1>1 DEF TesterInv, TestNeverFails, Running, testVars
  <1>2. CASE Running(Tester)
    <2>1. pc[Tester] # "closed"
      BY DEF Serve, RunTask, LockKey, ReadEof, WriteResponse, StatusAlgo,
              StatusKey, StatusSealed, StatusOpened, StatusErrors, RotateValidate,
              RotateSetProvider, RotateSetAlgo, RotateSetKey, SetPolicy, EncryptKey,
              DecryptKey, CloneKey, EncryptSeal, DecryptOpen
    <2>2. Conversation /\ peer[Tester]
      BY <1>2, <2>1 DEF TesterInv, Conversation
    <2>3. ~WriteResponse(Tester) /\ ~ReadEof(Tester)
      <3>1. ~ReadEof(Tester)
        BY <2>2 DEF ReadEof
      <3>2. WriteResponse(Tester) => pc[Tester] = "write"
        BY DEF WriteResponse
      <3>3. pc[Tester] # "write"
        BY <2>2, <3>1 DEF Serve, LockKey, StatusKey, RotateSetKey, EncryptKey, DecryptKey,
                          CloneKey
      <3> QED
        BY <3>1, <3>2, <3>3
    <2>4. pc[Tester] \notin Rotating \cup {"policy"}
      BY DEF RoleInv, Idle, Asking, Crypting, Rotating
    <2>5. ~(\/ RotateValidate(Tester) \/ RotateSetProvider(Tester) \/ RotateSetAlgo(Tester)
            \/ RotateSetKey(Tester) \/ SetPolicy(Tester))
      BY <2>4 DEF RotateValidate, RotateSetProvider, RotateSetAlgo, RotateSetKey,
                  SetPolicy, Rotating
    <2>6. \/ StatusAlgo(Tester) \/ StatusKey(Tester) \/ StatusSealed(Tester)
          \/ StatusOpened(Tester) \/ StatusErrors(Tester)
          \/ EncryptKey(Tester) \/ DecryptKey(Tester)
          \/ EncryptSeal(Tester) \/ DecryptOpen(Tester)
      BY <2>3, <2>5 DEF Serve, RunTask, LockKey
    <2>7. Conversation'
      BY <1>0, <2>2, <2>6, StatusServed, CloneServed, EncryptServed, DecryptServed
    <2> QED
      BY <1>0, <2>7 DEF TesterInv, TestNeverFails, testVars
  <1> QED
    BY <1>1, <1>2

-----------------------------------------------------------------------------
(* The test itself                                                         *)

\* It dials after acm-cli has exited with 0.
LEMMA DialKeepsTester ==
    ASSUME TypeInv, TesterInv, Dial(Tester)
    PROVE  TesterInv'
  <1>1. /\ Tester \in Conn /\ pc \in [Conn -> Handling \cup {"closed", "read"}]
        /\ peer \in [Conn -> BOOLEAN]
    BY TestAssumption DEF Programs, TypeInv, TypeOK
  <1>2. /\ outcome'[Cli] = "ok" /\ call' = 1 /\ outcome' = outcome
    BY DEF Dial, testVars, call
  <1>3. pc'[Tester] = "read" /\ peer'[Tester]
    BY <1>1 DEF Dial, Accept, Goto
  <1>4. \A i \in 1 .. Len(Texts) : call' # 2 * i /\ call' # 2 * i + 1
    BY <1>2, CallsDiffer
  <1>5. call' # 2 * Len(Texts) + 2
    <2>1. Len(Texts) \in Nat
      BY TestAssumption
    <2> QED
      BY <1>2, <2>1
  <1>6. Reported' /\ FrameKept' /\ Counted'
    BY <1>3, <1>4, <1>5 DEF Reported, FrameKept, Counted, Answered
  <1>7. ~(call' > 1)
    BY <1>2
  <1>8. Conversation'
    BY <1>2, <1>3, <1>6, <1>7 DEF Conversation, Handling, Answered
  <1> QED
    BY <1>2, <1>8 DEF TesterInv, TestNeverFails

\* It sends the request of the call that it is at.
LEMMA SendKeepsTester ==
    ASSUME TypeInv, ScriptTyped, TesterInv, Send(Tester)
    PROVE  TesterInv'
  <1>1. /\ Tester \in Conn /\ pc \in [Conn -> Handling \cup {"closed", "read"}]
        /\ DOMAIN req = Conn
    BY TestAssumption DEF Programs, TypeInv, TypeOK, Domains
  <1>2. ReadRequest(Tester, TestRequest(call))
    BY TestAssumption DEF Send, ScriptRequests, call
  <1>3. pc[Tester] = "read" /\ Running(Tester) /\ UNCHANGED testVars
    BY <1>2 DEF ReadRequest, Send
  <1>4. /\ TestRequest(call).method \in {"get_status", "encrypt", "decrypt"}
        /\ Conversation
    BY <1>3, TestSendsRequests
  <1>5. /\ pc'[Tester] \in {"status_algo", "enc_key", "dec_key"}
        /\ req'[Tester] = TestRequest(call)
        /\ UNCHANGED <<peer, resp, active_key, emitted>> /\ UNCHANGED counters
    BY <1>1, <1>2, <1>4, EntryLabels DEF ReadRequest, Goto, slot
  <1> USE DEF testVars
  <1>6. call' = call /\ ~Answered /\ ~Answered'
    BY <1>3, <1>5 DEF call, Answered
  <1>7. TestRequest(call)' = TestRequest(call)
    BY <1>3, ScriptStays
  <1>8. Reported'
    BY <1>5 DEF Reported, Answered
  <1>9. FrameKept'
    BY <1>3, <1>4, <1>5, <1>6 DEF Conversation, FrameKept, SealedFrame, encryptParams
  <1>10. Counted'
    BY <1>3, <1>4, <1>5, <1>6 DEF Conversation, Counted, Tallied, counters
  <1>11. Conversation'
    BY <1>3, <1>4, <1>5, <1>6, <1>7, <1>8, <1>9, <1>10 DEF Conversation, Handling
  <1> QED
    BY <1>3, <1>11 DEF TesterInv, TestNeverFails

\* It gets the answer it expects and goes on to the next call: with the status
\* it starts to count, with a ciphertext it has the frame to decrypt.
LEMMA NextCall ==
    ASSUME TypeInv, ScriptTyped, Conversation, Answered, Receive(Tester),
           call < LastStep(Tester), call' = call + 1, UNCHANGED outcome
    PROVE  Conversation'
  <1>0. /\ Tester \in Conn /\ pc \in [Conn -> Handling \cup {"closed", "read"}]
        /\ packets_sealed \in Nat /\ packets_opened \in Nat /\ crypto_errors \in Nat
    BY TestAssumption DEF Programs, TypeInv, TypeOK
  <1> DEFINE k == Len(Texts)
             r == resp[Tester]
  <1>1. k \in Nat /\ LastStep(Tester) = 2 * k + 2 /\ call \in Nat /\ 1 \in 1 .. k
    <2>1. k \in Nat \ {0} /\ LastStep(Tester) = 2 * k + 2 /\ call \in Nat
      BY TestAssumption, ScriptEnd DEF ScriptTyped, call, Programs
    <2> HIDE DEF k
    <2> QED
      BY <2>1
  <1>2. peer[Tester] /\ TestExpects(call, r)
    BY DEF Conversation
  <1>3. /\ pc'[Tester] = "read" /\ UNCHANGED <<peer, active_key>> /\ UNCHANGED counters
        /\ r.kind = "ciphertext" => \E e \in emitted' : e.frame = r.frame
    <2>1. /\ pc'[Tester] = "read" /\ UNCHANGED <<peer, active_key>> /\ UNCHANGED counters
      BY <1>0, <1>2 DEF Receive, WriteResponse, Goto, slot, counters
    <2> DEFINE e == [frame |-> resp[Tester].frame, params |-> req[Tester].params]
    <2>2. r.kind = "ciphertext" => emitted' = emitted \cup {e}
      BY <1>2 DEF Receive, WriteResponse
    <2>3. e.frame = r.frame
      OBVIOUS
    <2> QED
      BY <2>1, <2>2, <2>3
  <1>4. /\ base' = IF call = 1 /\ r.kind = "status" THEN r.report ELSE base
        /\ frame' = IF r.kind = "ciphertext" THEN r.frame ELSE frame
    BY DEF Receive, call
  <1>5. ~Answered' /\ Reported'
    BY <1>3 DEF Answered, Reported
  <1>6. ASSUME FrameKept', Counted',
               base'.sealed \in Nat /\ base'.opened \in Nat /\ base'.errors \in Nat
        PROVE  Conversation'
    BY <1>3, <1>5, <1>6 DEF Conversation, Handling
  <1> HIDE DEF r
  <1>7. ASSUME call > 1
        PROVE  /\ base' = base
               /\ base.sealed \in Nat /\ base.opened \in Nat /\ base.errors \in Nat
    <2>1. call # 1
      BY <1>1, <1>7
    <2> QED
      BY <1>4, <1>7, <2>1 DEF Conversation
  <1>8. CASE call = 1
    <2>1. r.kind = "status"
      BY <1>2, <1>8, ScriptExpects
    <2>2. base' = r.report
      BY <1>4, <1>8, <2>1
    <2>3. /\ base'.sealed = packets_sealed /\ base'.opened = packets_opened
          /\ base'.errors = crypto_errors
      BY <1>8, <2>2 DEF Conversation, Reported, r
    <2>4. /\ call' = 2 * 1 /\ call' # 2 * k + 2
          /\ \A j \in 1 .. k : call' # 2 * j + 1 /\ (call' = 2 * j => j = 1)
      <3>1. call' = 2 * 1
        BY <1>8
      <3> QED
        BY <1>1, <3>1, CallsDiffer
    <2>5. FrameKept'
      BY <1>5, <2>4 DEF FrameKept
    <2>6. Tallied(1 - 1, 1 - 1, 0)'
      <3>1. 1 - 1 = 0
        OBVIOUS
      <3>2. /\ packets_sealed' = base'.sealed + 0 /\ packets_opened' = base'.opened + 0
            /\ crypto_errors' = base'.errors + 0
        BY <1>0, <1>3, <2>3 DEF counters
      <3> QED
        BY <3>1, <3>2 DEF Tallied
    <2>7. Counted'
      BY <1>1, <1>5, <2>4, <2>6 DEF Counted
    <2> QED
      BY <1>0, <1>6, <2>3, <2>5, <2>7
  <1>9. ASSUME NEW i \in 1 .. k, call = 2 * i
        PROVE  Conversation'
    <2>1. r.kind = "ciphertext"
      BY <1>2, <1>9, ScriptExpects
    <2>2. r.frame = SealedFrame(active_key, encryptParams(i))
      BY <1>9 DEF Conversation, FrameKept, r
    <2>3. frame' = r.frame /\ \E e \in emitted' : e.frame = frame'
      BY <1>3, <1>4, <2>1
    <2>4. /\ call > 1 /\ call' = 2 * i + 1 /\ call' # 2 * k + 2
          /\ \A j \in 1 .. k : call' # 2 * j /\ (call' = 2 * j + 1 => j = i)
      <3>1. call' = 2 * i + 1 /\ call > 1
        BY <1>9, CallsDiffer
      <3> QED
        BY <3>1, CallsDiffer
    <2>5. base' = base
      BY <1>7, <2>4
    <2>6. FrameKept'
      BY <1>3, <1>5, <2>2, <2>3, <2>4 DEF FrameKept, SealedFrame, encryptParams
    <2>7. Tallied(i, i - 1, 0)
      BY <1>9 DEF Conversation, Counted
    <2>8. Tallied(i, i - 1, 0)'
      BY <1>3, <2>5, <2>7 DEF Tallied, counters
    <2>9. Counted'
      BY <1>5, <2>4, <2>8 DEF Counted
    <2> QED
      BY <1>6, <1>7, <2>4, <2>6, <2>9
  <1>10. ASSUME NEW i \in 1 .. k, call = 2 * i + 1, i < k
         PROVE  Conversation'
    <2>1. /\ i + 1 \in 1 .. k /\ call' = 2 * (i + 1) /\ i = (i + 1) - 1
          /\ ~(i = k)
      <3> HIDE DEF k
      <3>1. i \in Nat /\ i + 1 \in 1 .. k /\ i = (i + 1) - 1 /\ ~(i = k)
        BY <1>1, <1>10
      <3>2. call' = 2 * (i + 1)
        BY <1>10, <3>1
      <3> QED
        BY <3>1, <3>2
    <2>2. call > 1
      BY <1>10, CallsDiffer
    <2>3. /\ call' # 2 * k + 2
          /\ \A j \in 1 .. k : call' # 2 * j + 1 /\ (call' = 2 * j => j = i + 1)
      BY <2>1, CallsDiffer
    <2>4. base' = base
      BY <1>7, <2>2
    <2>5. FrameKept'
      BY <1>5, <2>3 DEF FrameKept
    <2>6. Tallied(i, i, 0)
      BY <1>10, <2>1 DEF Conversation, Counted
    <2>7. Tallied((i + 1) - 1, (i + 1) - 1, 0)'
      BY <1>3, <2>1, <2>4, <2>6 DEF Tallied, counters
    <2>8. Counted'
      BY <1>5, <2>1, <2>3, <2>7 DEF Counted
    <2> QED
      BY <1>6, <1>7, <2>2, <2>5, <2>8
  <1>11. ASSUME call = 2 * k + 1
         PROVE  Conversation'
    <2>1. k \in 1 .. k /\ call > 1 /\ call' = 2 * k + 2 /\ ~(k < k)
      <3> HIDE DEF k
      <3> QED
        BY <1>1, <1>11
    <2>2. \A j \in 1 .. k : call' # 2 * j /\ call' # 2 * j + 1
      BY <2>1, CallsDiffer
    <2>3. base' = base
      BY <1>7, <2>1
    <2>4. FrameKept'
      BY <2>2 DEF FrameKept
    <2>5. Tallied(k, k - 1, 1)
      BY <1>11, <2>1 DEF Conversation, Counted
    <2>6. Tallied(k, k - 1, 1)'
      BY <1>3, <2>3, <2>5 DEF Tallied, counters
    <2>7. Counted'
      BY <2>2, <2>6 DEF Counted
    <2> QED
      BY <1>6, <1>7, <2>1, <2>4, <2>7
  <1>12. call # 2 * k + 2
    <2> HIDE DEF k
    <2> QED
      BY <1>1
  <1>13. \A i \in 1 .. k : i < k \/ i = k
    <2> HIDE DEF k
    <2> QED
      BY <1>1
  <1>14. call \in 1 .. LastStep(Tester)
    BY DEF ScriptTyped, call
  <1> QED
    BY <1>8, <1>9, <1>10, <1>11, <1>12, <1>13, <1>14, ScriptPosition

\* It never gets an answer that it does not expect.
LEMMA ReceiveKeepsTester ==
    ASSUME TypeInv, ScriptTyped, TesterInv, Receive(Tester)
    PROVE  TesterInv'
  <1>1. pc[Tester] = "write" /\ Running(Tester)
    BY DEF Receive, WriteResponse
  <1>2. Conversation /\ Answered
    BY <1>1 DEF TesterInv, Answered
  <1>3. Expects(Tester, resp[Tester])
    BY <1>2, TestAssumption DEF Conversation, Expects, call
  <1>4. /\ Tester \in Programs /\ outcome \in [Programs -> {"running", "ok", "failed", "timeout"}]
        /\ step \in [Programs -> Nat]
    BY DEF Programs, ScriptTyped
  <1>5. CASE /\ step[Tester] < LastStep(Tester)
             /\ step' = [step EXCEPT ![Tester] = @ + 1]
             /\ UNCHANGED outcome
    <2>1. call' = call + 1 /\ call < LastStep(Tester)
      BY <1>4, <1>5 DEF call
    <2>2. Conversation'
      BY <1>2, <1>5, <2>1, NextCall
    <2> QED
      BY <1>5, <2>2 DEF TesterInv, TestNeverFails
  <1>6. CASE Ends(Tester, "ok")
    BY <1>4, <1>6 DEF Ends, TesterInv, TestNeverFails, Running
  <1> QED
    BY <1>3, <1>5, <1>6 DEF Receive

\* It gives up, or has ended.
LEMMA EndKeepsTester ==
    ASSUME ScriptTyped, TesterInv, Deadline(Tester) \/ Exit(Tester)
    PROVE  TesterInv'
  <1>1. /\ Tester \in Programs
        /\ outcome \in [Programs -> {"running", "ok", "failed", "timeout"}]
    BY DEF Programs, ScriptTyped
  <1>2. CASE Deadline(Tester)
    BY <1>1, <1>2 DEF Deadline, Ends, TesterInv, TestNeverFails, Running
  <1>3. CASE Exit(Tester)
    BY <1>3 DEF Exit, testVars, TesterInv, TestNeverFails, Running
  <1> QED
    BY <1>2, <1>3

\* Every step of the composition keeps the test from failing.
LEMMA TesterStep ==
    ASSUME DaemonInv, RoleInv, ScriptTyped, CliInv, TesterInv, [TestNext]_allVars
    PROVE  TesterInv'
  <1>0. /\ TypeInv /\ ReportsTyped
        /\ Cli \in Conn /\ Tester \in Conn /\ Cli # Tester /\ Programs = {Cli, Tester}
        /\ outcome \in [Programs -> {"running", "ok", "failed", "timeout"}]
        /\ step \in [Programs -> Nat]
    BY TestAssumption DEF Programs, DaemonInv, StatusInv, ScriptTyped
  <1>1. CASE UNCHANGED allVars
    <2>1. /\ UNCHANGED testVars /\ UNCHANGED testerTask /\ UNCHANGED counters
          /\ UNCHANGED <<pc, active_key, emitted>>
      BY <1>1 DEF allVars, vars, testerTask, slot, locals, history
    <2>2. Conversation => Conversation'
      <3> SUFFICES ASSUME Conversation PROVE Conversation'
        OBVIOUS
      <3>1. outcome'[Cli] = "ok" /\ emitted \subseteq emitted'
        BY <2>1 DEF testVars, Conversation
      <3> QED
        BY <2>1, <3>1, ConversationStays DEF testVars
    <2>3. pc'[Tester] = pc[Tester] /\ call' = call
      BY <2>1 DEF testVars, call
    <2> QED
      BY <2>1, <2>2, <2>3 DEF testVars, TesterInv, TestNeverFails, Running
  <1>2. ASSUME NEW c \in Conn \ {Tester}, Serve(c) \/ Others(c)
        PROVE  TesterInv'
    <2>1. TaskStep(c) \/ \E r : ReadRequest(c, r)
      BY <1>2 DEF Serve, Others, TaskStep, RunTask
    <2>2. UNCHANGED <<outcome, step, base, frame>>
      BY <1>2 DEF Serve, Others, testVars
    <2> QED
      BY <1>0, <2>1, <2>2, OthersKeepTester
  <1>3. CASE Dial(Cli) \/ Send(Cli) \/ Exit(Cli)
    <2>1. TaskStep(Cli) \/ \E r : ReadRequest(Cli, r)
      BY <1>3 DEF Dial, Send, Exit, TaskStep
    <2>2. UNCHANGED <<outcome, step, base, frame>>
      BY <1>3 DEF Dial, Send, Exit, testVars
    <2> QED
      BY <1>0, <2>1, <2>2, OthersKeepTester
  <1>4. CASE Receive(Cli) \/ Deadline(Cli)
    <2>1. TaskStep(Cli)
      BY <1>4 DEF Receive, Deadline, TaskStep, RunTask
    <2>2. outcome[Cli] # "ok"
      BY <1>4 DEF Receive, Deadline, Running
    <2>3. outcome'[Tester] = outcome[Tester] /\ step'[Tester] = step[Tester]
      BY <1>0, <1>4 DEF Receive, Deadline, Ends
    <2> QED
      BY <1>0, <2>1, <2>2, <2>3, OthersKeepTester
  <1>5. CASE \/ Dial(Tester) \/ Send(Tester) \/ Receive(Tester) \/ Deadline(Tester)
             \/ Exit(Tester) \/ Serve(Tester)
    BY <1>0, <1>5, DialKeepsTester, SendKeepsTester, ReceiveKeepsTester, EndKeepsTester,
       ServeKeepsTester
  <1> QED
    BY <1>0, <1>1, <1>2, <1>3, <1>4, <1>5 DEF TestNext

-----------------------------------------------------------------------------
(* The theorems                                                            *)

\* A new daemon, and two programs that have not begun.
LEMMA TestInvInit == TestInit => TestInv
  <1> SUFFICES ASSUME TestInit PROVE TestInv
    OBVIOUS
  <1>1. Init
    BY DEF TestInit
  <1>2. DaemonInv
    BY <1>1, TypeInit, RotationInit, StatusInit, PlainInit DEF DaemonInv
  <1>3. /\ Cli \in Conn /\ Tester \in Conn /\ Programs = {Cli, Tester}
        /\ Len(Texts) \in Nat
    BY TestAssumption DEF Programs
  <1>4. /\ \A c \in Conn : pc[c] = "closed"
        /\ outcome = [p \in Programs |-> "running"]
        /\ step = [p \in Programs |-> 1]
    BY DEF TestInit, Init
  <1>5. RoleInv
    BY <1>3, <1>4 DEF RoleInv, Idle
  <1>6. ScriptTyped
    <2>1. 1 \in 1 .. LastStep(Tester)
      BY <1>3, ScriptEnd
    <2> QED
      BY <1>3, <1>4, <2>1 DEF ScriptTyped
  <1>7. CliInv
    BY <1>3, <1>4 DEF CliInv
  <1>8. TesterInv
    BY <1>3, <1>4 DEF TesterInv, TestNeverFails, call
  <1> QED
    BY <1>2, <1>5, <1>6, <1>7, <1>8 DEF TestInv

\* The invariant is inductive: every step of the composition is one of the
\* daemon's, so what holds of the daemon is kept by the daemon's own proofs.
LEMMA TestInvStep ==
    ASSUME OnlyTheTest
    PROVE  TestInv /\ [TestNext]_allVars => TestInv' /\ [Next]_vars
  <1> SUFFICES ASSUME TestInv, [TestNext]_allVars
               PROVE  TestInv' /\ [Next]_vars
    OBVIOUS
  <1>1. DaemonInv /\ TypeInv /\ RoleInv /\ ScriptTyped /\ CliInv /\ TesterInv
    BY DEF TestInv, DaemonInv
  <1>2. [Next]_vars
    BY <1>1, TestStepIsStep
  <1>3. DaemonInv'
    BY <1>1, <1>2, TestHasOneRotator, TypeStep, RotationStep, StatusStep, PlainStep
       DEF DaemonInv
  <1>4. RoleInv'
    BY <1>1, RoleStep
  <1>5. ScriptTyped'
    BY <1>1, ScriptTypedStep
  <1>6. CliInv'
    BY <1>1, CliStep
  <1>7. TesterInv'
    BY <1>1, TesterStep
  <1> QED
    BY <1>2, <1>3, <1>4, <1>5, <1>6, <1>7 DEF TestInv

\* acm-encdec-test never exits with a wrong answer, for every number of other
\* connections, every key that rotate_key accepts, and every list of plaintexts
\* and nonces, whenever the agent asks for the status and whichever program
\* runs into its deadline, as long as nobody else rotates, encrypts or decrypts.
THEOREM TestCorrect ==
    ASSUME OnlyTheTest
    PROVE  TestSpec => []TestNeverFails
  <1>1. TestInv => TestNeverFails
    BY DEF TestInv, TesterInv
  <1> QED
    BY <1>1, TestInvInit, TestInvStep, PTL DEF TestSpec

\* The two programs are clients like any others: the composition behaves as
\* Cryptod says, so every theorem about the daemon holds of it.
THEOREM TestIsClient ==
    ASSUME OnlyTheTest
    PROVE  TestSpec => Spec
  <1>1. TestInit => Init
    BY DEF TestInit
  <1> QED
    BY <1>1, TestInvInit, TestInvStep, PTL DEF TestSpec, Spec
=============================================================================
