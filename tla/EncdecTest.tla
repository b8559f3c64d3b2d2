----------------------------- MODULE EncdecTest -----------------------------
(***************************************************************************)
(* The acceptance check of a module: an operator runs `acm-cli rotate-key` *)
(* and, if that exits with 0, `acm-encdec-test`, while the agent goes on   *)
(* asking the same daemon for its status.  Each program is a client of     *)
(* Cryptod with a connection and a script of its own.                      *)
(***************************************************************************)
EXTENDS Cryptod

CONSTANTS
    Cli, Tester,    \* the connections of the two programs
    Texts,          \* the plaintexts of the test; the last one is tampered with
    Nonce           \* Nonce[i]: the random nonce for Texts[i]

Programs == {Cli, Tester}

\* The parameters of the test's encrypt call for Texts[i].
encryptParams(i) == [nonce     |-> Nonce[i],
                     aad       |-> IF i = Len(Texts) THEN "none" ELSE "acm-uz-e2e",
                     plaintext |-> Texts[i]]

\* The programs are clients of the daemon: what they send is among the requests
\* of Cryptod.
ASSUME TestAssumption ==
    /\ Programs \subseteq Conn /\ Cli # Tester
    /\ Sends[Cli] = {"rotate_key"}
    /\ Sends[Tester] = {"get_status", "encrypt", "decrypt"}
    /\ Len(Texts) \in Nat \ {0}
    /\ \A i \in 1 .. Len(Texts) : /\ encryptParams(i) \in EncryptParams
                                  /\ Nonce[i].len = 12
    /\ Texts[Len(Texts)].len + 16 \in MadeUp.lens

VARIABLES
    outcome,    \* outcome[p]: "running", or how p exited: "ok" (exit code 0),
                \* "failed" (a wrong answer), "timeout" (its context expired)
    step,       \* step[p]: which call of its script p makes
    base,       \* the test's first status report
    frame       \* the frame the test got from its last encrypt

testVars == <<outcome, step, base, frame>>
allVars  == <<vars, testVars>>

NoFrame == [len |-> 0]

TestInit ==
    /\ Init
    /\ outcome = [p \in Programs |-> "running"]
    /\ step = [p \in Programs |-> 1]
    /\ base = EmptyReport
    /\ frame = NoFrame

-----------------------------------------------------------------------------
(* The scripts.  Calls 2i and 2i + 1 of the test encrypt and decrypt       *)
(* Texts[i]; the first and the last one ask for the status.                *)

LastStep(p) == IF p = Cli THEN 1 ELSE 2 * Len(Texts) + 2

textAt(n) == n \div 2

\* The test flips the first byte after header and nonce, which is one of the body.
tampered(f) == [hdr |-> f.hdr, nonce |-> f.nonce, body |-> junk(f.body.len)]

TestRequest(n) ==
    CASE n \in {1, LastStep(Tester)} -> [method |-> "get_status", params |-> {}]
      [] n % 2 = 0 /\ n # LastStep(Tester) ->
            [method |-> "encrypt",
             params |-> encryptParams(textAt(n))]
      [] n % 2 = 1 /\ n # 1 ->
            [method |-> "decrypt",
             params |-> IF textAt(n) = Len(Texts) THEN tampered(frame)
                        ELSE frame]

\* What the test accepts as the answer r to its call n; it does not look at the
\* length of the frame that it tampers with.
TestExpects(n, r) ==
    \/ n = 1 /\ r.kind = "status" /\ r.report.key_id # NoKey
    \/ /\ n = LastStep(Tester)
       /\ r.kind = "status"
       /\ r.report.sealed = base.sealed + Len(Texts)
       /\ r.report.opened = base.opened + Len(Texts) - 1
       /\ r.report.errors = base.errors + 1
    \/ /\ n % 2 = 0 /\ n # LastStep(Tester)
       /\ r.kind = "ciphertext"
       /\ \/ textAt(n) = Len(Texts)
          \/ length(r.frame) = Texts[textAt(n)].len + 40
    \/ /\ n % 2 = 1 /\ n # 1
       /\ r = IF textAt(n) = Len(Texts) THEN Error(401)
              ELSE Plaintext(Texts[textAt(n)])

ScriptRequests(p) ==
    IF p = Cli THEN [method : {"rotate_key"}, params : RotateParams]
    ELSE {TestRequest(step[p])}

Expects(p, r) == IF p = Cli THEN r = OkResponse ELSE TestExpects(step[p], r)

-----------------------------------------------------------------------------
(* The programs                                                            *)

Running(p) == outcome[p] = "running"
Ends(p, how) == outcome' = [outcome EXCEPT ![p] = how]

\* The first call dials; the test is only started on a module with a key.
Dial(p) ==
    /\ Running(p) /\ step[p] = 1
    /\ p = Tester => outcome[Cli] = "ok"
    /\ Accept(p)
    /\ UNCHANGED testVars

Send(p) ==
    /\ Running(p)
    /\ \E r \in ScriptRequests(p) : ReadRequest(p, r)
    /\ UNCHANGED testVars

\* The program reads the answer to its call and exits at the first wrong one.
Receive(p) ==
    /\ Running(p) /\ peer[p]
    /\ WriteResponse(p)
    /\ base' = IF step[p] = 1 /\ resp[p].kind = "status" THEN resp[p].report
             ELSE base
    /\ frame' = IF resp[p].kind = "ciphertext" THEN resp[p].frame ELSE frame
    /\ \/ /\ ~Expects(p, resp[p])
          /\ Ends(p, "failed")
          /\ UNCHANGED step
       \/ /\ Expects(p, resp[p]) /\ step[p] < LastStep(p)
          /\ step' = [step EXCEPT ![p] = @ + 1]
          /\ UNCHANGED outcome
       \/ /\ Expects(p, resp[p]) /\ step[p] = LastStep(p)
          /\ Ends(p, "ok")
          /\ UNCHANGED step

\* The context of the program expires during a call: it gives up, but the
\* daemon still serves the request.
Deadline(p) ==
    /\ Running(p) /\ pc[p] \in Handling
    /\ ClientClose(p)
    /\ Ends(p, "timeout")
    /\ UNCHANGED <<step, base, frame>>

Exit(p) ==
    /\ ~Running(p)
    /\ ClientClose(p)
    /\ UNCHANGED testVars

\* Steps of the daemon that no program takes part in.
Serve(c) ==
    /\ \/ pc[c] # "write" /\ RunTask(c)
       \/ LockKey(c)
       \/ ReadEof(c)
       \/ ~peer[c] /\ WriteResponse(c)
    /\ UNCHANGED testVars

\* The requests the scripts may still need.
Reserved == (LastStep(Cli) - step[Cli] + 1) + (LastStep(Tester) - step[Tester] + 1)

\* Everybody else (the agent) calls what Sends allows, as often as the bound
\* on requests leaves room for the scripts.
Others(c) ==
    /\ \/ Accept(c)
       \/ ClientClose(c)
       \/ peer[c] /\ WriteResponse(c)
       \/ /\ sent + Reserved < MaxRequests
          /\ \/ \E r \in Requests(c) : ReadRequest(c, r)
             \/ ReadGarbage(c)
    /\ UNCHANGED testVars

TestNext ==
    \/ \E c \in Conn : Serve(c)
    \/ \E p \in Programs :
        Dial(p) \/ Send(p) \/ Receive(p) \/ Deadline(p) \/ Exit(p)
    \/ \E c \in Conn \ Programs : Others(c)

\* The daemon is as fair as Cryptod says, the programs never stop by
\* themselves, and nothing is assumed of the agent or of the deadlines.
TestSpec ==
    /\ TestInit /\ [][TestNext]_allVars
    /\ Fairness
    /\ \A p \in Programs : WF_allVars(Dial(p) \/ Send(p))

-----------------------------------------------------------------------------
(* Properties                                                              *)

\* What the test needs of everybody else: they ask for the status, set the policy
\* or send garbage, but neither rotate nor encrypt nor decrypt.
OnlyTheTest ==
    \A c \in Conn \ Programs : Sends[c] \subseteq {"get_status", "set_policy", "garbage"}

\* acm-encdec-test only ever reports a wrong answer if something is wrong:
\* once acm-cli rotate-key has exited with 0, for any accepted key and
\* whatever the agent asks meanwhile, the key is usable at once, every frame
\* opens, the tampered one is refused with 401, and the counters have grown
\* by exactly the numbers it computes.
TestNeverFails == outcome[Tester] # "failed"

\* rotate-key ends, and if it has accepted the key so does the test, although
\* its requests queue behind the agent's for the lock of active_key.
TestEnds == <>(\/ outcome[Cli] \in {"failed", "timeout"}
               \/ outcome[Tester] # "running")
=============================================================================
