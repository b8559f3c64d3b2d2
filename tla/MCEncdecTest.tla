---------------------------- MODULE MCEncdecTest ----------------------------
(* acm-cli, acm-encdec-test and a third client on one daemon.              *)
EXTENDS EncdecTest, TLC

CONSTANTS other    \* the agent, or another tool

bytes(n, v) == [len |-> n, val |-> v]

MCConn  == {Cli, Tester, other}
MCSends == (Cli :> {"rotate_key"}) @@
           (Tester :> {"get_status", "encrypt", "decrypt"}) @@
           (other :> {"get_status", "set_policy", "garbage"})

Contents == {"m1", "m2", "n1", "n2", "n3", "t0", "t1", "t2"}

\* One usable key for each algorithm, and one that is too short.
Keys == {[key_id |-> 7, algo |-> 2, material |-> bytes(32, "m1")],
         [key_id |-> 8, algo |-> 1, material |-> bytes(16, "m2")],
         [key_id |-> 9, algo |-> 2, material |-> bytes(16, "m2")]}

\* The empty plaintext, a long one, and the one that is tampered with.
MCTexts == <<bytes(0, "t0"), bytes(9000, "t1"), bytes(14, "t2")>>
MCNonce == <<bytes(12, "n1"), bytes(12, "n2"), bytes(12, "n3")>>

\* What the test encrypts, and nothing else.
MCEncryptParams == {encryptParams(i) : i \in DOMAIN MCTexts}

\* The body that the test tampers with.
TamperedBody == [hdrs |-> {}, nonces |-> {}, lens |-> {30}]

\* The run is an instance of the theorem TestCorrect.
ASSUME TestAlone == OnlyTheTest
=============================================================================
