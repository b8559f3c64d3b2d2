----------------------------- MODULE MCAcmLink -----------------------------
(* A small instance of AcmLink: two AES-256 keys and one AES-128 key.      *)
EXTENDS AcmLink

MCHandles ==
    {KeyHandle_new(h[1], h[2], [len |-> h[3], val |-> h[4]]).val :
        h \in {<<1, "Aes256Gcm", 32, "m1">>, <<2, "Aes256Gcm", 32, "m2">>,
               <<3, "Aes128Gcm", 16, "m3">>}}

\* Both sides of the byte boundaries, and the largest id TLC can represent.
WideKeyIds == {0, 255, 256, 65535, 65536, 16777215, 16777216, 2147483647}

MCNonces == {[len |-> 12, val |-> "n1"], [len |-> 12, val |-> "n2"],
             [len |-> 8, val |-> "n3"]}

Hello == [len |-> 5, val |-> "hello"]
Empty == [len |-> 0, val |-> "empty"]

\* One frame with any key id and text, or two frames that can be mixed.
MCBatches == {[key_ids |-> WideKeyIds, texts |-> {Hello, Empty}, max |-> 1],
              [key_ids |-> {1, 256}, texts |-> {Hello}, max |-> 2]}

MCFlags == {128}

\* The algorithm numbers, an unknown one, and zero.
MCBytes == {0, 1, 2, 16, 17}

\* Around the ends of the header (12), the nonce (24) and the tag (40, 45).
MCCuts == {0, 11, 12, 13, 23, 24, 39, 40, 41, 44}
=============================================================================
