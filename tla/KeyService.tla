----------------------------- MODULE KeyService -----------------------------
(***************************************************************************)
(* What acm-cryptod promises its clients: one slot that holds the active   *)
(* key.  A rotation fills the slot in a single step.  Every other call     *)
(* takes the key out of the slot once and works with that key alone; that  *)
(* a provider is mounted apart from the key may show in one way only: an   *)
(* encrypt or decrypt that a rotation overtakes may fail.                  *)
(*                                                                         *)
(* Counters, locks, providers and connections do not exist here.           *)
(***************************************************************************)
EXTENDS AcmWire

CONSTANTS
    Conn,   \* the clients
    NoKey   \* the slot is empty

VARIABLES
    slot,    \* the active key
    stage,   \* stage[c]: how far the call of c is: "idle", "asked", "looked",
             \* "taken", "accepted" (a rotation that will succeed), "answered"
    ask,     \* ask[c]: the request
    key,     \* key[c]: the key the call works with
    note,    \* note[c]: what a status report will say: [algo, key_id]
    answer   \* answer[c]: the response

vars == <<slot, stage, ask, key, note, answer>>

NoAsk     == [method |-> "none"]
NoAnswer  == [kind |-> "none"]
EmptyNote == [algo |-> "Aes256Gcm", key_id |-> NoKey]
Refusal(code) == [kind |-> "error", code |-> code]

Idle ==
    /\ slot = NoKey
    /\ stage = [c \in Conn |-> "idle"]
    /\ ask = [c \in Conn |-> NoAsk]
    /\ key = [c \in Conn |-> NoKey]
    /\ note = [c \in Conn |-> EmptyNote]
    /\ answer = [c \in Conn |-> NoAnswer]

Init == Idle

\* The service starts anew: the key and all calls are lost.
Reset == Idle'

Goto(c, from, to) == stage[c] = from /\ stage' = [stage EXCEPT ![c] = to]

Answer(c, from, a) == /\ Goto(c, from, "answered")
                      /\ answer' = [answer EXCEPT ![c] = a]

-----------------------------------------------------------------------------

\* A client may ask for anything, and gets one answer.
Ask(c) ==
    /\ Goto(c, "idle", "asked")
    /\ ask' = [ask EXCEPT ![c] = ask'[c]]
    /\ UNCHANGED <<slot, key, note, answer>>

\* A line that is no request.
Reject(c) ==
    /\ Answer(c, "idle", Refusal(400))
    /\ UNCHANGED <<slot, ask, key, note>>

\* The client has its answer, or has gone.
Finish(c) ==
    /\ Goto(c, "answered", "idle")
    /\ ask' = [ask EXCEPT ![c] = NoAsk]
    /\ key' = [key EXCEPT ![c] = NoKey]
    /\ note' = [note EXCEPT ![c] = EmptyNote]
    /\ answer' = [answer EXCEPT ![c] = NoAnswer]
    /\ UNCHANGED slot

SetPolicy(c) ==
    /\ ask[c].method = "set_policy"
    /\ Answer(c, "asked", [kind |-> "ok"])
    /\ UNCHANGED <<slot, ask, key, note>>

-----------------------------------------------------------------------------
(* Rotation                                                                *)

Acceptable(p) == LET algo == from_u8(p.algo)
                 IN  algo \in ProviderAlgo /\ p.material.len = key_len(algo)

Accept(c) ==
    LET p == ask[c].params
    IN  /\ ask[c].method = "rotate_key"
        /\ Acceptable(p)
        /\ Goto(c, "asked", "accepted")
        /\ key' = [key EXCEPT ![c] = [id |-> p.key_id, algo |-> from_u8(p.algo),
                                      material |-> p.material]]
        /\ UNCHANGED <<slot, ask, note, answer>>

\* The only reasons to refuse: an algorithm nobody knows or implements, or
\* material of the wrong length.
Refuse(c) ==
    LET p == ask[c].params
    IN  /\ ask[c].method = "rotate_key"
        /\ ~Acceptable(p)
        /\ Answer(c, "asked",
                  Refusal(IF from_u8(p.algo) = "OzDst1105" THEN 501 ELSE 422))
        /\ UNCHANGED <<slot, ask, key, note>>

Install(c) ==
    /\ slot' = key[c]
    /\ Answer(c, "accepted", [kind |-> "ok"])
    /\ UNCHANGED <<ask, key, note>>

-----------------------------------------------------------------------------
(* Status: two looks at the service, at different times                    *)

Rotating == {c \in Conn : stage[c] = "accepted"}

\* The algorithm is that of the slot, or of a rotation under way.
Look(c) ==
    /\ ask[c].method = "get_status"
    /\ Goto(c, "asked", "looked")
    /\ \E algo \in {IF slot = NoKey THEN "Aes256Gcm" ELSE slot.algo}
                   \cup {key[d].algo : d \in Rotating} :
          note' = [note EXCEPT ![c].algo = algo]
    /\ UNCHANGED <<slot, ask, key, answer>>

NoteKey(c) ==
    /\ Goto(c, "looked", "taken")
    /\ note' = [note EXCEPT ![c].key_id = IF slot = NoKey THEN NoKey ELSE slot.id]
    /\ UNCHANGED <<slot, ask, key, answer>>

Report(c) ==
    /\ ask[c].method = "get_status"
    /\ Answer(c, "taken", [kind |-> "status", report |-> note[c]])
    /\ UNCHANGED <<slot, ask, key, note>>

-----------------------------------------------------------------------------
(* Encrypt and decrypt                                                     *)

Take(c) ==
    /\ ask[c].method \in {"encrypt", "decrypt"}
    /\ \/ /\ slot = NoKey
          /\ Answer(c, "asked", Refusal(409))
          /\ UNCHANGED key
       \/ /\ slot # NoKey
          /\ Goto(c, "asked", "taken")
          /\ key' = [key EXCEPT ![c] = slot]
          /\ UNCHANGED answer
    /\ UNCHANGED <<slot, ask, note>>

\* A rotation has overtaken the call, or is about to.
Disturbed(c) == slot # key[c] \/ Rotating # {}

Sealed(k, p) ==
    LET hdr == encode([version |-> VERSION, flags |-> 0, key_id |-> k.id,
                       algo |-> k.algo, nonce_len |-> nonce_len(k.algo)])
    IN  [hdr |-> hdr, nonce |-> p.nonce,
         body |-> aead_seal(k.material, p.nonce, hdr, p.plaintext, tag_len(k.algo))]

Encrypt(c) ==
    LET p == ask[c].params
    IN  /\ stage[c] = "taken" /\ ask[c].method = "encrypt"
        /\ \/ /\ p.nonce.len # nonce_len(key[c].algo)
              /\ Answer(c, "taken", Refusal(422))
           \/ /\ p.nonce.len = nonce_len(key[c].algo)
              /\ Answer(c, "taken", [kind |-> "ciphertext", frame |-> Sealed(key[c], p)])
           \/ /\ p.nonce.len = nonce_len(key[c].algo)
              /\ Disturbed(c)
              /\ Answer(c, "taken", Refusal(500))
        /\ UNCHANGED <<slot, ask, key, note>>

\* frame looks like one that k has sealed.
WellFormed(k, frame) ==
    LET header == decode(frame.hdr)
    IN  /\ header.ok
        /\ header.val.algo = k.algo
        /\ header.val.nonce_len = nonce_len(k.algo)
        /\ length(frame) >= frame_len(0, nonce_len(k.algo), tag_len(k.algo))

Decrypt(c) ==
    LET frame == ask[c].params
        good  == WellFormed(key[c], frame)
        opens == aead_opens(key[c].material, frame.nonce, frame.hdr, frame.body)
    IN  /\ stage[c] = "taken" /\ ask[c].method = "decrypt"
        /\ \/ /\ good /\ opens
              /\ Answer(c, "taken", [kind |-> "plaintext", text |-> frame.body.pt])
           \/ /\ good /\ ~opens
              /\ Answer(c, "taken", Refusal(401))
           \/ /\ ~good \/ Disturbed(c)
              /\ Answer(c, "taken", Refusal(422))
        /\ UNCHANGED <<slot, ask, key, note>>

Next ==
    \/ Reset
    \/ \E c \in Conn :
        \/ Ask(c) \/ Reject(c) \/ Finish(c) \/ SetPolicy(c)
        \/ Accept(c) \/ Refuse(c) \/ Install(c)
        \/ Look(c) \/ NoteKey(c) \/ Report(c)
        \/ Take(c) \/ Encrypt(c) \/ Decrypt(c)

Spec == Init /\ [][Next]_vars
=============================================================================
