------------------------- MODULE CryptodRefinement -------------------------
(***************************************************************************)
(* The daemon implements KeyService as long as one connection does all the *)
(* rotations.  The slot is active_key: a rotation takes place when that is *)
(* stored, after the provider and the algorithm.                           *)
(***************************************************************************)
EXTENDS Cryptod

\* How far a task at label l has come with its call.
StageOf(l) ==
    CASE l \in {"closed", "read"} -> "idle"
      [] l \in {"status_algo", "policy", "rotate", "enc_key", "dec_key"} -> "asked"
      [] l = "status_key" -> "looked"
      [] l \in {"status_sealed", "status_opened", "status_errors",
                "enc_provider", "dec_provider"} -> "taken"
      [] l \in {"set_provider", "set_algo", "set_key"} -> "accepted"
      [] l = "write" -> "answered"

\* A report without its counters.
NoteOf(r) == [algo |-> r.algo, key_id |-> r.key_id]

AnswerOf(r) == IF r.kind = "status" THEN Status(NoteOf(r.report)) ELSE r

KS == INSTANCE KeyService WITH
          slot   <- active_key,
          stage  <- [c \in Conn |-> StageOf(pc[c])],
          ask    <- req,
          note   <- [c \in Conn |-> NoteOf(report[c])],
          answer <- [c \in Conn |-> AnswerOf(resp[c])]

\* Although rotate_key stores provider, algorithm and key one after the other,
\* and encrypt and decrypt read key and provider one after the other, clients
\* see a slot that changes in one step and calls that work with one key; only
\* a call that a rotation overtakes may fail, and only with 500 or 422.
ImplementsKeyService == KS!Spec
=============================================================================
