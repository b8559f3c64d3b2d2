------------------------------ MODULE Cryptod ------------------------------
(***************************************************************************)
(* The daemon acm-cryptod: the state behind its IPC socket (CryptodState)  *)
(* and the server of acm-ipc, one task per connection.                     *)
(*                                                                         *)
(* The runtime is multi-threaded, so the tasks of two connections          *)
(* interleave at every lock they take.  A step of this module is the code  *)
(* between two acquisitions of a tokio mutex, or one load of an atomic     *)
(* counter.  The mutexes of `provider` and `active_algo` are released      *)
(* before the task that took them can be seen to do anything else and need *)
(* no variable; `active_key` is held by get_status while it loads the      *)
(* counters, so its holder is a variable.                                  *)
(***************************************************************************)
EXTENDS AcmWire, FiniteSets

CONSTANTS
    Conn,           \* the connection tasks
    Sends,          \* Sends[c]: the methods that the client of c calls
    Secret,         \* the contents of keys, nonces and plaintexts
    RotateParams,   \* [key_id, algo, material] of the rotate_key requests
    EncryptParams,  \* [nonce, aad, plaintext] of the encrypt requests
    PeerKeys,       \* the handles that peer cryptods seal under
    MadeUp,         \* parts of frames that nobody sealed: [hdrs, nonces, lens],
                    \* headers, nonces and the lengths of bodies
    NoKey,          \* active_key is None
    NoConn,         \* nobody holds the lock of active_key
    MaxRequests,    \* bound: requests sent in one behaviour
    MaxRestarts     \* bound: restarts of the daemon in one behaviour

Methods == {"get_status", "set_policy", "rotate_key", "encrypt", "decrypt",
            "garbage"}

\* Handles that rotate_key can have accepted.
ServedKey == {k \in KeyHandle(Secret) : /\ k.algo \in ProviderAlgo
                                        /\ k.material.len = key_len(k.algo)}

ASSUME CryptodAssumption ==
    /\ Sends \in [Conn -> SUBSET Methods]
    /\ \A p \in RotateParams : /\ IsU32(p.key_id)
                               /\ p.algo \in Byte
                               /\ p.material \in Blob(Secret)
    /\ \A p \in EncryptParams : /\ p.nonce \in Blob(Secret)
                                /\ p.plaintext \in Blob(Secret)
    /\ \A k \in PeerKeys : k \in ServedKey
    /\ \A h \in MadeUp.hdrs : h \in Seq(Byte) /\ Len(h) <= HEADER_LEN
    /\ \A n \in MadeUp.nonces : n \in Blob(Secret) /\ n.len <= 12
    /\ MadeUp.lens \subseteq Nat
    /\ NoConn \notin Conn
    /\ NoKey \notin KeyHandle(Secret) /\ NoKey \notin Nat
    /\ MaxRequests \in Nat
    /\ MaxRestarts \in Nat

\* The connections over which keys are rotated.
Rotators == {c \in Conn : "rotate_key" \in Sends[c]}

VARIABLES
    provider, active_algo, active_key,              \* CryptodState
    packets_sealed, packets_opened, crypto_errors,
    key_lock,       \* who holds the mutex of active_key across steps
    pc,             \* pc[c]: where the task of c is
    peer,           \* peer[c]: the client's end of c is open
    req,            \* req[c]: the request being served
    key,            \* key[c]: the handler's local clone, or rotate's new_key
    report,         \* report[c]: the StatusReport under construction
    resp,           \* resp[c]: the response to be written
    sent, restarts, \* the bounded counters
    \* History of what clients can observe; no action's guard reads `before`,
    \* `seen` or `installed`.
    installed,      \* every handle that was ever stored in active_key
    emitted,        \* the ciphertext answers: [frame, params]
    before,         \* before[c]: the key slot when c's request was read
    seen            \* seen[c]: the answers c got from this daemon so far

slot     == <<provider, active_algo, active_key>>
counters == <<packets_sealed, packets_opened, crypto_errors>>
locals   == <<req, key, report>>
history  == <<installed, emitted, before, seen>>
bounds   == <<sent, restarts>>
vars     == <<slot, counters, key_lock, pc, peer, locals, resp, bounds, history>>

-----------------------------------------------------------------------------
(* Responses                                                               *)

NoReq             == [method |-> "none"]
NoResp            == [kind |-> "none"]
OkResponse        == [kind |-> "ok"]
Ciphertext(frame) == [kind |-> "ciphertext", frame |-> frame]
Plaintext(text)   == [kind |-> "plaintext", text |-> text]
Status(r)         == [kind |-> "status", report |-> r]
Error(code)       == [kind |-> "error", code |-> code]

EmptyReport == [algo |-> "Aes256Gcm", key_id |-> NoKey, sealed |-> 0,
                opened |-> 0, errors |-> 0]
NothingSeen == [sealed |-> 0, opened |-> 0, errors |-> 0]

\* What a client counts in the answers it gets.
Count(s, r) ==
    CASE r.kind = "ciphertext" -> [s EXCEPT !.sealed = @ + 1]
      [] r.kind = "plaintext"  -> [s EXCEPT !.opened = @ + 1]
      [] r.kind = "error" /\ r.code \in {401, 500}
                               -> [s EXCEPT !.errors = @ + 1]
      [] OTHER                 -> s

-----------------------------------------------------------------------------
(* CryptodState::new; also what a restarted daemon starts from, because    *)
(* nothing is persisted.                                                   *)

DefaultProvider == Provider_new("ring", "Aes256Gcm").val
DefaultSlot     == <<DefaultProvider, "Aes256Gcm", NoKey>>

Init ==
    /\ provider = DefaultProvider
    /\ active_algo = "Aes256Gcm"
    /\ active_key = NoKey
    /\ packets_sealed = 0 /\ packets_opened = 0 /\ crypto_errors = 0
    /\ key_lock = NoConn
    /\ pc = [c \in Conn |-> "closed"]
    /\ peer = [c \in Conn |-> FALSE]
    /\ req = [c \in Conn |-> NoReq]
    /\ key = [c \in Conn |-> NoKey]
    /\ report = [c \in Conn |-> EmptyReport]
    /\ resp = [c \in Conn |-> NoResp]
    /\ sent = 0 /\ restarts = 0
    /\ installed = {} /\ emitted = {}
    /\ before = [c \in Conn |-> DefaultSlot]
    /\ seen = [c \in Conn |-> NothingSeen]

\* The process ends (accept fails, or it is killed) and systemd starts it
\* again: every connection and everything in memory is lost.
Restart ==
    /\ restarts < MaxRestarts
    /\ restarts' = restarts + 1
    /\ provider' = DefaultProvider
    /\ active_algo' = "Aes256Gcm"
    /\ active_key' = NoKey
    /\ packets_sealed' = 0 /\ packets_opened' = 0 /\ crypto_errors' = 0
    /\ key_lock' = NoConn
    /\ pc' = [c \in Conn |-> "closed"]
    /\ peer' = [c \in Conn |-> FALSE]
    /\ req' = [c \in Conn |-> NoReq]
    /\ key' = [c \in Conn |-> NoKey]
    /\ report' = [c \in Conn |-> EmptyReport]
    /\ resp' = [c \in Conn |-> NoResp]
    /\ before' = [c \in Conn |-> DefaultSlot]
    /\ seen' = [c \in Conn |-> NothingSeen]
    /\ UNCHANGED <<sent, installed, emitted>>

-----------------------------------------------------------------------------
(* acm_ipc::server: serve and serve_connection                             *)

Goto(c, l) == pc' = [pc EXCEPT ![c] = l]

\* A handler returns r; serve_connection goes on to write_response.
Respond(c, r) == /\ resp' = [resp EXCEPT ![c] = r]
                 /\ Goto(c, "write")

Accept(c) ==
    /\ pc[c] = "closed"
    /\ peer' = [peer EXCEPT ![c] = TRUE]
    /\ seen' = [seen EXCEPT ![c] = NothingSeen]
    /\ Goto(c, "read")
    /\ UNCHANGED <<slot, counters, key_lock, locals, resp, bounds, installed,
                   emitted, before>>

\* The client of c goes away (or gives up on a request that is being served).
ClientClose(c) ==
    /\ peer[c]
    /\ peer' = [peer EXCEPT ![c] = FALSE]
    /\ UNCHANGED <<slot, counters, key_lock, pc, locals, resp, bounds, history>>

\* read_line returns 0, or fails: the task ends.
ReadEof(c) ==
    /\ pc[c] = "read"
    /\ ~peer[c]
    /\ Goto(c, "closed")
    /\ UNCHANGED <<slot, counters, key_lock, peer, locals, resp, bounds, history>>

\* The label at which the handler of a request starts.
entry(method) ==
    CASE method = "get_status" -> "status_algo"
      [] method = "set_policy" -> "policy"
      [] method = "rotate_key" -> "rotate"
      [] method = "encrypt"    -> "enc_key"
      [] method = "decrypt"    -> "dec_key"

ReadRequest(c, r) ==
    /\ pc[c] = "read"
    /\ peer[c]
    /\ sent < MaxRequests
    /\ sent' = sent + 1
    /\ req' = [req EXCEPT ![c] = r]
    /\ before' = [before EXCEPT ![c] = slot]
    /\ Goto(c, entry(r.method))
    /\ UNCHANGED <<slot, counters, key_lock, peer, key, report, resp, restarts,
                   installed, emitted, seen>>

\* A line that is not a request is answered at once; the connection goes on.
ReadGarbage(c) ==
    /\ pc[c] = "read"
    /\ peer[c]
    /\ "garbage" \in Sends[c]
    /\ sent < MaxRequests
    /\ sent' = sent + 1
    /\ req' = [req EXCEPT ![c] = NoReq]
    /\ Respond(c, Error(400))
    /\ UNCHANGED <<slot, counters, key_lock, peer, key, report, restarts, history>>

\* write_response fails once the client is gone, and that ends the task.  The
\* locals of the iteration go out of scope.
WriteResponse(c) ==
    /\ pc[c] = "write"
    /\ IF peer[c]
       THEN /\ Goto(c, "read")
            /\ seen' = [seen EXCEPT ![c] = Count(@, resp[c])]
            /\ emitted' = IF resp[c].kind = "ciphertext"
                          THEN emitted \cup {[frame  |-> resp[c].frame,
                                              params |-> req[c].params]}
                          ELSE emitted
       ELSE /\ Goto(c, "closed")
            /\ UNCHANGED <<seen, emitted>>
    /\ resp' = [resp EXCEPT ![c] = NoResp]
    /\ req' = [req EXCEPT ![c] = NoReq]
    /\ key' = [key EXCEPT ![c] = NoKey]
    /\ report' = [report EXCEPT ![c] = EmptyReport]
    /\ before' = [before EXCEPT ![c] = DefaultSlot]
    /\ UNCHANGED <<slot, counters, key_lock, peer, bounds, installed>>

-----------------------------------------------------------------------------
(* Request::GetStatus                                                      *)

StatusAlgo(c) ==
    /\ pc[c] = "status_algo"
    /\ report' = [report EXCEPT ![c].algo = active_algo]
    /\ Goto(c, "status_key")
    /\ UNCHANGED <<slot, counters, key_lock, peer, req, key, resp, bounds, history>>

StatusKey(c) ==
    /\ pc[c] = "status_key"
    /\ key_lock = NoConn
    /\ key_lock' = c
    /\ report' = [report EXCEPT ![c].key_id =
                      IF active_key = NoKey THEN NoKey ELSE active_key.id]
    /\ Goto(c, "status_sealed")
    /\ UNCHANGED <<slot, counters, peer, req, key, resp, bounds, history>>

StatusSealed(c) ==
    /\ pc[c] = "status_sealed"
    /\ report' = [report EXCEPT ![c].sealed = packets_sealed]
    /\ Goto(c, "status_opened")
    /\ UNCHANGED <<slot, counters, key_lock, peer, req, key, resp, bounds, history>>

StatusOpened(c) ==
    /\ pc[c] = "status_opened"
    /\ report' = [report EXCEPT ![c].opened = packets_opened]
    /\ Goto(c, "status_errors")
    /\ UNCHANGED <<slot, counters, key_lock, peer, req, key, resp, bounds, history>>

\* Mutated form: the last counter never gets into the report.
StatusErrorsLost(c) ==
    /\ pc[c] = "status_errors"
    /\ key_lock' = NoConn
    /\ Respond(c, Status(report[c]))
    /\ UNCHANGED <<slot, counters, peer, locals, bounds, history>>

\* Mutated form: the lock of active_key is not released.
StatusErrorsLeak(c) ==
    /\ pc[c] = "status_errors"
    /\ Respond(c, Status([report[c] EXCEPT !.errors = crypto_errors]))
    /\ UNCHANGED <<slot, counters, key_lock, peer, locals, bounds, history>>

StatusErrors(c) ==
    /\ pc[c] = "status_errors"
    /\ report' = [report EXCEPT ![c].errors = crypto_errors]
    /\ key_lock' = NoConn
    /\ Respond(c, Status([report[c] EXCEPT !.errors = crypto_errors]))
    /\ UNCHANGED <<slot, counters, peer, req, key, bounds, history>>

-----------------------------------------------------------------------------
(* Request::RotateKey and Request::SetPolicy                               *)

self_test(p, k) ==
    LET nonce  == [len |-> nonce_len(p.algo), val |-> "zeros"]
        pt     == [len |-> 16, val |-> "acm-uz-self-test"]
        sealed == provider_seal(p, k, nonce, <<>>, pt, pt.len + tag_len(p.algo))
        back   == provider_open(p, k, nonce, <<>>, sealed.val, pt.len)
    IN  sealed.ok /\ back = Ok(pt)

\* The --bench mode of the binary: it seals and opens zeros under an all-zero
\* key, for one provider and block size, and stops at the first error.
zeros(n) == [len |-> n, val |-> "zeros"]

bench_one(p, size) ==
    LET key_handle == KeyHandle_new(0, p.algo, zeros(key_len(p.algo)))
        nonce      == zeros(nonce_len(p.algo))
        sealed     == provider_seal(p, key_handle.val, nonce, <<>>, zeros(size),
                                    size + tag_len(p.algo))
    IN  /\ key_handle.ok
        /\ sealed.ok
        /\ provider_open(p, key_handle.val, nonce, <<>>, sealed.val, size).ok

run_bench(sizes) ==
    \A algo \in ProviderAlgo, kind \in ProviderKind, size \in sizes :
        /\ Provider_new(kind, algo).ok
        /\ bench_one(Provider_new(kind, algo).val, size)

\* Mutated form: no provider is tried, so neither is the self-test.
rotate_untested(p) ==
    IF from_u8(p.algo) = NoAlgo THEN Err(422)
    ELSE LET new_key == KeyHandle_new(p.key_id, from_u8(p.algo), p.material)
         IN  IF new_key.ok THEN new_key ELSE Err(422)

\* Everything rotate_key decides before it touches the state: the new handle,
\* or the code of the error.
rotate_outcome(p) ==
    LET new_algo     == from_u8(p.algo)
        new_provider == Provider_new("ring", new_algo)
        new_key      == KeyHandle_new(p.key_id, new_algo, p.material)
    IN  IF new_algo = NoAlgo THEN Err(422)
        ELSE IF new_algo = "OzDst1105" THEN Err(501)
        ELSE IF ~new_provider.ok THEN Err(500)
        ELSE IF ~new_key.ok THEN Err(422)
        ELSE IF ~self_test(new_provider.val, new_key.val) THEN Err(500)
        ELSE new_key

\* Mutated form: the new provider is mounted before the key is validated.
RotateMountFirst(c) ==
    LET new_key  == rotate_outcome(req[c].params)
        mounted  == Provider_new("ring", from_u8(req[c].params.algo))
    IN  /\ pc[c] = "rotate"
        /\ provider' = IF mounted.ok THEN mounted.val ELSE provider
        /\ \/ /\ ~new_key.ok
              /\ Respond(c, Error(new_key.err))
              /\ UNCHANGED key
           \/ /\ new_key.ok
              /\ key' = [key EXCEPT ![c] = new_key.val]
              /\ Goto(c, "set_provider")
              /\ UNCHANGED resp
        /\ UNCHANGED <<active_algo, active_key, counters, key_lock, peer, req,
                       report, bounds, history>>

RotateValidate(c) ==
    LET new_key == rotate_outcome(req[c].params)
    IN  /\ pc[c] = "rotate"
        /\ \/ /\ ~new_key.ok
              /\ Respond(c, Error(new_key.err))
              /\ UNCHANGED key
           \/ /\ new_key.ok
              /\ key' = [key EXCEPT ![c] = new_key.val]
              /\ Goto(c, "set_provider")
              /\ UNCHANGED resp
        /\ UNCHANGED <<slot, counters, key_lock, peer, req, report, bounds, history>>

RotateSetProvider(c) ==
    /\ pc[c] = "set_provider"
    /\ provider' = Provider_new("ring", key[c].algo).val
    /\ Goto(c, "set_algo")
    /\ UNCHANGED <<active_algo, active_key, counters, key_lock, peer, locals,
                   resp, bounds, history>>

\* Mutated form: active_algo keeps its old value.
RotateKeepAlgo(c) ==
    /\ pc[c] = "set_algo"
    /\ Goto(c, "set_key")
    /\ UNCHANGED <<slot, counters, key_lock, peer, locals, resp, bounds, history>>

RotateSetAlgo(c) ==
    /\ pc[c] = "set_algo"
    /\ active_algo' = key[c].algo
    /\ Goto(c, "set_key")
    /\ UNCHANGED <<provider, active_key, counters, key_lock, peer, locals,
                   resp, bounds, history>>

RotateSetKey(c) ==
    /\ pc[c] = "set_key"
    /\ key_lock = NoConn
    /\ active_key' = key[c]
    /\ installed' = installed \cup {key[c]}
    /\ Respond(c, OkResponse)
    /\ UNCHANGED <<provider, active_algo, counters, key_lock, peer, locals,
                   bounds, emitted, before, seen>>

SetPolicy(c) ==
    /\ pc[c] = "policy"
    /\ Respond(c, OkResponse)
    /\ UNCHANGED <<slot, counters, key_lock, peer, locals, bounds, history>>

-----------------------------------------------------------------------------
(* handle_encrypt and handle_decrypt: first clone the key under its lock,  *)
(* then work under the lock of the provider.                               *)

CloneKey(c, from, to) ==
    /\ pc[c] = from
    /\ key_lock = NoConn
    /\ \/ /\ active_key = NoKey
          /\ Respond(c, Error(409))
          /\ UNCHANGED key
       \/ /\ active_key # NoKey
          /\ key' = [key EXCEPT ![c] = active_key]
          /\ Goto(c, to)
          /\ UNCHANGED resp
    /\ UNCHANGED <<slot, counters, key_lock, peer, req, report, bounds, history>>

EncryptKey(c) == CloneKey(c, "enc_key", "enc_provider")
DecryptKey(c) == CloneKey(c, "dec_key", "dec_provider")

\* Mutated form: the header gets the id of the key that is active now.
SealUnderActiveId(k, p) ==
    wire_seal(provider, k, active_key.id, p.nonce, 0, p.plaintext,
              frame_len(p.plaintext.len, p.nonce.len, tag_len(provider.algo)))

\* The call of acm_wire::seal, into a buffer of exactly frame_len bytes; the
\* aad of the request is not used.
SealRequest(k, p) ==
    wire_seal(provider, k, k.id, p.nonce, 0, p.plaintext,
              frame_len(p.plaintext.len, p.nonce.len, tag_len(provider.algo)))

EncryptSeal(c) ==
    LET p     == req[c].params
        algo  == provider.algo
        frame == SealRequest(key[c], p)
    IN  /\ pc[c] = "enc_provider"
        /\ \/ /\ p.nonce.len # nonce_len(algo)
              /\ Respond(c, Error(422))
              /\ UNCHANGED counters
           \/ /\ p.nonce.len = nonce_len(algo)
              /\ frame.ok
              /\ packets_sealed' = packets_sealed + 1
              /\ Respond(c, Ciphertext(frame.val))
              /\ UNCHANGED <<packets_opened, crypto_errors>>
           \/ /\ p.nonce.len = nonce_len(algo)
              /\ ~frame.ok
              /\ crypto_errors' = crypto_errors + 1
              /\ Respond(c, Error(500))
              /\ UNCHANGED <<packets_sealed, packets_opened>>
        /\ UNCHANGED <<slot, key_lock, peer, locals, bounds, history>>

\* Mutated form: a forged frame is reported as a malformed one.
open_error_unified(err) == 422

open_error(err) == IF err = "AuthFailed" THEN 401 ELSE 422

DecryptOpen(c) ==
    LET frame == req[c].params
        text  == wire_open(provider, key[c], frame, length(frame))
    IN  /\ pc[c] = "dec_provider"
        /\ \/ /\ text.ok
              /\ packets_opened' = packets_opened + 1
              /\ Respond(c, Plaintext(text.val))
              /\ UNCHANGED <<packets_sealed, crypto_errors>>
           \/ /\ ~text.ok
              /\ crypto_errors' = crypto_errors + 1
              /\ Respond(c, Error(open_error(text.err)))
              /\ UNCHANGED <<packets_sealed, packets_opened>>
        /\ UNCHANGED <<slot, key_lock, peer, locals, bounds, history>>

-----------------------------------------------------------------------------
(* The clients (external): what they ask for.  Nothing protects a frame on *)
(* its way to decrypt, so decrypt may be given any bytes.                  *)

\* A peer cryptod calls acm_wire::seal as this one does (SealRequest), with a
\* key and a provider of its own.
PeerSeal(k, p) ==
    wire_seal(Provider_new("ring", k.algo).val, k, k.id, p.nonce, 0, p.plaintext,
              frame_len(p.plaintext.len, p.nonce.len, tag_len(k.algo)))

\* What the peers hand out.
PeerFrames ==
    {[frame |-> PeerSeal(x[1], x[2]).val, params |-> x[2]] :
        x \in {y \in PeerKeys \X EncryptParams : PeerSeal(y[1], y[2]).ok}}

\* Every frame that this daemon or a peer has handed out.
Frames == emitted \cup PeerFrames

\* A body that no call of seal produced.
junk(n) == [len |-> n, intact |-> FALSE]

\* The bytes that decrypt may be given: a header, a nonce and a body, each of
\* them taken from some frame or made up.  So a frame comes back as it was, with
\* any part changed, recombined from several frames, cut short or extended; in
\* one cut within its header or nonce nothing follows.
ClientFrames ==
    {f \in [hdr   : {e.frame.hdr : e \in Frames} \cup MadeUp.hdrs,
            nonce : {e.frame.nonce : e \in Frames} \cup MadeUp.nonces,
            body  : {e.frame.body : e \in Frames} \cup {junk(n) : n \in MadeUp.lens}] :
        /\ Len(f.hdr) < HEADER_LEN => f.nonce.len = 0
        /\ f.nonce.len < 12 => f.body.len = 0}

Requests(c) ==
    [method : {"get_status", "set_policy"} \cap Sends[c], params : {{}}]
    \cup [method : {"rotate_key"} \cap Sends[c], params : RotateParams]
    \cup [method : {"encrypt"} \cap Sends[c], params : EncryptParams]
    \cup [method : {"decrypt"} \cap Sends[c], params : ClientFrames]

Next ==
    \/ Restart
    \/ \E c \in Conn :
        \/ Accept(c) \/ ClientClose(c) \/ ReadEof(c)
        \/ \E r \in Requests(c) : ReadRequest(c, r)
        \/ ReadGarbage(c) \/ WriteResponse(c)
        \/ StatusAlgo(c) \/ StatusKey(c) \/ StatusSealed(c)
        \/ StatusOpened(c) \/ StatusErrors(c)
        \/ RotateValidate(c) \/ RotateSetProvider(c) \/ RotateSetAlgo(c)
        \/ RotateSetKey(c) \/ SetPolicy(c)
        \/ EncryptKey(c) \/ EncryptSeal(c) \/ DecryptKey(c) \/ DecryptOpen(c)

Spec == Init /\ [][Next]_vars

\* The steps of a task that need no lock which another one holds across steps,
\* and the steps that take the lock of active_key.
RunTask(c) ==
    \/ WriteResponse(c) \/ StatusAlgo(c) \/ StatusSealed(c) \/ StatusOpened(c)
    \/ StatusErrors(c) \/ RotateValidate(c) \/ RotateSetProvider(c)
    \/ RotateSetAlgo(c) \/ SetPolicy(c) \/ EncryptSeal(c) \/ DecryptOpen(c)

LockKey(c) == StatusKey(c) \/ RotateSetKey(c) \/ EncryptKey(c) \/ DecryptKey(c)

\* The runtime keeps polling a task that can run, and tokio's mutex serves
\* its waiters in the order they came, so a task that waits for a lock which
\* is free again and again gets it.  Nothing is assumed of the clients.
Fairness == \A c \in Conn : WF_vars(RunTask(c)) /\ SF_vars(LockKey(c))

FairSpec == Spec /\ Fairness

-----------------------------------------------------------------------------
(* Properties                                                              *)

Handling == {"status_algo", "status_key", "status_sealed", "status_opened",
             "status_errors", "rotate", "set_provider", "set_algo", "set_key",
             "policy", "enc_key", "enc_provider", "dec_key", "dec_provider",
             "write"}

\* CryptodState only ever holds an AES provider of ring, one of its two
\* algorithms, and no key or a key of the right length for its algorithm.
TypeOK ==
    /\ provider \in [kind : {"ring"}, algo : ProviderAlgo]
    /\ active_algo \in ProviderAlgo
    /\ active_key \in ServedKey \cup {NoKey}
    /\ packets_sealed \in Nat /\ packets_opened \in Nat /\ crypto_errors \in Nat
    /\ key_lock \in Conn \cup {NoConn}
    /\ pc \in [Conn -> Handling \cup {"closed", "read"}]
    /\ peer \in [Conn -> BOOLEAN]
    /\ key \in [Conn -> ServedKey \cup {NoKey}]
    /\ installed \subseteq ServedKey
    /\ sent \in 0 .. MaxRequests /\ restarts \in 0 .. MaxRestarts

\* frame is the sealing of params under the handle k, and its header shows
\* k's id and algorithm.
SealedUnder(frame, params, k) ==
    /\ decode(frame.hdr) = Ok([version |-> VERSION, flags |-> 0,
                               key_id |-> k.id, algo |-> k.algo,
                               nonce_len |-> nonce_len(k.algo)])
    /\ frame.nonce = params.nonce
    /\ frame.body = aead_seal(k.material, params.nonce, frame.hdr,
                              params.plaintext, tag_len(k.algo))

\* However encrypt and rotate_key interleave (the key is cloned before the
\* provider is locked), every frame a client gets was sealed under one handle
\* that really was active at some time, the header names the id and the
\* algorithm of that same handle, and nonce and plaintext are the caller's.
FramesNameTheirKey ==
    \A e \in emitted : \E k \in installed : SealedUnder(e.frame, e.params, k)

\* Whatever bytes decrypt is given, it answers with a plaintext only if they are,
\* byte for byte, a frame that this daemon (before or after a rotation or a
\* restart) or a peer cryptod handed out, sealed under the very key material that
\* the handler works with, and then with the plaintext that was sealed.  The id
\* in the header need not be that of the handler's key: decrypt never looks at it.
PlaintextsAreAuthentic ==
    \A c \in Conn :
        pc[c] = "write" /\ resp[c].kind = "plaintext" =>
            \E e \in Frames : /\ e.frame = req[c].params
                              /\ e.frame.body.material = key[c].material
                              /\ e.params.plaintext = resp[c].text

\* A status report is never behind the answers that its own reader already
\* has from this daemon: each ciphertext, plaintext and crypto failure the
\* client saw on the connection is in the counters.
StatusCoversAnswers ==
    \A c \in Conn :
        pc[c] = "write" /\ resp[c].kind = "status" =>
            /\ seen[c].sealed <= resp[c].report.sealed
            /\ seen[c].opened <= resp[c].report.opened
            /\ seen[c].errors <= resp[c].report.errors

Swapping(c) == pc[c] \in {"set_algo", "set_key"}

\* Whenever no rotate_key is between its three assignments, the mounted
\* provider, the reported algorithm and the active key belong together, so
\* the active key can be used at all.
QuiescentAgreement ==
    (\A c \in Conn : ~Swapping(c)) =>
        /\ provider.algo = active_algo
        /\ active_key # NoKey => active_key.algo = active_algo

\* rotate_key is all or nothing at the moment it answers: Ok means that the
\* provider, the algorithm and the key are the requested ones, an error that
\* all three are what they were when the request was read.
RotationAllOrNothing ==
    \A c \in Conn :
        pc[c] = "write" /\ req[c].method = "rotate_key" =>
            LET p == req[c].params
            IN  IF resp[c].kind = "ok"
                THEN /\ active_key = [id |-> p.key_id, algo |-> from_u8(p.algo),
                                      material |-> p.material]
                     /\ active_algo = active_key.algo
                     /\ provider.algo = active_key.algo
                ELSE slot = before[c]

\* Every request that is read is answered, or its connection ends: no task
\* waits for ever for the lock of active_key.
RequestAnswered ==
    \A c \in Conn : pc[c] \in Handling ~> pc[c] \in {"read", "closed"}

\* "Need both an active key and the corresponding provider": a well-formed
\* encrypt never fails in the provider.
EncryptHasItsProvider ==
    \A c \in Conn :
        pc[c] = "write" /\ req[c].method = "encrypt" => resp[c] # Error(500)

\* "Additional authenticated data - included in tag": two encrypt requests
\* that differ in their aad never get the same sealed body.
AadIncludedInTag ==
    \A e, f \in emitted :
        e.params.aad # f.params.aad => e.frame.body # f.frame.body
=============================================================================
