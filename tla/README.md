# A TLA+ verification of the ACM-UZ control and crypto plane

`smartsfp` (ACM-UZ) is a traffic encryptor in an SFP module. What runs today is
a crypto daemon (`acm-cryptod`, Rust) behind a Unix socket, an on-module agent
(`acm-agent`, Go) that talks to it and serves HTTP, metrics and a web UI, and
two small command-line tools. This directory models the parts of it that keep
state, checks them with TLC on small instances, and proves the most important
results with TLAPS for all sizes.

## Inventory

| Part | State | Operations | Talks to |
|---|---|---|---|
| `acm-crypto` | none (a provider holds its algorithm, a `KeyHandle` its material) | `KeyHandle::new`, `wipe`, `seal`, `open` of two AES-GCM providers | called by acm-wire and the daemon's self-test |
| `acm-wire` | none | header `encode`/`decode`, `seal`, `open`, `frame_len` | calls a provider |
| `acm-cryptod` | `provider`, `active_algo`, `active_key` (three mutexes), three atomic counters | `get_status`, `rotate_key`, `set_policy`, `encrypt`, `decrypt` | handlers run in the tasks of acm-ipc's server |
| `acm-ipc` (server) | one task per connection | accept, read a line, dispatch, write a line | clients on the Unix socket |
| `internal/ipc` (Go client) | one cached connection behind a mutex | `roundtrip`, `GetStatus`, `Encrypt`, `Decrypt`, `RotateKey`, `Close` | the daemon; shared by all HTTP handlers and the metrics collector |
| `internal/httpapi` | none | `/api/v1/status`, `/api/v1/system`, `/api/v1/keys/rotate`, `/healthz`, `/readyz` | Go client, sysmon |
| `internal/metrics` | none | `Collect` of the two collectors | Go client, sysmon |
| `internal/sysmon` | the previous sample of CPU, network and process counters | `Snapshot` | `/proc`, `/sys`; shared by `/api/v1/system` and `/metrics` |
| `cmd/acm-agent` | the HTTP server's life cycle | serve, shut down on a signal | everything above |
| `web-ui` | status poller, toasts, key history in `localStorage` | poll, rotate | the HTTP API |
| `cmd/acm-cli`, `cmd/acm-encdec-test` | none | one request each | Go client |
| `acm-dpdk`, `acm-controller`, `proto/` | - | placeholders | - |

What is hard about it:

* Handlers of different connections interleave. `rotate_key` replaces three
  values under three locks; `encrypt` and `decrypt` read two of them under two
  locks; `get_status` reads two of them and three counters.
* A client that times out does not stop the handler it called.
* The daemon keeps keys in memory only; a restart forgets them, the frames in
  the clients' hands live on.
* The agent shares one daemon connection among all HTTP requests: a late answer
  must never be taken for the answer to a later request.
* The agent's `/proc` reader computes rates from the previous sample, and two
  independent consumers pull samples from it.
* The Keys page awaits a rotation while its form stays editable and the user may
  leave and come back; the poller must neither overtake itself nor stop.

What makes each part correct is stated as the properties below; `PROJECT.json`
lists the hazards, each with the property that covers it or the reason why none does.

## Modules

| Module | Models |
|---|---|
| `AcmCrypto` | acm-crypto: `AlgoId`, `KeyHandle`, the checks of both providers in the order of the code |
| `AcmWire` | acm-wire: the header byte by byte, `seal`, `open`, `frame_len` |
| `AcmLink`, `MCAcmLink` | two peers that seal and open frames over a channel that damages and mixes them |
| `Cryptod`, `MCCryptod` | the daemon: `CryptodState`, its handlers, the connection tasks of acm-ipc, restarts |
| `KeyService` | the abstract specification of the daemon: one slot for the key, filled in one step, and calls that work with one key |
| `CryptodRefinement` | the refinement mapping from `Cryptod` to `KeyService` |
| `EncdecTest`, `MCEncdecTest` | `acm-cli rotate-key`, `acm-encdec-test` and a third client composed with `Cryptod` |
| `Agent`, `MCAgent` | the Go client with its mutex, cached connection and deadlines, the HTTP handlers and the collector that share it, the daemon as they see it, shutdown |
| `Sysmon`, `MCSysmon` | `sysmon.Reader`: baselines, rates and percentages over counters that move while they are read |
| `WebUi`, `MCWebUi` | the status poller and the Keys page with its history in `localStorage` |
| `AcmWireProofs`, `AcmLinkProofs` | theorems about headers, frames and the two providers; about the two peers and their channel |
| `CryptodProofs` | theorems about the daemon: its key slot and frames, its plaintexts and status reports |
| `CryptodRefinementProofs` | the daemon implements `KeyService` |
| `EncdecTestProofs` | the two programs against the daemon: the test never fails |
| `AgentProofs` | theorems about the client, its callers, crashes and the API's answers to rotations |
| `SysmonProofs` | theorems about the reader's percentages and rates |
| `WebUiProofs` | theorems about the display and the history |

**Data.** Key material, nonces and plaintexts are blobs `[len, val]`: the code
tests their lengths and never looks inside. The header is a sequence of twelve
bytes because the code builds, parses and authenticates it as such. AES-GCM is
idealised (`aead_seal`, `aead_opens`, external): a sealed body remembers
material, nonce, associated data and plaintext and opens only for the same ones
and only if untouched. A key id is a `u32`; TLC's integers end at 2^31 - 1, so
runs use ids up to that, the theorems all of them.

**`Cryptod`.** `provider`, `active_algo`, `active_key` and the counters are the
fields of `CryptodState`. `pc[c]`, `req[c]`, `key[c]`, `report[c]`, `resp[c]`
are the task of connection `c` and its locals. One step is the code between two
lock acquisitions or one counter load:

| Code | Actions |
|---|---|
| `serve` / `serve_connection` | `Accept`, `ReadRequest`, `ReadGarbage` (code 400), `ReadEof`, `WriteResponse` (fails if the client left) |
| `GetStatus` | `StatusAlgo`, `StatusKey` (takes the lock of `active_key` and keeps it), `StatusSealed`, `StatusOpened`, `StatusErrors` (releases it) |
| `RotateKey` | `RotateValidate` (all checks and the self-test), `RotateSetProvider`, `RotateSetAlgo`, `RotateSetKey` |
| `SetPolicy` | `SetPolicy` (acknowledged, no effect: that is what the code does) |
| `Encrypt` | `EncryptKey` (clone under the lock, or 409), `EncryptSeal` (under the provider's lock) |
| `Decrypt` | `DecryptKey`, `DecryptOpen` |
| process exit and systemd restart | `Restart` |

The locks of `provider` and `active_algo` are only held inside one step, so only
the holder of `active_key`'s lock is a variable. The runtime has two worker
threads; with two connections every interleaving of the model can happen, with
three it is an over-approximation. `installed`, `emitted`, `before` and `seen`
record history for the properties (`emitted` is also the frames the clients
own). `DecryptParams` documents its frame as one of a previous `Encrypt` or of a peer
cryptod, and nothing protects it on its way, so `Requests` lets a client decrypt any
bytes (`ClientFrames`): header, nonce and body are each taken from any frame that this
daemon (`emitted`) or a peer (`PeerFrames`, the same `seal` under the keys `PeerKeys`)
has handed out, or made up (`MadeUp`). This covers a frame as it was, a change in any
part, parts of several frames put together, a cut anywhere and any extension; that a
made-up body never opens is the idealisation of AES-GCM. The 64-bit counters cannot wrap within the bounds and are naturals. `run_bench`
and `bench_one` are the `--bench` mode, which uses the providers only. (The flags
`--config` and `--selftest` are parsed and then read by nobody.)

**`KeyService` and `CryptodRefinement`.** `KeyService` says what a client may rely on
without knowing of locks, providers or counters. A call goes through the stages `idle`,
`asked`, (`looked`,) `taken` or `accepted`, `answered`. A rotation is decided by its
request alone (`Accept`, `Refuse`) and takes effect in the single step `Install`; an
encrypt or decrypt takes the key once (`Take`) and its answer is a function of that key
and the request, except that a call which a rotation overtakes (`Disturbed`) may also
fail, encrypt with 500 and decrypt with 422; a status report is two looks at two times,
each at the slot or, for the algorithm, at a rotation under way. The mapping: `slot` is
`active_key`, because that is stored last; `stage` is `StageOf(pc)`; a report and an
answer lose their counters; `ask` and `key` are the task's locals. The storing of
provider and algorithm, the counter loads, and connecting and closing while idle are
stuttering steps. With two rotating connections the refinement fails
(`torn_rotation` shows how).

**`EncdecTest`.** `Cli` and `Tester` are connections whose client is a program with a
script: `Dial`, `Send`, `Receive` are `connect` and `roundtrip` of the Go client, joined
with the daemon's `Accept`, `ReadRequest`, `WriteResponse`; `ScriptRequests` and
`Expects` are the calls and the checks of the two programs, `Deadline` their expiring
contexts. The test starts when `acm-cli` has exited with 0, as its documentation asks.
Every other connection does what `Sends` allows. The daemon does not restart during the
test: that would take the key away, and the test would be right to complain.

**`Agent`.** `mu` and `conn` are the fields of `Client`; `pc[h]`, `late[h]`, `got[h]`
and `out[h]` are a goroutine: where it is, whether its context has expired, the line it
read, the status it answered. `srv`, `to`, `back` are the cached connection seen from
the daemon. A request is the pair of its goroutine and its number; the wire carries no
such identifier, only the model does, to say which answer belongs to which call.

| Code | Actions |
|---|---|
| a handler or `CryptodCollector.Collect` | `Serve`, `Refuse` (wrong method or body), `Finish` with `http_status` |
| `Client` methods | `Lock`, then `Reuse`, `Dial` or `DialFails` (`connect`), `Write` or `WriteFails`, `Read` or `ReadFails` (`roundtrip`), `result` (the switch on `env.Result`) |
| `context.WithTimeout`, `SetDeadline` | `Expire`, `DeadlineExceeded` |
| the daemon, as in `Cryptod` | `Answer`, `ServeOrphan` (a request whose client has gone is still served), `Crash`, `Start` |
| `main` | `Signal`, `Exit` |

**`Sysmon`.** `prevCPU`, `prevNet`, `prevProc` are the fields of `Reader`; `Begin`,
`readCPU`, `readMemory`, `readNet`, `readProcesses` are the parts of `Snapshot` under its
mutex, each of which may fail where the code returns an error. `Pass`, `NetChange` and
`ProcChange` are the kernel between any two of them. Counters are subtracted modulo
`Word` where the code subtracts `uint64`. `sent`, `counted`, `used` and `charged` are
history: what really happened against what the snapshots add up to.

**`WebUi`.** `timer` and `poll` are `startStatusPolling`: `Tick` sends the requests,
`AnswerPoll` is the agent, `Settle` is the rest of `tick`. `Mount`, `Unmount`, `Edit`,
`Submit`, `RotateReturns`, `clearHistory` are the Keys page; each visit is an instance
with its own form, awaited call and list, because the continuation of an `await`
belongs to the instance that started it. The model is one browser tab: a second tab,
with a live page that writes the same `localStorage`, is not covered.

## Runs

| Run | Question | Bounds |
|---|---|---|
| `link` | Are headers readable (`HeaderTellsTheTruth`), does everything undamaged open (`RoundTrip`), can the two providers be told apart (`ProvidersAgree`)? Can any damage or any mix of two frames be opened (`Authentic`)? Can a wiped handle seal (`TypeOK`)? | `Batches`: one frame with eight key ids around the byte boundaries and an empty or non-empty plaintext, or two frames, the smallest number that can be mixed; three keys, two nonces; cuts around the end of header, nonce and tag; wiped handles |
| `cryptod_one_admin` | Safety of the daemon with one rotating client (see below), and does it implement `KeyService` (`ImplementsKeyService`)? | five requests and one restart: enough for rotate, encrypt, rotate, decrypt with a status or an error in between; two headers and two bodies made up, no peer |
| `cryptod_live` | Is every request answered (`RequestAnswered`)? Can decrypt be made to return a plaintext for anything but a frame that was sealed under its key (`PlaintextsAreAuthentic`)? | two connections, three requests, all methods: one holder and one waiter of the lock; rotate, encrypt, decrypt, or a decrypt of a peer's frame racing a second rotation. A peer with the same key material under another id; the header with each of its fields changed, another nonce, cuts in header, nonce and body, a changed and a longer body, every combination of them with the parts of all frames |
| `torn_rotation` | (violated) do provider, algorithm and key agree when two clients rotate? | two requests |
| `encrypt_race` | (violated) does an encrypt always find the provider of its key? | three requests |
| `aad_ignored` | (violated) is the caller's `aad` part of the tag? | three requests |
| `agent_shared` | Do answers reach their callers, is what the API says of a rotation true, is a crash paid for once, does every call return? | a probe and an administrator, two calls each (the first leaves something behind, the second could meet it), two crashes |
| `shutdown` | (violated) does a signal let requests finish? | as `agent_shared` |
| `sysmon_shared` | Are percentages in range, is nothing counted twice, is nothing lost? | two callers; three workloads (computing with iowait running backwards, receiving over an interface that comes and goes, a restarting process with an id used before); a small word so that wrapping happens |
| `since_last_scrape` | (violated) does a scraped CPU percentage cover the time since the last scrape? | two callers |
| `webui_pages` | Is the stored history true, complete unless a rotation outlives its page (`HistoryIsComplete`), does the display only move forward and reach the active key? | two visits, two rotations (one on each visit, or one that outlives the first), one restart, one lost request, a history of two entries |
| `encdec_test` | Does `acm-encdec-test` ever report a wrong answer (`TestNeverFails`), does it end (`TestEnds`)? | keys of both algorithms and a short one; three plaintexts (empty, long, tampered with); two or more requests of the third client at any time |

Properties of the daemon: `FramesNameTheirKey` (a frame's header names the very
key it was sealed under, across any race of encrypt and rotate),
`PlaintextsAreAuthentic` (whatever bytes it is given, decrypt returns a plaintext only
for exactly a frame that this daemon or a peer sealed under the material of the
handler's key, and the one that was sealed; a peer may know that material under
another id, since `handle_decrypt` never compares ids),
`StatusCoversAnswers` (a report is never behind its reader's own answers),
`QuiescentAgreement` (provider, algorithm and key belong together outside a
swap), `RotationAllOrNothing` (Ok: all three are the requested ones; error: all
three are the old ones), `RequestAnswered`, and `ImplementsKeyService` (see above; it
also covers what the invariants leave open: which error a call may get, and when).

`TestNeverFails` joins most of these from the point of view of an operator: that
`acm-cli` exits with 0 means that the key is usable at once, and the counters grow by
exactly the test's own calls, whatever a third client does. It holds because nobody
else encrypts, decrypts or rotates during the test (`OnlyTheTest`); the test itself documents no such
condition.

Properties of the agent: `AnswersMatch` (no call takes another's answer),
`RotateAnswerIsTrue` (200 only for a key the daemon took over; a mirrored refusal only
for one it did not and will not take over; 502 leaves it open), `OneFailurePerCrash`
(a dead connection is noticed once), `CallReturns`. Of the reader: `PercentInRange`,
`NothingCountedTwice`, `NothingLost` (as long as snapshots are more than 50 ms apart
and the interface stays). Of the web UI: `HistoryTellsTheTruth`, `HistoryIsComplete`,
`DisplayNeverGoesBack`, `DisplayConverges`.

**Fairness** (`FairSpec`): weak fairness for every step of a task that has work,
because the runtime polls every ready task; strong fairness for the steps that
take the lock of `active_key`, because tokio's mutex is FIFO. `write_all` waits for a client that does not read, so weak
fairness of `WriteResponse` assumes that a connected client drains its socket or goes
away; the task holds no lock while it writes, so nobody else depends on this. No
fairness for clients, restarts or `Accept`. In `Agent`: weak fairness for a goroutine's next step
and for its deadline, strong fairness for `Lock` because a Go mutex hands itself to a
waiter that starves; none for the daemon, which may never answer. In `WebUi`: weak
fairness for timers and continuations of the browser and for the agent's answer to a
status request, which its own deadline guarantees (`CallReturns`); none for the user,
for rotations or for restarts. In `EncdecTest`: the daemon's fairness, and weak fairness
for the programs' own steps, none for the third client and the deadlines. Deadlock is checked in
every run but those of `Agent`, whose process may exit.

**Findings.** The violation runs exhibit five disagreements between the code and what
is said about it:

* `torn_rotation`: overlapping rotations tear the key slot, although the UI promises
  an atomic swap;
* `encrypt_race`: an encrypt can meet a provider that does not correspond to its key;
* `aad_ignored`: `aad` is documented as part of the tag and is ignored;
* `shutdown`: "Graceful shutdown on SIGTERM/SIGINT", but `main` calls `os.Exit(0)` as
  soon as `ListenAndServe` returns, while `Shutdown` is still waiting for requests;
* `since_last_scrape`: the CPU gauges are documented as "since the last scrape", but a
  dashboard poll replaces the baseline they are computed from: after scrape, poll,
  scrape the second scrape shows the time since the poll.

Seen while modelling, promised nowhere, hence without a run: a snapshot within 50 ms of
the last one reports rate 0 and moves the baseline, so those bytes appear in no rate
(`NothingLost` excludes this case by `lossy`); a rotation that outlives its Keys page
saves its own list over what the next instance has saved (`HistoryIsComplete` excludes
this case by `outlived`).

## Proofs

`AcmWireProofs`: `HeaderRoundTrip` (every header with any 32-bit id decodes to
itself), `SealedFrameOpens` (round trip between any two providers, all lengths),
`OpenedFrameIsAuthentic` (what opens was sealed so). They unfold the two
providers once (`ProviderSeal`, `ProviderOpen`) into one condition each, which is
also why the providers are interchangeable.

`CryptodProofs`, from `CryptodAssumption` only (the parameters of requests have
their Rust types, "no key" is neither a key nor a number, peers hold keys that `rotate_key` accepts, a
made-up header has at most twelve bytes and a made-up nonce at most twelve, what follows
being the nonce and the body), for any number of connections and any `PeerKeys` and
`MadeUp`:

* `RotateVerdict`: what `rotate_key` decides, for every request; the branches that
  answer 500 are dead, because the self-test passes for every key that gets so far
  (`SelfTestPasses`, from `ProviderRoundTrip`). `BenchCompletes`: `--bench` never stops at
  an error. Both rest on the idealised AES-GCM and say that the lengths and algorithms
  the code passes to it are right.
* `TypeCorrect`: `TypeOK`. Not inductive alone: that an assigned key is usable
  follows from the request that was validated (`ServesRequest`) and from the
  label a task has reached (`HasKey`).
* `FramesCorrect`: `FramesNameTheirKey`. `FramesInv` follows a handle from
  `active_key` (`ActiveInstalled`) to the clone of a handler (`CloneInstalled`) to
  its answer (`AnswersNameTheirKey`) to the client. The step that matters is
  `EncryptSealsUnderClone`: seal refuses a key of another algorithm, hence the
  header, which shows the provider's algorithm, shows the key's.
* `AgreementCorrect` and `RotationCorrect`, under `SingleRotator` (one connection
  does all rotations): `QuiescentAgreement` and `RotationAllOrNothing`.
  `SwapProgress` says how far the swap has come at each label; `OnlyRotator`
  uses the hypothesis, which `torn_rotation` shows to be necessary.
* `StatusCorrect`: `StatusCoversAnswers`. An answer is counted when it is computed and
  read later, so `CountersCover` counts an answer still to be written as read (`Owed`);
  `ReportProgress` carries this through the loads of a report under way.
* `PlaintextsCorrect`: `PlaintextsAreAuthentic`. `PlainInv` says that every frame
  outside, or about to be written, is what a usable key makes of its request
  (`HandedOut`; `PeerFramesHandedOut` for the peers), and that the bytes a task decrypts
  are made of such frames and of made-up parts (`DecryptsFrames`). `ClientFrame` does
  the rest: a body that is intact and was sealed with the very header and nonce it comes
  with leaves only the whole frame, and `OpenedFrameIsAuthentic` says that nothing else
  opens.

`AgentProofs`, from `AgentAssumption` only, for any number of goroutines, calls and
crashes:

* `TypeCorrect`: `TypeOK`, in particular that exactly the holder of `mu` is inside a
  client method (`Mutex`).
* `AnswersCorrect`: `AnswersMatch`. It is not inductive: one must know what is on the
  connection. `WireInv` says that it carries nothing while `mu` is free, and otherwise
  nothing, the holder's request or the answer to it. That closing the connection after
  every failure keeps this true is the heart of the proof.
* `RotateAnswerCorrect`: `RotateAnswerIsTrue`. `Fate` follows the request of a rotation:
  not at the daemon before it is written, neither applied nor orphaned while unread,
  decided by the line that is coming back, and true to what was answered afterwards.
  That a refusal stays true needs that the request is not an orphan the daemon may
  still serve. `KnownRequests` makes the request of a new call fresh.

* `OneFailureCorrect`: `OneFailurePerCrash`. `StaleInv` adds what is still to be paid: a
  cached connection whose other end is gone is one that no failed call has paid for yet.

`AcmLinkProofs`, from `LinkAssumption` (handles are what `KeyHandle::new` makes, nonces
and plaintexts have a length, ids are 32-bit, the channel writes bytes), for any number
of frames: `LinkTypeCorrect`, `AuthenticCorrect`, `RoundTripCorrect`, `HeaderCorrect`
and `ProvidersAgreeCorrect`, one for each invariant of the run `link`. `IInv` says of the
log that each frame is the one its arguments give (`TrueEntry`), of the frame in transit
and of the frame last opened that it has the `Shape` the channel can produce and that an
intact body is some sealed frame's (`FromSender`). `AuthenticCorrect` then needs that
`open` authenticates the header it parsed, so that body, nonce and header come from
one frame. The unforgeability of AES-GCM itself is assumed (`aead_opens`).

`CryptodRefinementProofs`: `RefinementCorrect`, `Spec => ImplementsKeyService` under
`SingleRotator`, which `torn_rotation` shows to be necessary. Initial states map to
initial states; then each action is matched with its step of `KeyService` or with none.
`RefinementInv` joins `TypeInv`, `RotationInv`, `StatusInv` and `PlainInv` and adds that,
outside a swap, `active_algo` is that of the key in the slot (`AlgoOfSlot`), which is why
what a status report shows of it may be noted as the slot's; `RotateVerdict` is the step
of `RotateValidate`.

`EncdecTestProofs`, for every accepted key, every list of plaintexts, every choice of
12-byte nonces and any number of other connections, from `TestAssumption` (the two
programs have a connection each, there is a plaintext to tamper with, and what they
send is among the requests of `Cryptod`) and the hypothesis `OnlyTheTest`: the others
neither rotate nor encrypt nor decrypt. The run `encdec_test` is an instance of it
(`TestAlone`).

* `TestIsClient`: `TestSpec => Spec`. Every step of the composition is a step of
  `Cryptod`: the scripts only send requests that its clients may send. For `decrypt` this
  is not obvious, the frame must be one the daemon has handed out, so it needs the
  invariant. All theorems about the daemon therefore hold of the composition.
* `TestCorrect`: `TestNeverFails`. `TestInv` takes the daemon's four invariants as they
  are (`DaemonInv`, kept by the lemmas of `CryptodProofs`) and adds who runs which
  handlers (`RoleInv`), that an exit code 0 of `acm-cli` means a key and an idle
  connection (`CliInv`), and `Conversation`: the daemon serves the call the script is
  at, the frame kept is what the active key makes of the last plaintext (`FrameKept`),
  the counters have grown since the first report by the calls answered so far
  (`Counted`), a report under way shows them (`Reported`), and an answer about to be
  written is one the test accepts. The argument: once `acm-cli` is done nobody rotates,
  so the slot stands still and, by `QuiescentAgreement`, holds the provider of its key;
  then `FrameVerdicts` says what seal and open return.

`SysmonProofs`, from `SysmonAssumption` (a positive word size; "no sample" is not a
sample; the collector is one of the callers), for any number of callers, workloads
and bounds:

* `PercentCorrect`: `PercentInRange`, from what the guards of the code leave of a
  difference that may have wrapped.
* `CountedOnceCorrect`: `NothingCountedTwice`. `BytesInv` and `JiffiesInv` bound what has
  been counted plus what lies between the baseline and the counter (`PendingBytes`,
  `PendingJiffies`) by what really happened.
* `NothingLostCorrect`: `NothingLost`, from `LosslessInv`: without a loss the
  interface's counter is what was received, and the baseline is behind it.

`WebUiProofs`, from the module's assumptions, for any number of visits, rotations,
restarts, failures and any `HistoryLimit`:

* `DisplayCorrect`: the action property `DisplayNeverGoesBack`. `PollInv`: one tick is
  under way at a time, and its report is not older than the one on display.
* `HistoryTruthCorrect`: `HistoryTellsTheTruth`. `TruthInv`: numbers of rotations are
  fresh, the call and its request name the same key, and every list, stored or on a
  page, is true.
* `HistoryCompleteCorrect`: `HistoryIsComplete`. `CompleteInv` speaks of ends of lists
  (`SameEnd`), because a page's list is longer than what `slice` stores of it. The run
  `webui_pages` never truncates (two rotations, limit two; one more rotation takes it
  past its time), so that truncation is right is shown by this theorem.

Only model-checked: `RequestAnswered`, `TestEnds`, `CallReturns` and `DisplayConverges`
(liveness under fairness is out of the prover's reach). No module uses recursion, so nothing is lost to induction over data.

## Plan

Done in this order: crypto and frames, the daemon, the agent, the reader, the web UI;
then the abstract service and the refinement, the composition with the two command-line
programs, the completeness of the history; then a theorem for every invariant, action
property and refinement that a passing run checks, the composition with the two
command-line programs last. Nothing of the plan is left but what the prover cannot do
(liveness) and what the last section leaves out.

## Not modelled

* Toasts, markup and the pages without state of the web UI. The success toast of the
  Keys page names what is in the form after the `await` (a defect that the history does
  not share). The Dashboard's rate effect reads and assigns the same `$state` variable;
  what that does is decided by Svelte's scheduler, which is not in the repository.
* Embedded files, flags and access log of the agent, metric names and text, the parsing
  of `/proc`, argument parsing and printing of `acm-cli`, JSON and base64 text (with the
  unbounded `read_line`), logging: no state, or text that no property is about.
* A second daemon that takes over the socket path: systemd starts one.
* The DPDK placeholder, the controller stub, the unused protobuf, the Python scripts
  that drive a module over the network, packaging: no logic of the system.
