------------------------------- MODULE Agent -------------------------------
(***************************************************************************)
(* The on-module agent: HTTP handlers and the metrics collector share one  *)
(* ipc.Client, which keeps one connection to the daemon behind a mutex and *)
(* gives up at the deadline of the call.  The daemon is reduced to what    *)
(* Cryptod shows of it to a client: it answers the requests of a           *)
(* connection in order, in its own time, and serves a request it has       *)
(* received even if the client has left.  It may crash and come back.      *)
(*                                                                         *)
(* A request is a pair <<h, n>>: the n-th call of goroutine h.             *)
(***************************************************************************)
EXTENDS Naturals, Sequences, FiniteSets, SequencesExt

CONSTANTS
    Goroutines,  \* the goroutines that serve HTTP requests and scrapes
    Endpoint,    \* Endpoint[h]: what h serves
    Verdicts,    \* what the daemon says to a rotation: 0 (accepted) or an error code
    Nobody,      \* the mutex is free
    NoAnswer,    \* nothing was received yet
    MaxCalls,    \* bound: calls of one goroutine
    MaxCrashes   \* bound: crashes of the daemon

Endpoints == {"status", "readyz", "metrics", "rotate"}

ASSUME AgentAssumption ==
    /\ Endpoint \in [Goroutines -> Endpoints]
    /\ Verdicts \subseteq {0, 422, 500, 501}
    /\ Nobody \notin Goroutines
    /\ MaxCalls \in Nat /\ MaxCrashes \in Nat

VARIABLES
    mu,         \* Client.mu: its holder
    conn,       \* Client.conn # nil
    pc,         \* pc[h]: where goroutine h is
    late,       \* late[h]: the deadline of h's context has passed
    calls,      \* calls[h]: calls made so far
    got,        \* got[h]: the response line that h's call has read
    out,        \* out[h]: the HTTP status (or the value of `up`) h answered
    \* The cached connection, as far as it matters.
    srv,        \* the daemon's end is open
    to,         \* requests the daemon has not read
    back,       \* response lines the client has not read
    \* The daemon.
    up,         \* it accepts connections
    orphans,    \* requests in flight on connections the client has closed
    applied,    \* history: rotations that took effect in this daemon
    crashes,
    \* main
    server,     \* "running", "stopping" (Shutdown called) or "exited"
    \* History
    cut,        \* requests that were being served when the process exited
    stale       \* calls that failed although in time and the daemon up

client == <<mu, conn>>
wire   == <<srv, to, back>>
daemon == <<up, orphans, applied, crashes>>
main   == <<server, cut>>
vars   == <<client, pc, late, calls, got, out, wire, daemon, main, stale>>

id(h) == <<h, calls[h]>>

Init ==
    /\ mu = Nobody /\ conn = FALSE
    /\ pc = [h \in Goroutines |-> "idle"]
    /\ late = [h \in Goroutines |-> FALSE]
    /\ calls = [h \in Goroutines |-> 0]
    /\ got = [h \in Goroutines |-> NoAnswer]
    /\ out = [h \in Goroutines |-> 0]
    /\ srv = FALSE /\ to = <<>> /\ back = <<>>
    /\ up = TRUE /\ orphans = {} /\ applied = {} /\ crashes = 0
    /\ server = "running" /\ cut = {}
    /\ stale = 0

Goto(h, l) == pc' = [pc EXCEPT ![h] = l]

-----------------------------------------------------------------------------
(* httpapi.API and metrics.CryptodCollector                                *)

\* A request arrives; the handler makes a context with a deadline and calls
\* the client, whose methods begin with mu.Lock.
Serve(h) ==
    /\ server = "running"
    /\ pc[h] = "idle"
    /\ calls[h] < MaxCalls
    /\ calls' = [calls EXCEPT ![h] = @ + 1]
    /\ late' = [late EXCEPT ![h] = FALSE]
    /\ got' = [got EXCEPT ![h] = NoAnswer]
    /\ out' = [out EXCEPT ![h] = 0]
    /\ Goto(h, "lock")
    /\ UNCHANGED <<client, wire, daemon, main, stale>>

\* What handleStatus and handleRotateKey refuse before they call the client:
\* the wrong method, a body that is not JSON, material that is not hex.
Refuse(h) ==
    /\ server = "running"
    /\ pc[h] = "idle"
    /\ \/ Endpoint[h] = "status" /\ out' = [out EXCEPT ![h] = 405]
       \/ Endpoint[h] = "rotate" /\ \E code \in {400, 405} :
                                        out' = [out EXCEPT ![h] = code]
    /\ got' = [got EXCEPT ![h] = NoAnswer]
    /\ UNCHANGED <<client, pc, late, calls, wire, daemon, main, stale>>

\* What a method of the client returns is 0 (no error), the code of a typed
\* *ErrorResponse, or Failed (any other error).
Failed == 1

\* Mutated form: the branch for a typed error falls through to the answer.
http_status_untyped(endpoint, r) ==
    CASE endpoint = "status"  -> IF r = 0 THEN 200 ELSE 502
      [] endpoint = "readyz"  -> IF r = 0 THEN 200 ELSE 503
      [] endpoint = "metrics" -> IF r = 0 THEN 1 ELSE 0
      [] endpoint = "rotate"  -> IF r = Failed THEN 502 ELSE 200

\* The answer of a handler, or the value of the gauge acm_cryptod_up.
http_status(endpoint, r) ==
    CASE endpoint = "status"  -> IF r = 0 THEN 200 ELSE 502
      [] endpoint = "readyz"  -> IF r = 0 THEN 200 ELSE 503
      [] endpoint = "metrics" -> IF r = 0 THEN 1 ELSE 0
      [] endpoint = "rotate"  -> IF r = 0 THEN 200
                                 ELSE IF r = Failed THEN 502
                                 ELSE IF r \in 400 .. 499 THEN r
                                 ELSE IF r = 501 THEN 501
                                 ELSE 500

\* The client method returns r (its deferred mu.Unlock runs) and the handler
\* answers.
Finish(h, r) ==
    /\ mu' = Nobody
    /\ out' = [out EXCEPT ![h] = http_status(Endpoint[h], r)]
    /\ Goto(h, "idle")

\* The context's deadline passes.
Expire(h) ==
    /\ pc[h] # "idle"
    /\ ~late[h]
    /\ late' = [late EXCEPT ![h] = TRUE]
    /\ UNCHANGED <<client, pc, calls, got, out, wire, daemon, main, stale>>

-----------------------------------------------------------------------------
(* ipc.Client.  Lock waits without regard to the context.                  *)

\* Mutated form: a method that enters without waiting for the mutex.
LockFree(h) ==
    /\ pc[h] = "lock"
    /\ mu' = h
    /\ Goto(h, "connect")
    /\ UNCHANGED <<conn, late, calls, got, out, wire, daemon, main, stale>>

Lock(h) ==
    /\ pc[h] = "lock"
    /\ mu = Nobody
    /\ mu' = h
    /\ Goto(h, "connect")
    /\ UNCHANGED <<conn, late, calls, got, out, wire, daemon, main, stale>>

\* connect: a cached connection is used as it is.
Reuse(h) ==
    /\ pc[h] = "connect"
    /\ conn
    /\ Goto(h, "write")
    /\ UNCHANGED <<client, late, calls, got, out, wire, daemon, main, stale>>

Dial(h) ==
    /\ pc[h] = "connect"
    /\ ~conn /\ up /\ ~late[h]
    /\ conn' = TRUE
    /\ srv' = TRUE /\ to' = <<>> /\ back' = <<>>
    /\ Goto(h, "write")
    /\ UNCHANGED <<mu, late, calls, got, out, daemon, main, stale>>

\* DialContext fails when nobody listens, at the deadline, and when the HTTP
\* client has gone away: its context is cancelled.  Cancellation is noticed
\* nowhere else, and a scrape has a context of its own.
DialFails(h) ==
    /\ pc[h] = "connect"
    /\ ~conn
    /\ late[h] \/ ~up \/ Endpoint[h] # "metrics"
    /\ Finish(h, Failed)
    /\ UNCHANGED <<conn, late, calls, got, wire, daemon, main, stale>>

\* Mutated form: the dead connection stays in c.conn.
KeepConn == UNCHANGED <<conn, srv, to, back, orphans>>

\* conn.Close and c.conn = nil.  What the daemon has not read yet it will
\* still read; what it has written is lost.
DropConn ==
    /\ conn' = FALSE
    /\ srv' = FALSE /\ to' = <<>> /\ back' = <<>>
    /\ orphans' = IF srv THEN orphans \cup ToSet(to) ELSE orphans

\* Mutated form: no deadline is set on the connection.
NeverExceeded(h) == FALSE

\* Reads and writes fail once the deadline set by SetDeadline has passed.
DeadlineExceeded(h) == late[h]

\* A failure for which neither this call's deadline nor a daemon that is down
\* is to blame.
CountStale(h) == stale' = IF late[h] \/ ~up THEN stale ELSE stale + 1

Write(h) ==
    /\ pc[h] = "write"
    /\ srv /\ ~DeadlineExceeded(h)
    /\ to' = Append(to, id(h))
    /\ Goto(h, "read")
    /\ UNCHANGED <<client, late, calls, got, out, srv, back, daemon, main, stale>>

WriteFails(h) ==
    /\ pc[h] = "write"
    /\ ~srv \/ DeadlineExceeded(h)
    /\ DropConn
    /\ CountStale(h)
    /\ Finish(h, Failed)
    /\ UNCHANGED <<late, calls, got, up, applied, crashes, main>>

\* The switch on env.Result in the client's methods.
result(h, line) ==
    IF line.kind = "error" THEN line.code
    ELSE IF line.kind = (IF Endpoint[h] = "rotate" THEN "ok" ELSE "status") THEN 0
    ELSE Failed

Read(h) ==
    /\ pc[h] = "read"
    /\ back # <<>> /\ ~DeadlineExceeded(h)
    /\ got' = [got EXCEPT ![h] = Head(back)]
    /\ back' = Tail(back)
    /\ Finish(h, result(h, Head(back)))
    /\ UNCHANGED <<conn, late, calls, srv, to, daemon, main, stale>>

\* Mutated form: after a failed read the connection is kept for the next call.
ReadFailsKeep(h) ==
    /\ pc[h] = "read"
    /\ DeadlineExceeded(h) \/ (back = <<>> /\ ~srv)
    /\ CountStale(h)
    /\ Finish(h, Failed)
    /\ UNCHANGED <<conn, late, calls, got, wire, daemon, main>>

ReadFails(h) ==
    /\ pc[h] = "read"
    /\ DeadlineExceeded(h) \/ (back = <<>> /\ ~srv)
    /\ DropConn
    /\ CountStale(h)
    /\ Finish(h, Failed)
    /\ UNCHANGED <<late, calls, got, up, applied, crashes, main>>

-----------------------------------------------------------------------------
(* The daemon, as its clients see it                                       *)

\* The response line to request r.
Line(r, verdict) ==
    [id |-> r, code |-> verdict,
     kind |-> IF Endpoint[r[1]] # "rotate" THEN "status"
              ELSE IF verdict = 0 THEN "ok" ELSE "error"]

Apply(r, verdict) ==
    applied' = IF Endpoint[r[1]] = "rotate" /\ verdict = 0
               THEN applied \cup {r} ELSE applied

\* The next request of the cached connection is served and answered.
Answer ==
    /\ srv /\ to # <<>>
    /\ \E v \in Verdicts : /\ Apply(Head(to), v)
                          /\ back' = Append(back, Line(Head(to), v))
    /\ to' = Tail(to)
    /\ UNCHANGED <<client, pc, late, calls, got, out, srv, up, orphans, crashes,
                   main, stale>>

\* A request whose client is gone is served all the same.
ServeOrphan ==
    \E r \in orphans, v \in Verdicts :
        /\ Apply(r, v)
        /\ orphans' = orphans \ {r}
        /\ UNCHANGED <<client, pc, late, calls, got, out, wire, up, crashes, main,
                       stale>>

Crash ==
    /\ up
    /\ crashes < MaxCrashes
    /\ crashes' = crashes + 1
    /\ up' = FALSE
    /\ srv' = FALSE /\ to' = <<>>
    /\ orphans' = {}
    /\ UNCHANGED <<client, pc, late, calls, got, out, back, applied, main, stale>>

Start ==
    /\ ~up
    /\ up' = TRUE
    /\ UNCHANGED <<client, pc, late, calls, got, out, wire, orphans, applied,
                   crashes, main, stale>>

-----------------------------------------------------------------------------
(* main: the signal goroutine and the end of ListenAndServe                *)

\* SIGTERM: Shutdown closes the listener; it would go on to wait for the
\* requests being served, but in a goroutine nobody waits for.
Signal ==
    /\ server = "running"
    /\ server' = "stopping"
    /\ UNCHANGED <<client, pc, late, calls, got, out, wire, daemon, cut, stale>>

\* ListenAndServe has returned ErrServerClosed and main calls os.Exit(0).
Exit ==
    /\ server = "stopping"
    /\ server' = "exited"
    /\ cut' = {h \in Goroutines : pc[h] # "idle"}
    /\ pc' = [h \in Goroutines |-> "idle"]
    /\ mu' = Nobody
    /\ DropConn
    /\ UNCHANGED <<late, calls, got, out, up, applied, crashes, stale>>

Step(h) == \/ Lock(h) \/ Reuse(h) \/ Dial(h) \/ DialFails(h) \/ Write(h)
           \/ WriteFails(h) \/ Read(h) \/ ReadFails(h)

Next == \/ \E h \in Goroutines : Serve(h) \/ Refuse(h) \/ Expire(h) \/ Step(h)
        \/ Answer \/ ServeOrphan \/ Crash \/ Start \/ Signal \/ Exit

Spec == Init /\ [][Next]_vars

\* Goroutines run, time passes, and a Go mutex hands itself to a waiter that
\* starves.  Nothing is assumed of the daemon: it may never answer.
Fairness == \A h \in Goroutines : /\ WF_vars(Step(h)) /\ SF_vars(Lock(h))
                                  /\ WF_vars(Expire(h))

FairSpec == Spec /\ Fairness

-----------------------------------------------------------------------------
(* Properties                                                              *)

\* The mutex and the labels fit together: exactly the holder is inside a
\* client method, so no two calls touch the connection at once.
TypeOK ==
    /\ mu \in Goroutines \cup {Nobody}
    /\ conn \in BOOLEAN /\ srv \in BOOLEAN /\ up \in BOOLEAN
    /\ pc \in [Goroutines -> {"idle", "lock", "connect", "write", "read"}]
    /\ \A h \in Goroutines : pc[h] \in {"connect", "write", "read"} <=> mu = h

\* A call never takes the response to another request for its own, although
\* responses carry no identifier, deadlines leave responses behind, and all
\* callers share the connection.
AnswersMatch == \A h \in Goroutines : got[h] # NoAnswer => got[h].id = id(h)

\* What /api/v1/keys/rotate says is true of the daemon that was asked: 200
\* only for a key it has taken over, a refusal (not 502) only for one it has
\* not.
RotateAnswerIsTrue ==
    \A h \in Goroutines :
        Endpoint[h] = "rotate" /\ pc[h] = "idle" =>
            /\ out[h] = 200 => id(h) \in applied
            /\ out[h] \in {422, 500, 501} => id(h) \notin applied

\* A crash of the daemon costs at most one failed call: the connection it
\* left behind is noticed once and replaced.
OneFailurePerCrash == stale <= crashes

\* Every HTTP request and every scrape is answered even if the daemon never
\* answers: deadlines end each call, and each call frees the mutex.
CallReturns == \A h \in Goroutines : pc[h] # "idle" ~> pc[h] = "idle"

\* "Graceful shutdown on SIGTERM/SIGINT": no request is cut off by it.
ShutdownIsGraceful == cut = {}
=============================================================================
