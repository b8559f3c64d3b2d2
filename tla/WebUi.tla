------------------------------- MODULE WebUi -------------------------------
(***************************************************************************)
(* The web UI: the status poller, the Keys page with its rotation form and *)
(* its history in localStorage, against an agent that answers requests in  *)
(* its own time or not at all.  Toasts are left out.  Every visit of the   *)
(* Keys page mounts a new instance; the continuation of an `await' belongs *)
(* to the instance that started it, also after that instance is gone.      *)
(***************************************************************************)
EXTENDS Naturals, Sequences

CONSTANTS
    KeyIds,        \* what the user may type as key id
    HistoryLimit,  \* entries kept in localStorage (20 in the code)
    MaxVisits,     \* bound: visits of the Keys page
    MaxRotations,  \* bound: rotations submitted
    MaxRestarts,   \* bound: restarts of the daemon
    MaxFailures    \* bound: requests that fail on the way

Visits == 1 .. MaxVisits
Rotations == 1 .. MaxRotations
Polls  == {1, 2}

ASSUME WebUiAssumption ==
    /\ HistoryLimit \in Nat \ {0} /\ MaxVisits \in Nat /\ MaxRotations \in Nat
    /\ MaxRestarts \in Nat /\ MaxFailures \in Nat

VARIABLES
    \* The agent and the daemon behind it
    active,     \* [key, version]: the active key (0: none); every change is a version
    waiting,    \* rotations sent and not yet handled: [n, key]
    applied,    \* history: rotations that took effect
    restarts, failures,
    \* startStatusPolling
    timer,      \* a timer for the next tick is set
    poll,       \* poll[p]: [state, report] of a tick: "free", "asked" (the status
                \* request is out), "answered" with a report, or "failed"
    status,     \* the store: the last report, [key, version]
    statusError,
    \* Keys.svelte
    visits,     \* instances mounted so far
    mounted,    \* the instance on screen, or 0
    keyId,      \* keyId[i]: the input
    calls,      \* calls[i]: the rotation awaited by i: [n, key, answer], or NoCall
    history,    \* history[i]: the instance's list
    storage,    \* localStorage
    rotations,  \* rotations submitted so far
    \* History that no guard reads
    finished,   \* the rotations that returned since the list was last cleared
    outlived    \* a rotation was still awaited when its page was left

agent == <<active, waiting, applied, restarts>>
poller == <<timer, poll, status, statusError>>
page == <<visits, mounted, keyId, calls, history, storage, rotations>>
log == <<finished, outlived>>
vars == <<agent, failures, poller, page, log>>

NoCall == [n |-> 0, key |-> 0, answer |-> "none"]
NoKey(v) == [key |-> 0, version |-> v]
Free  == [state |-> "free", report |-> NoKey(0)]
Asked == [state |-> "asked", report |-> NoKey(0)]

Init ==
    /\ active = NoKey(0) /\ waiting = {} /\ applied = {}
    /\ restarts = 0 /\ failures = 0
    /\ timer = TRUE /\ poll = [p \in Polls |-> Free]
    /\ status = NoKey(0) /\ statusError = FALSE
    /\ visits = 0 /\ mounted = 0
    /\ keyId = [i \in Visits |-> 1]
    /\ calls = [i \in Visits |-> NoCall]
    /\ history = [i \in Visits |-> <<>>]
    /\ storage = <<>> /\ rotations = 0
    /\ finished = <<>> /\ outlived = FALSE

-----------------------------------------------------------------------------
(* The agent                                                               *)

\* A rotation reaches the daemon, which takes the key over or refuses it; the
\* caller may have lost its connection before.
HandleRotation ==
    \E r \in waiting, ok \in BOOLEAN :
        /\ waiting' = waiting \ {r}
        /\ active' = IF ok THEN [key |-> r.key, version |-> active.version + 1]
                     ELSE active
        /\ applied' = IF ok THEN applied \cup {r} ELSE applied
        /\ calls' = [i \in Visits |->
                        IF calls[i].n = r.n /\ calls[i].answer = "none"
                        THEN [calls[i] EXCEPT !.answer = IF ok THEN "ok" ELSE "refused"]
                        ELSE calls[i]]
        /\ UNCHANGED <<restarts, failures, poller, visits, mounted, keyId, history,
                       storage, rotations, log>>

\* The daemon restarts and forgets its key.
DaemonRestarts ==
    /\ restarts < MaxRestarts
    /\ restarts' = restarts + 1
    /\ active' = NoKey(active.version + 1)
    /\ UNCHANGED <<waiting, applied, failures, poller, page, log>>

\* A rotation's connection fails, or the agent answers 502: the daemon may
\* have handled the request or do so later.
LoseRotation(i) ==
    /\ calls[i].n # 0 /\ calls[i].answer # "lost"
    /\ failures < MaxFailures
    /\ failures' = failures + 1
    /\ calls' = [calls EXCEPT ![i].answer = "lost"]
    /\ UNCHANGED <<agent, poller, visits, mounted, keyId, history, storage, rotations,
                   log>>

AnswerPoll(p) ==
    /\ poll[p] = Asked
    /\ \/ /\ poll' = [poll EXCEPT ![p] = [state |-> "answered", report |-> active]]
          /\ UNCHANGED failures
       \/ /\ failures < MaxFailures
          /\ failures' = failures + 1
          /\ poll' = [poll EXCEPT ![p].state = "failed"]
    /\ UNCHANGED <<agent, timer, status, statusError, page, log>>

-----------------------------------------------------------------------------
(* startStatusPolling                                                      *)

\* Mutated form: the timer is a setInterval, which does not wait for answers.
IntervalTick(p) ==
    /\ poll[p] = Free /\ \A q \in Polls : q < p => poll[q] # Free
    /\ poll' = [poll EXCEPT ![p] = Asked]
    /\ UNCHANGED <<agent, failures, timer, status, statusError, page, log>>

Tick(p) ==
    /\ timer
    /\ poll[p] = Free /\ \A q \in Polls : q < p => poll[q] # Free
    /\ timer' = FALSE
    /\ poll' = [poll EXCEPT ![p] = Asked]
    /\ UNCHANGED <<agent, failures, status, statusError, page, log>>

\* Mutated form: the next tick is only scheduled after a success.
RearmOnSuccess(p) == poll[p].state = "answered"

\* The last line of tick: setTimeout, whatever the answers were.
Rearm(p) == TRUE

\* Both requests of the tick have settled (the report may have waited for the
\* system snapshot); the stores are set.
Settle(p) ==
    /\ poll[p].state \in {"answered", "failed"}
    /\ poll' = [poll EXCEPT ![p] = Free]
    /\ statusError' = (poll[p].state = "failed")
    /\ status' = IF poll[p].state = "failed" THEN status ELSE poll[p].report
    /\ timer' = (timer \/ Rearm(p))
    /\ UNCHANGED <<agent, failures, page, log>>

-----------------------------------------------------------------------------
(* The Keys page                                                           *)

\* Mutated form: the new instance starts with an empty list.
MountEmpty ==
    /\ mounted = 0
    /\ visits < MaxVisits
    /\ visits' = visits + 1
    /\ mounted' = visits + 1
    /\ UNCHANGED <<agent, failures, poller, keyId, calls, history, storage,
                   rotations, log>>

\* navigate("keys"): a new instance with the initial form, loadHistory.
Mount ==
    /\ mounted = 0
    /\ visits < MaxVisits
    /\ visits' = visits + 1
    /\ mounted' = visits + 1
    /\ history' = [history EXCEPT ![visits + 1] = storage]
    /\ UNCHANGED <<agent, failures, poller, keyId, calls, storage, rotations, log>>

\* navigate to another page.
Unmount ==
    /\ mounted # 0
    /\ mounted' = 0
    /\ outlived' = (outlived \/ calls[mounted] # NoCall)
    /\ UNCHANGED <<agent, failures, poller, visits, keyId, calls, history, storage,
                   rotations, finished>>

\* The inputs stay editable while a rotation is awaited.
Edit ==
    \E k \in KeyIds :
        /\ mounted # 0
        /\ keyId' = [keyId EXCEPT ![mounted] = k]
        /\ UNCHANGED <<agent, failures, poller, visits, mounted, calls, history,
                       storage, rotations, log>>

\* rotate, up to its await.  The button is disabled while busy, and as long as
\* the user has not typed or generated material of the right length.
Submit ==
    /\ mounted # 0
    /\ calls[mounted] = NoCall
    /\ rotations < MaxRotations
    /\ rotations' = rotations + 1
    /\ LET k == keyId[mounted]
       IN  /\ calls' = [calls EXCEPT ![mounted] =
                            [n |-> rotations + 1, key |-> k, answer |-> "none"]]
           /\ waiting' = waiting \cup {[n |-> rotations + 1, key |-> k]}
    /\ UNCHANGED <<active, applied, restarts, failures, poller, visits, mounted, keyId,
                   history, storage, log>>

\* Mutated form: the entry is made after the await, from the form.
entry_after(i) == [n |-> calls[i].n, key_id |-> keyId[i],
                   ok |-> calls[i].answer = "ok"]

\* The history entry: made before the await, completed after it.
entry(i) == [n |-> calls[i].n, key_id |-> calls[i].key,
             ok |-> calls[i].answer = "ok"]

\* h.slice(-HistoryLimit)
slice(h) == IF Len(h) > HistoryLimit
            THEN SubSeq(h, Len(h) - HistoryLimit + 1, Len(h)) ELSE h

saveHistory(h) == storage' = slice(h)

\* The rest of rotate: the list of this instance, which it loaded when it was
\* mounted, is extended and saved.
RotateReturns(i) ==
    /\ calls[i].answer # "none"
    /\ calls' = [calls EXCEPT ![i] = NoCall]
    /\ LET h == Append(history[i], entry(i))
       IN  history' = [history EXCEPT ![i] = h] /\ saveHistory(h)
    /\ finished' = Append(finished, calls[i].n)
    /\ UNCHANGED <<agent, failures, poller, visits, mounted, keyId, rotations,
                   outlived>>

clearHistory ==
    /\ mounted # 0
    /\ history[mounted] # <<>>
    /\ history' = [history EXCEPT ![mounted] = <<>>]
    /\ saveHistory(<<>>)
    /\ finished' = <<>>
    /\ UNCHANGED <<agent, failures, poller, visits, mounted, keyId, calls, rotations,
                   outlived>>

Next == \/ HandleRotation \/ DaemonRestarts
        \/ \E p \in Polls : AnswerPoll(p) \/ Tick(p) \/ Settle(p)
        \/ Mount \/ Unmount \/ Edit \/ Submit \/ clearHistory
        \/ \E i \in Visits : LoseRotation(i) \/ RotateReturns(i)

Spec == Init /\ [][Next]_vars

\* The browser runs timers and continuations, and the agent answers every
\* status request within its deadline.  Nothing is assumed of the user.
FairSpec ==
    /\ Spec
    /\ WF_vars(\E p \in Polls : Tick(p))
    /\ \A p \in Polls : WF_vars(AnswerPoll(p)) /\ WF_vars(Settle(p))

-----------------------------------------------------------------------------
(* Properties                                                              *)

\* An entry of the stored history marked ok stands for a rotation that the
\* daemon took over, with the key id that was sent, whatever was typed, lost
\* or answered late in the meantime.
HistoryTellsTheTruth ==
    \A j \in DOMAIN storage :
        storage[j].ok => [n |-> storage[j].n, key |-> storage[j].key_id] \in applied

\* The stored history is the list of the last rotations since it was cleared,
\* in the order in which they returned, across visits of the page.  A rotation
\* that outlives its page breaks this: it saves the list of its own instance
\* over what another one has saved.
HistoryIsComplete ==
    ~outlived => [j \in DOMAIN storage |-> storage[j].n] = slice(finished)

\* The key on display never goes back to an older one: a tick waits for the
\* answers of the last before it schedules the next.
DisplayNeverGoesBack == [][status'.version >= status.version]_vars

\* Once the key no longer changes, the display comes to show it, also after
\* failed polls.
DisplayConverges == <>[](status = active /\ ~statusError)
=============================================================================
