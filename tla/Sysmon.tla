------------------------------ MODULE Sysmon ------------------------------
(***************************************************************************)
(* sysmon.Reader: CPU percentages and rates are differences from a stored  *)
(* sample, and one Reader serves both the dashboard (/api/v1/system) and   *)
(* the metrics collector.  Snapshot holds the Reader's mutex from end to   *)
(* end and stamps the snapshot after it has the mutex, so a caller that    *)
(* waits is no different from one that calls later: only the holder is     *)
(* modelled.  The kernel's counters go on while a snapshot reads them one  *)
(* file after the other.                                                   *)
(*                                                                         *)
(* One line of /proc/stat (each core has its own baseline and the same     *)
(* code), one interface in one direction, and one watched process stand    *)
(* for all.  Values without a baseline (memory, file systems, sensors,     *)
(* uptime, load) only matter by failing.  Time counts units of 50 ms.      *)
(***************************************************************************)
EXTENDS Integers

CONSTANTS
    Callers,     \* who asks for snapshots
    Collector,   \* the one among them that serves the scrapes of /metrics
    Pids,        \* the process ids the watched process can get
    Workloads,   \* what may happen in a unit of time, one of these per behaviour:
                 \* [busy, idle, bytes, jiffies] are sets of increments (of idle
                 \* and iowait also decrements), changes a subset of
                 \* {"net", "proc"}
    Word,        \* bound: counters are computed modulo this (2^64 in the code)
    MaxTime,     \* bound: units of time
    MaxResets,   \* bound: new interfaces and new processes
    MaxFailures, \* bound: files that cannot be read
    Nobody, NoSample

ASSUME SysmonAssumption ==
    /\ \A w \in Workloads :
          /\ w.busy \subseteq Nat /\ w.idle \subseteq Int /\ w.bytes \subseteq Nat
          /\ w.jiffies \subseteq Nat /\ w.changes \subseteq {"net", "proc"}
    /\ Pids \subseteq Nat \ {0}
    /\ Word \in Nat \ {0} /\ MaxTime \in Nat /\ MaxResets \in Nat /\ MaxFailures \in Nat
    /\ Collector \in Callers /\ Nobody \notin Callers
    /\ NoSample \notin [at : Nat, rx : Nat]

VARIABLES
    \* The kernel
    workload,  \* what it is given to do
    now,       \* the clock
    cpu,       \* [busy, idle]: jiffies since boot
    net,       \* [there, rx]: whether the interface exists, and its counter
    proc,      \* [pid, jiffies] of the watched process; pid 0: not running
    \* Reader
    holder,    \* who is inside Snapshot
    prevCPU,   \* [busy, idle] or NoSample
    prevNet,   \* [at, rx] or NoSample
    prevProc,  \* pid -> [at, jiffies]
    \* Snapshot's locals
    stage,     \* what is read next
    at,        \* s.TakenAt
    snap,      \* [busy_pct, rate]: a rate is bytes over dt, or NoRate
    \* History
    failures, resets,
    sent,      \* bytes the interfaces have received in all
    counted,   \* bytes that the rates of all snapshots account for
    used,      \* jiffies the watched processes have used in all
    charged,   \* jiffies that the CPU% of all snapshots account for
    first,     \* bytes received when the first baseline was taken, or -1
    lossy,     \* something happened for which rates may lose bytes
    author,    \* who left the baseline prevCPU behind
    served     \* callers that were given a snapshot before

kernel  == <<workload, now, cpu, net, proc, resets, sent, used>>
history == <<counted, charged, first, author, served>>
vars == <<kernel, holder, prevCPU, prevNet, prevProc, stage, at, snap, failures,
          lossy, history>>

NoRate == [bytes |-> 0, dt |-> 0]
EmptySnap == [busy_pct |-> 0, rate |-> NoRate]

Init ==
    /\ workload \in Workloads
    /\ now = 0
    /\ cpu = [busy |-> 0, idle |-> 0]
    /\ net = [there |-> TRUE, rx |-> 0]
    /\ proc = [pid |-> 0, jiffies |-> 0]
    /\ holder = Nobody /\ stage = "idle" /\ at = 0 /\ snap = EmptySnap
    /\ prevCPU = NoSample /\ prevNet = NoSample /\ prevProc = [p \in {} |-> NoSample]
    /\ failures = 0 /\ resets = 0
    /\ sent = 0 /\ counted = 0 /\ used = 0 /\ charged = 0 /\ first = -1
    /\ lossy = FALSE
    /\ author = Nobody /\ served = {}

-----------------------------------------------------------------------------
(* The kernel                                                              *)

Pass ==
    \E b \in workload.busy, i \in workload.idle,
       r \in workload.bytes, p \in workload.jiffies :
        /\ now < MaxTime
        /\ cpu.idle + i >= 0
        /\ r > 0 => net.there
        /\ p > 0 => proc.pid # 0
        /\ now' = now + 1
        /\ cpu' = [busy |-> cpu.busy + b, idle |-> cpu.idle + i]
        /\ net' = [net EXCEPT !.rx = @ + r]
        /\ proc' = [proc EXCEPT !.jiffies = @ + p]
        /\ sent' = sent + r /\ used' = used + p
        /\ UNCHANGED <<workload, holder, prevCPU, prevNet, prevProc, stage, at, snap,
                       failures, resets, lossy, history>>

\* The interface goes away, or comes back with its counter at zero.
NetChange ==
    /\ "net" \in workload.changes
    /\ resets < MaxResets
    /\ resets' = resets + 1
    /\ net' = [there |-> ~net.there, rx |-> 0]
    /\ lossy' = TRUE
    /\ UNCHANGED <<workload, now, cpu, proc, sent, used, holder, prevCPU, prevNet, prevProc,
                   stage, at, snap, failures, history>>

\* The watched process stops, or starts anew, perhaps with an id used before.
ProcChange ==
    /\ "proc" \in workload.changes
    /\ resets < MaxResets
    /\ resets' = resets + 1
    /\ proc' \in IF proc.pid # 0 THEN {[pid |-> 0, jiffies |-> 0]}
                 ELSE {[pid |-> p, jiffies |-> 0] : p \in Pids}
    /\ UNCHANGED <<workload, now, cpu, net, sent, used, holder, prevCPU, prevNet, prevProc,
                   stage, at, snap, failures, lossy, history>>

-----------------------------------------------------------------------------
(* Reader                                                                  *)

\* Subtraction of uint64.
minus(a, b) == (a - b) % Word

\* idle stands for idle and iowait, busy for the other six fields of a line.
total(c) == c.busy + c.idle

\* Mutated form: the percentage is not clamped.
pctBusy_unclamped(prev, cur) ==
    LET dt == minus(total(cur), total(prev))
        db == minus(cur.busy, prev.busy)
    IN  IF dt = 0 THEN 0 ELSE (db * 100) \div dt

pctBusy(prev, cur) ==
    LET dt == minus(total(cur), total(prev))
        db == minus(cur.busy, prev.busy)
        v  == (db * 100) \div dt
    IN  IF dt = 0 THEN 0 ELSE IF v > 100 THEN 100 ELSE v

\* Mutated form: the shortest interval that gives a rate is a unit longer.
long_enough_2(dt) == dt > 2

\* A rate needs more than 0.05 s: more than one unit.
long_enough(dt) == dt > 1

\* Mutated form: a counter that went backwards is not noticed.
grown_wrapping(prev, cur) == minus(cur, prev)

\* What a counter grew by; a counter that went backwards counts for nothing.
grown(prev, cur) == IF cur >= prev THEN cur - prev ELSE 0

rate_of(prev, rx) ==
    IF prev # NoSample /\ long_enough(at - prev.at)
    THEN [bytes |-> grown(prev.rx, rx), dt |-> at - prev.at]
    ELSE NoRate

\* The jiffies behind CPUPct, for a process seen before under the same id.
charge(prev, cur) ==
    IF cur.pid \in DOMAIN prev /\ long_enough(at - prev[cur.pid].at)
    THEN grown(prev[cur.pid].jiffies, cur.jiffies)
    ELSE 0

\* The deferred r.mu.Unlock; the locals are gone.
Unlock ==
    /\ holder' = Nobody
    /\ stage' = "idle"
    /\ at' = 0
    /\ snap' = EmptySnap

Fail ==
    /\ failures < MaxFailures
    /\ failures' = failures + 1
    /\ Unlock

Begin(c) ==
    /\ holder = Nobody
    /\ holder' = c
    /\ at' = now
    /\ snap' = EmptySnap
    /\ stage' = "cpu"
    /\ UNCHANGED <<kernel, prevCPU, prevNet, prevProc, failures, lossy, history>>

readCPU ==
    /\ stage = "cpu"
    /\ \/ /\ Fail
          /\ UNCHANGED <<prevCPU, author>>
       \/ /\ snap' = [snap EXCEPT !.busy_pct = IF prevCPU = NoSample THEN 0
                                               ELSE pctBusy(prevCPU, cpu)]
          /\ prevCPU' = cpu /\ author' = holder
          /\ stage' = "memory"
          /\ UNCHANGED <<holder, at, failures>>
    /\ UNCHANGED <<kernel, prevNet, prevProc, lossy, counted, charged, first, served>>

readMemory ==
    /\ stage = "memory"
    /\ \/ Fail
       \/ stage' = "net" /\ UNCHANGED <<holder, at, snap, failures>>
    /\ UNCHANGED <<kernel, prevCPU, prevNet, prevProc, lossy, history>>

readNet ==
    /\ stage = "net"
    /\ \/ /\ Fail
          /\ UNCHANGED <<prevNet, lossy, counted, first>>
       \/ /\ stage' = "processes"
          /\ UNCHANGED <<holder, at, failures>>
          /\ IF net.there
             THEN LET rate == rate_of(prevNet, net.rx)
                  IN  /\ prevNet' = [at |-> at, rx |-> net.rx]
                      /\ snap' = [snap EXCEPT !.rate = rate]
                      /\ counted' = counted + rate.bytes
                      /\ first' = IF prevNet = NoSample THEN sent ELSE first
                      /\ lossy' = (lossy \/ (prevNet # NoSample /\ at - prevNet.at <= 1))
             ELSE UNCHANGED <<prevNet, snap, lossy, counted, first>>
    /\ UNCHANGED <<kernel, prevCPU, prevProc, charged, author, served>>

\* handleSystem and SystemCollector.Collect hand on the whole of a snapshot
\* that was taken without an error, and nothing otherwise.
Publish == served' = served \cup {holder}

\* Then Snapshot returns.  The process found by its name may be gone when
\* its stat file is read.
readProcesses ==
    /\ stage = "processes"
    /\ \/ /\ proc.pid # 0
          /\ charged' = charged + charge(prevProc, proc)
          /\ prevProc' = [p \in DOMAIN prevProc \cup {proc.pid} |->
                            IF p = proc.pid THEN [at |-> at, jiffies |-> proc.jiffies]
                            ELSE prevProc[p]]
       \/ UNCHANGED <<charged, prevProc>>
    /\ Publish
    /\ Unlock
    /\ UNCHANGED <<kernel, prevCPU, prevNet, failures, lossy, counted, first, author>>

Next == \/ Pass \/ NetChange \/ ProcChange
        \/ \E c \in Callers : Begin(c)
        \/ readCPU \/ readMemory \/ readNet \/ readProcesses

Spec == Init /\ [][Next]_vars

-----------------------------------------------------------------------------
(* Properties                                                              *)

\* busy_pct stays within its documented 0..100 although the counters are
\* unsigned and the kernel may take iowait back, so that total can fall, or
\* grow by less than busy.
PercentInRange == snap.busy_pct \in 0 .. 100

\* However many callers share the Reader, fail half way, or see a counter
\* start anew, the rates of all snapshots together never account for a byte
\* twice, nor CPU% for a jiffy.
NothingCountedTwice == counted <= sent /\ charged <= used

\* Nothing is lost either while the interface stays and snapshots keep more
\* than 50 ms apart, failed ones in between included: the rates add up to
\* what was received from the first baseline to the last.
NothingLost ==
    ~lossy /\ prevNet # NoSample => first + counted = prevNet.rx

\* The help text of the CPU gauges, "since the last scrape": a scrape after the
\* first is measured from the baseline that the collector's own last snapshot
\* left, not from one that somebody else took in between.
SinceLastScrape ==
    stage = "cpu" /\ holder = Collector /\ Collector \in served => author = Collector
=============================================================================
