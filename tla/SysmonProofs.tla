---------------------------- MODULE SysmonProofs ----------------------------
(***************************************************************************)
(* Proofs about sysmon.Reader for any number of callers, any workload and  *)
(* any bounds: what its percentages and rates say, whoever shares it.      *)
(***************************************************************************)
EXTENDS Sysmon, TLAPS

-----------------------------------------------------------------------------
(* Facts about the operators                                               *)

\* A difference of unsigned counters is a counter.
LEMMA MinusInRange ==
    ASSUME NEW a \in Int, NEW b \in Int
    PROVE  minus(a, b) \in Nat
  <1>1. Word \in Nat /\ Word > 0
    BY SysmonAssumption
  <1> QED
    BY <1>1 DEF minus

\* pctBusy is a percentage whatever the two samples are, also if the total has
\* gone backwards in between and the differences wrap around.
LEMMA PercentOfAnySamples ==
    ASSUME NEW prev \in [busy : Int, idle : Int], NEW cur \in [busy : Int, idle : Int]
    PROVE  pctBusy(prev, cur) \in 0 .. 100
  <1> DEFINE dt == minus(total(cur), total(prev))
             db == minus(cur.busy, prev.busy)
             v  == (db * 100) \div dt
  <1>1. dt \in Nat /\ db \in Nat
    <2>1. total(cur) \in Int /\ total(prev) \in Int
      BY DEF total
    <2>2. cur.busy \in Int /\ prev.busy \in Int
      OBVIOUS
    <2> QED
      BY <2>1, <2>2, MinusInRange
  <1> HIDE DEF dt, db
  <1>2. dt # 0 => v \in Nat
    <2>1. db * 100 \in Nat
      BY <1>1
    <2>2. ASSUME NEW x \in Nat, NEW y \in Nat, y # 0
          PROVE  x \div y \in Nat
      BY <2>2
    <2> QED
      BY <1>1, <2>1, <2>2
  <1> HIDE DEF v
  <1>3. (IF dt = 0 THEN 0 ELSE IF v > 100 THEN 100 ELSE v) \in 0 .. 100
    BY <1>2
  <1> QED
    BY <1>3 DEF pctBusy, dt, db, v

\* What a counter grew by is never negative, is nothing after a reset, and one
\* more unit on the counter adds at most that unit.
LEMMA GrownFacts ==
    ASSUME NEW prev \in Nat, NEW cur \in Nat, NEW r \in Nat
    PROVE  /\ grown(prev, cur) \in Nat
           /\ grown(prev, 0) = 0
           /\ grown(cur, cur) = 0
           /\ grown(prev, cur + r) <= grown(prev, cur) + r
           /\ prev <= cur => prev + grown(prev, cur) = cur
  BY DEF grown

-----------------------------------------------------------------------------
(* The kernel's counters and the samples taken of them                     *)

KernelTyped ==
    /\ workload \in Workloads
    /\ now \in Nat
    /\ cpu \in [busy : Int, idle : Int]
    /\ net \in [there : BOOLEAN, rx : Nat]
    /\ proc \in [pid : Nat, jiffies : Nat]
    /\ sent \in Nat /\ used \in Nat

Rate == [bytes : Nat, dt : Int]

ReaderTyped ==
    /\ at \in Nat
    /\ snap \in [busy_pct : 0 .. 100, rate : Rate]
    /\ prevCPU # NoSample => prevCPU \in [busy : Int, idle : Int]
    /\ prevNet # NoSample => prevNet \in [at : Nat, rx : Nat]
    /\ \A p \in DOMAIN prevProc : prevProc[p] \in [at : Nat, jiffies : Nat]
    /\ counted \in Nat /\ charged \in Nat /\ first \in Int

TypeInv == KernelTyped /\ ReaderTyped

\* A fresh Reader on a fresh kernel.
LEMMA TypeInit == Init => TypeInv
  BY DEF Init, TypeInv, KernelTyped, ReaderTyped, EmptySnap, NoRate, Rate

\* The types hold at every step.
LEMMA TypeStep == TypeInv /\ [Next]_vars => TypeInv'
  <1> SUFFICES ASSUME TypeInv, [Next]_vars PROVE TypeInv'
    OBVIOUS
  <1> USE DEF kernel, history
  <1>1. CASE UNCHANGED vars
    BY <1>1 DEF vars, TypeInv, KernelTyped, ReaderTyped
  <1>2. CASE Pass
    <2>1. PICK b \in workload.busy, i \in workload.idle,
               r \in workload.bytes, p \in workload.jiffies :
            /\ now' = now + 1
            /\ cpu' = [busy |-> cpu.busy + b, idle |-> cpu.idle + i]
            /\ net' = [net EXCEPT !.rx = @ + r]
            /\ proc' = [proc EXCEPT !.jiffies = @ + p]
            /\ sent' = sent + r /\ used' = used + p
            /\ UNCHANGED <<workload, holder, prevCPU, prevNet, prevProc, stage, at,
                           snap, failures, resets, lossy, history>>
      BY <1>2 DEF Pass
    <2>2. b \in Nat /\ i \in Int /\ r \in Nat /\ p \in Nat
      BY SysmonAssumption DEF TypeInv, KernelTyped
    <2>3. KernelTyped'
      BY <2>1, <2>2 DEF TypeInv, KernelTyped
    <2> QED
      BY <2>1, <2>3 DEF TypeInv, ReaderTyped
  <1>3. CASE NetChange
    BY <1>3 DEF NetChange, TypeInv, KernelTyped, ReaderTyped
  <1>4. CASE ProcChange
    <2>1. proc' \in [pid : Nat, jiffies : Nat]
      BY <1>4, SysmonAssumption DEF ProcChange
    <2> QED
      BY <1>4, <2>1 DEF ProcChange, TypeInv, KernelTyped, ReaderTyped
  <1>5. ASSUME NEW c \in Callers, Begin(c) PROVE TypeInv'
    BY <1>5 DEF Begin, TypeInv, KernelTyped, ReaderTyped, EmptySnap, NoRate, Rate
  <1>6. CASE readCPU
    <2> DEFINE v == IF prevCPU = NoSample THEN 0 ELSE pctBusy(prevCPU, cpu)
    <2>1. v \in 0 .. 100
      BY PercentOfAnySamples DEF TypeInv, KernelTyped, ReaderTyped
    <2>2. Unlock \/ (UNCHANGED at /\ snap' = [snap EXCEPT !.busy_pct = v])
      BY <1>6 DEF readCPU, Fail, Unlock
    <2> HIDE DEF v
    <2>3. at' \in Nat /\ snap' \in [busy_pct : 0 .. 100, rate : Rate]
      BY <2>1, <2>2 DEF Unlock, EmptySnap, NoRate, Rate, TypeInv, ReaderTyped
    <2>4. prevCPU' \in {prevCPU, cpu}
      BY <1>6 DEF readCPU
    <2> QED
      BY <1>6, <2>3, <2>4 DEF readCPU, TypeInv, KernelTyped, ReaderTyped
  <1>7. CASE readMemory
    BY <1>7 DEF readMemory, Fail, Unlock, EmptySnap, NoRate, Rate, TypeInv, KernelTyped, ReaderTyped
  <1>8. CASE readNet
    <2> DEFINE rate == rate_of(prevNet, net.rx)
    <2>1. rate \in Rate
      <3>1. prevNet # NoSample => /\ grown(prevNet.rx, net.rx) \in Nat
                                  /\ at - prevNet.at \in Int
        <4>1. net.rx \in Nat /\ at \in Nat
          BY DEF TypeInv, KernelTyped, ReaderTyped
        <4>2. prevNet # NoSample => prevNet.rx \in Nat /\ prevNet.at \in Nat
          BY DEF TypeInv, ReaderTyped
        <4> QED
          BY <4>1, <4>2 DEF grown
      <3> QED
        BY <3>1 DEF rate_of, NoRate, Rate
    <2>2. /\ \/ Unlock /\ UNCHANGED <<prevNet, counted, first>>
             \/ /\ UNCHANGED at
                /\ prevNet' = [at |-> at, rx |-> net.rx]
                /\ snap' = [snap EXCEPT !.rate = rate]
                /\ counted' = counted + rate.bytes
                /\ first' \in {sent, first}
             \/ UNCHANGED <<at, prevNet, snap, counted, first>>
          /\ UNCHANGED <<kernel, prevCPU, prevProc, charged>>
      BY <1>8 DEF readNet, Fail
    <2> HIDE DEF rate
    <2>3. /\ at' \in Nat /\ snap' \in [busy_pct : 0 .. 100, rate : Rate]
          /\ prevNet' # NoSample => prevNet' \in [at : Nat, rx : Nat]
          /\ counted' \in Nat /\ first' \in Int
      BY <2>1, <2>2 DEF Unlock, EmptySnap, NoRate, Rate, TypeInv, KernelTyped, ReaderTyped
    <2> QED
      BY <2>2, <2>3 DEF TypeInv, KernelTyped, ReaderTyped
  <1>9. CASE readProcesses
    <2>1. charge(prevProc, proc) \in Nat
      BY GrownFacts DEF charge, TypeInv, KernelTyped, ReaderTyped
    <2> DEFINE sample == [at |-> at, jiffies |-> proc.jiffies]
    <2>2. sample \in [at : Nat, jiffies : Nat]
      BY DEF TypeInv, KernelTyped, ReaderTyped
    <2> HIDE DEF sample
    <2>3. \/ prevProc' = prevProc
          \/ prevProc' = [p \in DOMAIN prevProc \cup {proc.pid} |->
                             IF p = proc.pid THEN sample ELSE prevProc[p]]
      BY <1>9 DEF readProcesses, sample
    <2>4. \A p \in DOMAIN prevProc' : prevProc'[p] \in [at : Nat, jiffies : Nat]
      BY <2>2, <2>3 DEF TypeInv, ReaderTyped
    <2>5. /\ at' \in Nat /\ snap' \in [busy_pct : 0 .. 100, rate : Rate]
          /\ charged' \in Nat
      BY <1>9, <2>1 DEF readProcesses, Unlock, EmptySnap, NoRate, Rate, TypeInv, ReaderTyped
    <2> QED
      BY <1>9, <2>4, <2>5 DEF readProcesses, TypeInv, KernelTyped, ReaderTyped
  <1> QED
    BY <1>1, <1>2, <1>3, <1>4, <1>5, <1>6, <1>7, <1>8, <1>9 DEF Next

\* busy_pct is a percentage in every snapshot, whatever the kernel's counters do.
THEOREM PercentCorrect == Spec => []PercentInRange
  <1>1. TypeInv => PercentInRange
    BY DEF TypeInv, ReaderTyped, PercentInRange
  <1> QED
    BY <1>1, TypeInit, TypeStep, PTL DEF Spec

-----------------------------------------------------------------------------
(* Rates.  The rates published so far and the one that a snapshot would    *)
(* publish now together stay within what was received; the same goes for   *)
(* the CPU time of the watched process, under whatever id it runs.         *)

PendingBytes   == IF prevNet = NoSample THEN 0 ELSE grown(prevNet.rx, net.rx)
PendingJiffies == IF proc.pid \in DOMAIN prevProc
                  THEN grown(prevProc[proc.pid].jiffies, proc.jiffies) ELSE 0

BytesInv   == counted + PendingBytes <= sent
JiffiesInv == charged + PendingJiffies <= used

\* While nothing was lost, the interface's counter is what was received, the
\* baseline is behind it, and the rates reach from the first baseline to the last.
LosslessInv ==
    /\ prevNet = NoSample => counted = 0
    /\ ~lossy => /\ net.rx = sent
                 /\ prevNet # NoSample => prevNet.rx <= net.rx
    /\ NothingLost

\* A pending difference is a number, and nothing once a sample is fresh.
LEMMA PendingFacts ==
    ASSUME TypeInv
    PROVE  PendingBytes \in Nat /\ PendingJiffies \in Nat
  BY GrownFacts DEF TypeInv, KernelTyped, ReaderTyped, PendingBytes, PendingJiffies

\* No step makes the rates run ahead of the traffic.
LEMMA BytesStep == TypeInv /\ BytesInv /\ [Next]_vars => BytesInv'
  <1> SUFFICES ASSUME TypeInv, BytesInv, [Next]_vars PROVE BytesInv'
    OBVIOUS
  <1> USE DEF kernel, history
  <1>1. /\ counted \in Nat /\ sent \in Nat /\ net.rx \in Nat /\ PendingBytes \in Nat
        /\ prevNet # NoSample => prevNet.rx \in Nat
    BY PendingFacts DEF TypeInv, KernelTyped, ReaderTyped
  <1>2. ASSUME UNCHANGED <<prevNet, net, counted, sent>> PROVE BytesInv'
    BY <1>2 DEF BytesInv, PendingBytes
  <1>3. CASE Pass
    <2>1. PICK r \in workload.bytes : /\ net' = [net EXCEPT !.rx = @ + r]
                                      /\ sent' = sent + r
                                      /\ UNCHANGED <<prevNet, counted>>
      BY <1>3 DEF Pass
    <2>2. r \in Nat
      BY SysmonAssumption DEF TypeInv, KernelTyped
    <2>3. net'.rx = net.rx + r
      BY <2>1 DEF TypeInv, KernelTyped
    <2>4. PendingBytes' \in Nat /\ PendingBytes' <= PendingBytes + r
      <3>1. CASE prevNet = NoSample
        BY <2>1, <2>2, <3>1 DEF PendingBytes
      <3>2. CASE prevNet # NoSample
        <4>1. grown(prevNet.rx, net.rx + r) <= grown(prevNet.rx, net.rx) + r
          BY <1>1, <2>2, <3>2, GrownFacts
        <4>2. grown(prevNet.rx, net.rx + r) \in Nat
          BY <1>1, <2>2, <3>2 DEF grown
        <4> QED
          BY <2>1, <2>3, <3>2, <4>1, <4>2 DEF PendingBytes
      <3> QED
        BY <3>1, <3>2
    <2> QED
      BY <1>1, <2>1, <2>2, <2>4 DEF BytesInv
  <1>4. CASE NetChange
    <2>1. net'.rx = 0 /\ UNCHANGED <<prevNet, counted, sent>>
      BY <1>4 DEF NetChange
    <2>2. PendingBytes' = 0
      BY <1>1, <2>1, GrownFacts DEF PendingBytes
    <2> QED
      BY <1>1, <2>1, <2>2 DEF BytesInv
  <1>5. CASE readNet
    <2>1. CASE UNCHANGED <<prevNet, counted>>
      BY <1>2, <1>5, <2>1 DEF readNet
    <2>2. CASE ~UNCHANGED <<prevNet, counted>>
      <3> DEFINE rate == rate_of(prevNet, net.rx)
      <3>1. /\ prevNet' = [at |-> at, rx |-> net.rx]
            /\ counted' = counted + rate.bytes
            /\ UNCHANGED <<net, sent>>
        BY <1>5, <2>2 DEF readNet
      <3>2. rate.bytes = 0 \/ rate.bytes = PendingBytes
        BY DEF rate_of, NoRate, PendingBytes
      <3> HIDE DEF rate
      <3>3. PendingBytes' = 0
        BY <1>1, <3>1, GrownFacts DEF PendingBytes
      <3> QED
        BY <1>1, <3>1, <3>2, <3>3 DEF BytesInv
    <2> QED
      BY <2>1, <2>2
  <1>6. CASE UNCHANGED vars \/ ProcChange \/ (\E c \in Callers : Begin(c))
             \/ readCPU \/ readMemory \/ readProcesses
    BY <1>2, <1>6 DEF vars, ProcChange, Begin, readCPU, readMemory, readProcesses
  <1> QED
    BY <1>3, <1>4, <1>5, <1>6 DEF Next

\* No step charges a process for more than it has used, also if its id was
\* another's before.
LEMMA JiffiesStep == TypeInv /\ JiffiesInv /\ [Next]_vars => JiffiesInv'
  <1> SUFFICES ASSUME TypeInv, JiffiesInv, [Next]_vars PROVE JiffiesInv'
    OBVIOUS
  <1> USE DEF kernel, history
  <1>1. /\ charged \in Nat /\ used \in Nat /\ proc.jiffies \in Nat
        /\ PendingJiffies \in Nat
        /\ \A p \in DOMAIN prevProc : prevProc[p].jiffies \in Nat
    BY PendingFacts DEF TypeInv, KernelTyped, ReaderTyped
  <1>2. ASSUME UNCHANGED <<prevProc, proc, charged, used>> PROVE JiffiesInv'
    BY <1>2 DEF JiffiesInv, PendingJiffies
  <1>3. CASE Pass
    <2>1. PICK p \in workload.jiffies : /\ proc' = [proc EXCEPT !.jiffies = @ + p]
                                        /\ used' = used + p
                                        /\ UNCHANGED <<prevProc, charged>>
      BY <1>3 DEF Pass
    <2>2. p \in Nat
      BY SysmonAssumption DEF TypeInv, KernelTyped
    <2>3. proc'.jiffies = proc.jiffies + p /\ proc'.pid = proc.pid
      BY <2>1 DEF TypeInv, KernelTyped
    <2>4. PendingJiffies' \in Nat /\ PendingJiffies' <= PendingJiffies + p
      <3>1. CASE proc.pid \notin DOMAIN prevProc
        BY <2>1, <2>2, <2>3, <3>1 DEF PendingJiffies
      <3>2. CASE proc.pid \in DOMAIN prevProc
        <4> DEFINE j == prevProc[proc.pid].jiffies
        <4>1. grown(j, proc.jiffies + p) <= grown(j, proc.jiffies) + p
          BY <1>1, <2>2, <3>2, GrownFacts
        <4>2. grown(j, proc.jiffies + p) \in Nat
          BY <1>1, <2>2, <3>2 DEF grown
        <4> QED
          BY <2>1, <2>3, <3>2, <4>1, <4>2 DEF PendingJiffies
      <3> QED
        BY <3>1, <3>2
    <2> QED
      BY <1>1, <2>1, <2>2, <2>4 DEF JiffiesInv
  <1>4. CASE ProcChange
    <2>1. proc'.jiffies = 0 /\ UNCHANGED <<prevProc, charged, used>>
      BY <1>4 DEF ProcChange
    <2>2. PendingJiffies' = 0
      BY <1>1, <2>1, GrownFacts DEF PendingJiffies
    <2> QED
      BY <1>1, <2>1, <2>2 DEF JiffiesInv
  <1>5. CASE readProcesses
    <2>1. CASE UNCHANGED <<charged, prevProc>>
      BY <1>2, <1>5, <2>1 DEF readProcesses
    <2>2. CASE ~UNCHANGED <<charged, prevProc>>
      <3> DEFINE sample == [at |-> at, jiffies |-> proc.jiffies]
                 c      == charge(prevProc, proc)
      <3>1. /\ prevProc' = [p \in DOMAIN prevProc \cup {proc.pid} |->
                               IF p = proc.pid THEN sample ELSE prevProc[p]]
            /\ charged' = charged + c
            /\ UNCHANGED <<proc, used>>
        BY <1>5, <2>2 DEF readProcesses
      <3>2. c = 0 \/ c = PendingJiffies
        BY DEF charge, PendingJiffies
      <3> HIDE DEF c
      <3>3. PendingJiffies' = 0
        <4>1. prevProc'[proc.pid].jiffies = proc.jiffies
          BY <3>1
        <4> QED
          BY <1>1, <3>1, <4>1, GrownFacts DEF PendingJiffies
      <3> QED
        BY <1>1, <3>1, <3>2, <3>3 DEF JiffiesInv
    <2> QED
      BY <2>1, <2>2
  <1>6. CASE UNCHANGED vars \/ NetChange \/ (\E c \in Callers : Begin(c))
             \/ readCPU \/ readMemory \/ readNet
    BY <1>2, <1>6 DEF vars, NetChange, Begin, readCPU, readMemory, readNet
  <1> QED
    BY <1>3, <1>4, <1>5, <1>6 DEF Next

\* However many callers share the Reader, the rates and CPU percentages of all
\* snapshots never account for a byte or a jiffy twice.
THEOREM CountedOnceCorrect == Spec => []NothingCountedTwice
  <1>1. Init => BytesInv /\ JiffiesInv
    BY DEF Init, BytesInv, JiffiesInv, PendingBytes, PendingJiffies
  <1>2. TypeInv /\ BytesInv /\ JiffiesInv => NothingCountedTwice
    <2> SUFFICES ASSUME TypeInv, BytesInv, JiffiesInv PROVE NothingCountedTwice
      OBVIOUS
    <2>1. /\ counted \in Nat /\ sent \in Nat /\ charged \in Nat /\ used \in Nat
          /\ PendingBytes \in Nat /\ PendingJiffies \in Nat
      BY PendingFacts DEF TypeInv, KernelTyped, ReaderTyped
    <2> QED
      BY <2>1 DEF BytesInv, JiffiesInv, NothingCountedTwice
  <1> QED
    BY <1>1, <1>2, TypeInit, TypeStep, BytesStep, JiffiesStep, PTL DEF Spec

\* Every step that loses bytes says so.
LEMMA LosslessStep == TypeInv /\ LosslessInv /\ [Next]_vars => LosslessInv'
  <1> SUFFICES ASSUME TypeInv, LosslessInv, [Next]_vars PROVE LosslessInv'
    OBVIOUS
  <1> USE DEF kernel, history, LosslessInv, NothingLost
  <1>1. /\ counted \in Nat /\ sent \in Nat /\ net.rx \in Nat /\ at \in Nat
        /\ first \in Int
        /\ prevNet # NoSample => prevNet.rx \in Nat /\ prevNet.at \in Nat
    BY DEF TypeInv, KernelTyped, ReaderTyped
  <1>2. ASSUME UNCHANGED <<prevNet, net, counted, sent, first, lossy>>
        PROVE  LosslessInv'
    BY <1>2
  <1>3. CASE Pass
    <2>1. PICK r \in workload.bytes : /\ net' = [net EXCEPT !.rx = @ + r]
                                      /\ sent' = sent + r
                                      /\ UNCHANGED <<prevNet, counted, first, lossy>>
      BY <1>3 DEF Pass
    <2>2. r \in Nat
      BY SysmonAssumption DEF TypeInv, KernelTyped
    <2>3. net'.rx = net.rx + r
      BY <2>1 DEF TypeInv, KernelTyped
    <2> QED
      BY <1>1, <2>1, <2>2, <2>3
  <1>4. CASE NetChange
    BY <1>4 DEF NetChange
  <1>5. CASE readNet
    <2>1. CASE UNCHANGED <<prevNet, counted, first, lossy>>
      BY <1>2, <1>5, <2>1 DEF readNet
    <2>2. CASE ~UNCHANGED <<prevNet, counted, first, lossy>>
      <3> DEFINE rate == rate_of(prevNet, net.rx)
      <3>1. /\ prevNet' = [at |-> at, rx |-> net.rx]
            /\ counted' = counted + rate.bytes
            /\ first' = IF prevNet = NoSample THEN sent ELSE first
            /\ lossy' = (lossy \/ (prevNet # NoSample /\ at - prevNet.at <= 1))
            /\ UNCHANGED <<net, sent>>
        BY <1>5, <2>2 DEF readNet
      <3> HIDE DEF rate
      <3>2. prevNet' # NoSample /\ prevNet'.rx = net.rx
        <4>1. prevNet' \in [at : Nat, rx : Nat]
          BY <1>1, <3>1
        <4> QED
          BY <3>1, <4>1, SysmonAssumption
      <3>3. CASE prevNet = NoSample
        <4>1. rate.bytes = 0
          BY <3>3 DEF rate_of, NoRate, rate
        <4>2. ~lossy' => ~lossy
          BY <3>1, Zenon
        <4>3. ~lossy' => net.rx = sent
          BY <4>2
        <4>4. counted' = 0 /\ first' = sent
          BY <3>1, <3>3, <4>1
        <4> QED
          BY <1>1, <3>1, <3>2, <4>3, <4>4
      <3>4. CASE prevNet # NoSample
        <4>1. CASE lossy'
          BY <3>1, <3>2, <4>1
        <4>2. CASE ~lossy'
          <5>1. ~lossy /\ at - prevNet.at > 1
            <6>1. ~lossy /\ ~(at - prevNet.at <= 1)
              BY <3>1, <3>4, <4>2, Zenon
            <6> QED
              BY <1>1, <3>4, <6>1
          <5>2. rate.bytes = grown(prevNet.rx, net.rx)
            BY <3>4, <5>1 DEF rate_of, long_enough, rate
          <5>3. prevNet.rx + rate.bytes = net.rx /\ rate.bytes \in Nat
            BY <1>1, <3>4, <5>1, <5>2 DEF grown
          <5> QED
            BY <1>1, <3>1, <3>2, <3>4, <5>1, <5>3
        <4> QED
          BY <4>1, <4>2
      <3> QED
        BY <3>3, <3>4
    <2> QED
      BY <2>1, <2>2
  <1>6. CASE UNCHANGED vars \/ ProcChange \/ (\E c \in Callers : Begin(c))
             \/ readCPU \/ readMemory \/ readProcesses
    BY <1>2, <1>6 DEF vars, ProcChange, Begin, readCPU, readMemory, readProcesses
  <1> QED
    BY <1>3, <1>4, <1>5, <1>6 DEF Next

\* As long as the interface stays and snapshots keep more than 50 ms apart, the
\* rates add up to everything that was received between the first and the last
\* baseline.
THEOREM NothingLostCorrect == Spec => []NothingLost
  <1>1. Init => LosslessInv
    BY DEF Init, LosslessInv, NothingLost
  <1>2. LosslessInv => NothingLost
    BY DEF LosslessInv
  <1> QED
    BY <1>1, <1>2, TypeInit, TypeStep, LosslessStep, PTL DEF Spec
=============================================================================
