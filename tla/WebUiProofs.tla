---------------------------- MODULE WebUiProofs ----------------------------
(***************************************************************************)
(* For any number of visits, rotations, restarts, failures and stored      *)
(* entries: the key on display never goes back, the stored history is true *)
(* and, unless a rotation outlived its page, complete.                     *)
(***************************************************************************)
EXTENDS WebUi, SequenceTheorems, TLAPS

-----------------------------------------------------------------------------
(* The inductive invariant                                                 *)

Key      == KeyIds \cup {0, 1}
Report   == [key : Key, version : Nat]
Rotation == [n : Nat \ {0}, key : Key]
Call     == [n : Nat, key : Key, answer : {"none", "ok", "refused", "lost"}]
Entry    == [n : Nat, key_id : Key, ok : BOOLEAN]
Poll     == [state : {"free", "asked", "answered", "failed"}, report : Report]

Typed ==
    /\ active \in Report
    /\ waiting \subseteq Rotation
    /\ rotations \in Nat
    /\ visits \in Nat /\ visits <= MaxVisits
    /\ mounted \in 0 .. visits
    /\ keyId \in [Visits -> Key]
    /\ calls \in [Visits -> Call]
    /\ history \in [Visits -> Seq(Entry)]
    /\ storage \in Seq(Entry)
    /\ finished \in Seq(Nat)

\* One tick is under way at a time, and none while the timer is set; its report
\* is not older than the one on display.
PollInv ==
    /\ status \in Report
    /\ poll \in [Polls -> Poll]
    /\ status.version <= active.version
    /\ timer => \A p \in Polls : poll[p].state = "free"
    /\ \A p, q \in Polls : poll[p].state # "free" /\ poll[q].state # "free" => p = q
    /\ \A p \in Polls : poll[p].state = "answered" =>
          /\ status.version <= poll[p].report.version
          /\ poll[p].report.version <= active.version

\* Numbers of rotations are fresh, a call and its request on the way name the
\* same key, and every list says ok only of rotations that took effect.
TrueList(h, done) ==
    \A j \in DOMAIN h : h[j].ok => [n |-> h[j].n, key |-> h[j].key_id] \in done

TruthInv ==
    /\ \A r \in waiting : r.n <= rotations
    /\ \A i \in Visits : calls[i].n <= rotations
    /\ \A i \in Visits, r \in waiting : calls[i].n = r.n => calls[i].key = r.key
    /\ \A i \in Visits : calls[i].answer = "ok" =>
          [n |-> calls[i].n, key |-> calls[i].key] \in applied
    /\ \A i \in Visits : TrueList(history[i], applied)
    /\ TrueList(storage, applied)

\* Up to HistoryLimit entries, the list h and the numbers f end alike.
SameEnd(h, f) ==
    /\ Len(h) = Len(f) \/ (Len(h) >= HistoryLimit /\ Len(f) >= HistoryLimit)
    /\ \A j \in 0 .. HistoryLimit - 1 : j < Len(h) => h[Len(h) - j].n = f[Len(f) - j]

\* While no rotation has outlived its page, only the page on screen awaits one,
\* and its list and the stored one end as the rotations that returned.
CompleteInv ==
    /\ Len(storage) <= HistoryLimit
    /\ outlived \in BOOLEAN
    /\ ~outlived => /\ SameEnd(storage, finished)
                    /\ mounted # 0 => SameEnd(history[mounted], finished)
                    /\ \A i \in Visits : i # mounted => calls[i] = NoCall

-----------------------------------------------------------------------------
(* Types                                                                   *)

\* slice keeps the last HistoryLimit elements, in their order.
LEMMA SliceProperties ==
    ASSUME NEW S, NEW h \in Seq(S)
    PROVE  /\ slice(h) \in Seq(S)
           /\ Len(slice(h)) = IF Len(h) > HistoryLimit THEN HistoryLimit ELSE Len(h)
           /\ \A j \in 1 .. Len(slice(h)) :
                 slice(h)[j] = h[Len(h) - Len(slice(h)) + j]
  <1>1. Len(h) \in Nat /\ HistoryLimit \in Nat \ {0}
    BY WebUiAssumption
  <1>2. CASE Len(h) > HistoryLimit
    <2> DEFINE m == Len(h) - HistoryLimit + 1
    <2>1. m \in Int /\ Len(h) \in Int /\ m >= 1 /\ m <= Len(h)
      BY <1>1, <1>2
    <2>2. \A i \in m .. Len(h) : h[i] \in S
      BY <1>1, <2>1
    <2>3. slice(h) = SubSeq(h, m, Len(h))
      BY <1>2 DEF slice
    <2> HIDE DEF m
    <2>4. /\ SubSeq(h, m, Len(h)) \in Seq(S)
          /\ Len(SubSeq(h, m, Len(h))) = IF m <= Len(h) THEN Len(h) - m + 1 ELSE 0
          /\ \A i \in 1 .. Len(h) - m + 1 : SubSeq(h, m, Len(h))[i] = h[m + i - 1]
      BY <2>1, <2>2, SubSeqProperties
    <2>5. Len(slice(h)) = HistoryLimit
      BY <1>1, <2>1, <2>3, <2>4 DEF m
    <2> QED
      BY <1>1, <1>2, <2>3, <2>4, <2>5 DEF m
  <1>3. CASE ~(Len(h) > HistoryLimit)
    BY <1>1, <1>3 DEF slice
  <1> QED
    BY <1>2, <1>3

\* What a page that has just been loaded holds.
LEMMA InitTyped == Init => Typed
  BY WebUiAssumption, EmptySeq
     DEF Init, Typed, NoKey, Report, Key, NoCall, Call, Visits

\* Every step keeps the types.
LEMMA TypedStep == Typed /\ [Next]_vars => Typed'
  <1> SUFFICES ASSUME Typed, [Next]_vars PROVE Typed'
    OBVIOUS
  <1> USE DEF Typed, agent, poller, page, log
  <1>1. CASE HandleRotation
    <2>1. PICK r \in waiting, ok \in BOOLEAN :
             /\ waiting' = waiting \ {r}
             /\ active' = IF ok THEN [key |-> r.key, version |-> active.version + 1]
                          ELSE active
             /\ calls' = [i \in Visits |->
                            IF calls[i].n = r.n /\ calls[i].answer = "none"
                            THEN [calls[i] EXCEPT !.answer = IF ok THEN "ok" ELSE "refused"]
                            ELSE calls[i]]
             /\ UNCHANGED <<visits, mounted, keyId, history, storage, rotations, log>>
      BY <1>1 DEF HandleRotation
    <2>2. active' \in Report
      BY <2>1 DEF Report, Rotation
    <2>3. calls' \in [Visits -> Call]
      BY <2>1 DEF Call
    <2> QED
      BY <2>1, <2>2, <2>3
  <1>2. CASE DaemonRestarts
    BY <1>2 DEF DaemonRestarts, NoKey, Report, Key
  <1>3. ASSUME NEW p \in Polls, AnswerPoll(p) \/ Tick(p) \/ Settle(p)
        PROVE  Typed'
    BY <1>3 DEF AnswerPoll, Tick, Settle
  <1>4. CASE Mount
    <2>1. visits + 1 \in Visits /\ visits + 1 <= MaxVisits
      BY <1>4, WebUiAssumption DEF Mount, Visits
    <2> QED
      BY <1>4, <2>1 DEF Mount
  <1>5. CASE Unmount
    BY <1>5 DEF Unmount
  <1>6. CASE Edit
    BY <1>6 DEF Edit, Key
  <1>7. CASE Submit
    <2>1. mounted \in Visits
      BY <1>7, WebUiAssumption DEF Submit, Visits
    <2>2. keyId[mounted] \in Key
      BY <2>1
    <2>3. [n |-> rotations + 1, key |-> keyId[mounted], answer |-> "none"] \in Call
      BY <2>2 DEF Call
    <2>4. [n |-> rotations + 1, key |-> keyId[mounted]] \in Rotation
      BY <2>2 DEF Rotation
    <2>5. calls' \in [Visits -> Call]
      BY <1>7, <2>3 DEF Submit
    <2>6. waiting' \subseteq Rotation
      BY <1>7, <2>4 DEF Submit
    <2>7. rotations' \in Nat
      BY <1>7 DEF Submit
    <2> QED
      BY <1>7, <2>5, <2>6, <2>7 DEF Submit
  <1>8. CASE clearHistory
    <2>1. storage' = <<>>
      BY <1>8, SliceProperties, EmptySeq, WebUiAssumption
         DEF clearHistory, saveHistory, slice
    <2> QED
      BY <1>8, <2>1, EmptySeq DEF clearHistory
  <1>9. ASSUME NEW i \in Visits, LoseRotation(i) PROVE Typed'
    BY <1>9 DEF LoseRotation, Call
  <1>10. ASSUME NEW i \in Visits, RotateReturns(i) PROVE Typed'
    <2>1. entry(i) \in Entry
      BY DEF entry, Entry, Call
    <2>2. history[i] \in Seq(Entry)
      OBVIOUS
    <2>3. Append(history[i], entry(i)) \in Seq(Entry)
      BY <2>1, <2>2, AppendProperties
    <2>4. slice(Append(history[i], entry(i))) \in Seq(Entry)
      BY <2>3, SliceProperties
    <2>5. Append(finished, calls[i].n) \in Seq(Nat)
      BY AppendProperties DEF Call
    <2>6. NoCall \in Call
      BY DEF NoCall, Call, Key
    <2> QED
      BY <1>10, <2>3, <2>4, <2>5, <2>6 DEF RotateReturns, saveHistory
  <1>11. CASE UNCHANGED vars
    BY <1>11 DEF vars
  <1> QED
    BY <1>1, <1>2, <1>3, <1>4, <1>5, <1>6, <1>7, <1>8, <1>9, <1>10, <1>11 DEF Next

-----------------------------------------------------------------------------
(* The poller                                                              *)

\* Ticks do not overlap, so reports come in the order of their versions.
LEMMA PollStep == Typed /\ PollInv /\ [Next]_vars => PollInv'
  <1> SUFFICES ASSUME Typed, PollInv, [Next]_vars PROVE PollInv'
    OBVIOUS
  <1> USE DEF PollInv, agent, poller, page, log
  <1>0. active.version \in Nat /\ status.version \in Nat
    BY DEF Typed, Report
  <1>1. CASE HandleRotation \/ DaemonRestarts
    <2>1. active'.version = active.version \/ active'.version = active.version + 1
      BY <1>1 DEF HandleRotation, DaemonRestarts, NoKey
    <2>2. UNCHANGED <<timer, poll, status>>
      BY <1>1 DEF HandleRotation, DaemonRestarts
    <2>3. \A p \in Polls : poll[p].report.version \in Nat
      BY DEF Poll, Report
    <2> QED
      BY <1>0, <2>1, <2>2, <2>3
  <1>2. ASSUME NEW p \in Polls, AnswerPoll(p) PROVE PollInv'
    <2>1. poll[p] = [state |-> "asked", report |-> NoKey(0)]
      BY <1>2 DEF AnswerPoll, Asked
    <2>2. ~timer
      BY <2>1
    <2>3. UNCHANGED <<timer, status, active>>
      BY <1>2 DEF AnswerPoll
    <2>4. CASE poll' = [poll EXCEPT ![p] = [state |-> "answered", report |-> active]]
      BY <1>0, <2>1, <2>2, <2>3, <2>4 DEF Typed, Poll
    <2>5. CASE poll' = [poll EXCEPT ![p].state = "failed"]
      BY <2>1, <2>2, <2>3, <2>5 DEF Poll
    <2> QED
      BY <1>2, <2>4, <2>5 DEF AnswerPoll
  <1>3. ASSUME NEW p \in Polls, Tick(p) PROVE PollInv'
    <2>1. Asked \in Poll /\ Asked.state = "asked"
      BY DEF Asked, Poll, NoKey, Report, Key
    <2>2. \A q \in Polls : poll[q].state = "free"
      BY <1>3 DEF Tick
    <2>3. poll' = [poll EXCEPT ![p] = Asked] /\ timer' = FALSE
          /\ UNCHANGED <<status, active>>
      BY <1>3 DEF Tick
    <2> QED
      BY <2>1, <2>2, <2>3
  <1>4. ASSUME NEW p \in Polls, Settle(p) PROVE PollInv'
    <2>1. Free \in Poll /\ Free.state = "free"
      BY DEF Free, Poll, NoKey, Report, Key
    <2>2. \A q \in Polls : q # p => poll[q].state = "free"
      BY <1>4 DEF Settle
    <2>3. poll' = [poll EXCEPT ![p] = Free] /\ active' = active
      BY <1>4 DEF Settle
    <2>4. \A q \in Polls : poll'[q].state = "free"
      BY <2>1, <2>2, <2>3
    <2>5. status' \in Report /\ status'.version <= active.version
      BY <1>4 DEF Settle, Poll
    <2> QED
      BY <2>1, <2>3, <2>4, <2>5
  <1>5. CASE Mount \/ Unmount \/ Edit \/ Submit \/ clearHistory
    BY <1>5 DEF Mount, Unmount, Edit, Submit, clearHistory
  <1>6. ASSUME NEW i \in Visits, LoseRotation(i) \/ RotateReturns(i) PROVE PollInv'
    BY <1>6 DEF LoseRotation, RotateReturns
  <1>7. CASE UNCHANGED vars
    BY <1>7 DEF vars
  <1> QED
    BY <1>1, <1>2, <1>3, <1>4, <1>5, <1>6, <1>7 DEF Next

\* A step of the poller never puts an older report on display.
LEMMA DisplayStep ==
    Typed /\ PollInv /\ [Next]_vars => [status'.version >= status.version]_vars
  <1> SUFFICES ASSUME Typed, PollInv, Next PROVE status'.version >= status.version
    OBVIOUS
  <1>0. status.version \in Nat
    BY DEF PollInv, Report
  <1>1. ASSUME NEW p \in Polls, Settle(p) PROVE status'.version >= status.version
    <2>1. poll[p].report.version \in Nat
      BY DEF PollInv, Poll, Report
    <2> QED
      BY <1>0, <1>1, <2>1 DEF Settle, PollInv
  <1>2. (\A p \in Polls : ~Settle(p)) => status' = status
    BY DEF Next, HandleRotation, DaemonRestarts, AnswerPoll, Tick, Mount, Unmount, Edit,
           Submit, clearHistory, LoseRotation, RotateReturns, poller
  <1> QED
    BY <1>0, <1>1, <1>2

\* However long requests take and however often the key changes, the key on
\* display never goes back to an older one.
THEOREM DisplayCorrect == Spec => DisplayNeverGoesBack
  <1> DEFINE Inv == Typed /\ PollInv
  <1>1. Init => Inv
    <2> SUFFICES ASSUME Init PROVE PollInv
      BY InitTyped
    <2>1. Free \in Poll /\ Free.state = "free" /\ NoKey(0) \in Report
          /\ NoKey(0).version = 0
      BY DEF Free, Poll, NoKey, Report, Key
    <2> QED
      BY <2>1 DEF Init, PollInv
  <1>2. Inv /\ [Next]_vars => Inv'
    BY TypedStep, PollStep
  <1>3. Inv /\ [Next]_vars => [status'.version >= status.version]_vars
    BY DisplayStep
  <1> QED
    BY <1>1, <1>2, <1>3, PTL DEF Spec, DisplayNeverGoesBack

-----------------------------------------------------------------------------
(* The history is true                                                     *)

\* A true list stays true: rotations that took effect are never taken back,
\* an entry that is true may be added, and slice only drops entries.
LEMMA TrueLists ==
    ASSUME NEW h \in Seq(Entry), NEW done, TrueList(h, done)
    PROVE  /\ \A more : done \subseteq more => TrueList(h, more)
           /\ \A e \in Entry : (e.ok => [n |-> e.n, key |-> e.key_id] \in done)
                 => TrueList(Append(h, e), done)
           /\ TrueList(slice(h), done)
  <1>1. ASSUME NEW more, done \subseteq more PROVE TrueList(h, more)
    BY <1>1 DEF TrueList
  <1>2. ASSUME NEW e \in Entry, e.ok => [n |-> e.n, key |-> e.key_id] \in done
        PROVE  TrueList(Append(h, e), done)
    <2>1. ASSUME NEW j \in DOMAIN Append(h, e)
          PROVE  Append(h, e)[j] = e \/ (j \in DOMAIN h /\ Append(h, e)[j] = h[j])
      BY <2>1
    <2> QED
      BY <1>2, <2>1 DEF TrueList
  <1>3. TrueList(slice(h), done)
    <2>1. /\ slice(h) \in Seq(Entry)
          /\ Len(slice(h)) = IF Len(h) > HistoryLimit THEN HistoryLimit ELSE Len(h)
          /\ \A j \in 1 .. Len(slice(h)) : slice(h)[j] = h[Len(h) - Len(slice(h)) + j]
      BY SliceProperties
    <2>0. Len(slice(h)) <= Len(h)
      <3>1. Len(h) \in Nat /\ HistoryLimit \in Nat
        BY WebUiAssumption
      <3> QED
        BY <2>1, <3>1
    <2> DEFINE t == slice(h)
    <2>2. t \in Seq(Entry) /\ Len(t) <= Len(h)
          /\ \A j \in 1 .. Len(t) : t[j] = h[Len(h) - Len(t) + j]
      BY <2>0, <2>1
    <2> HIDE DEF t
    <2>3. ASSUME NEW j \in DOMAIN t, t[j].ok
          PROVE  [n |-> t[j].n, key |-> t[j].key_id] \in done
      <3>1. j \in 1 .. Len(t) /\ Len(t) \in Nat /\ Len(h) \in Nat
        BY <2>2, <2>3
      <3>2. Len(h) - Len(t) + j \in 1 .. Len(h)
        BY <2>2, <3>1
      <3>3. Len(h) - Len(t) + j \in DOMAIN h
        BY <3>2
      <3> QED
        BY <2>2, <2>3, <3>1, <3>3 DEF TrueList
    <2>4. TrueList(t, done)
      BY <2>3 DEF TrueList
    <2> QED
      BY <2>4 DEF t
  <1> QED
    BY <1>1, <1>2, <1>3

\* A call that returns ok was handled, under the number and the key it sent.
LEMMA TruthStep == Typed /\ TruthInv /\ [Next]_vars => TruthInv'
  <1> SUFFICES ASSUME Typed, TruthInv, [Next]_vars PROVE TruthInv'
    OBVIOUS
  <1> USE DEF agent, poller, page, log
  <1>1. CASE HandleRotation
    <2>1. PICK r \in waiting, ok \in BOOLEAN :
             /\ waiting' = waiting \ {r}
             /\ applied' = IF ok THEN applied \cup {r} ELSE applied
             /\ calls' = [i \in Visits |->
                            IF calls[i].n = r.n /\ calls[i].answer = "none"
                            THEN [calls[i] EXCEPT !.answer = IF ok THEN "ok" ELSE "refused"]
                            ELSE calls[i]]
             /\ UNCHANGED <<history, storage, rotations>>
      BY <1>1 DEF HandleRotation
    <2>2. applied \subseteq applied'
      BY <2>1
    <2>3. ASSUME NEW i \in Visits
          PROVE  /\ calls'[i].n = calls[i].n /\ calls'[i].key = calls[i].key
                 /\ calls'[i].answer = "ok" =>
                       calls[i].answer = "ok" \/ (ok /\ calls[i].n = r.n)
      BY <2>1 DEF Typed, Call
    <2>4. ok => r = [n |-> r.n, key |-> r.key] /\ r \in applied'
      BY <2>1 DEF Typed, Rotation
    <2>5. ASSUME NEW i \in Visits, calls'[i].answer = "ok"
          PROVE  [n |-> calls'[i].n, key |-> calls'[i].key] \in applied'
      <3>1. CASE calls[i].answer = "ok"
        BY <2>2, <2>3, <3>1 DEF TruthInv
      <3>2. CASE ok /\ calls[i].n = r.n
        BY <2>3, <2>4, <3>2 DEF TruthInv
      <3> QED
        BY <2>3, <2>5, <3>1, <3>2
    <2>6. \A i \in Visits : TrueList(history'[i], applied')
      BY <2>1, <2>2, TrueLists DEF TruthInv, Typed
    <2>7. TrueList(storage', applied')
      BY <2>1, <2>2, TrueLists DEF TruthInv, Typed
    <2>8. waiting' \subseteq waiting /\ rotations' = rotations
      BY <2>1
    <2>9. /\ \A w \in waiting' : w.n <= rotations'
          /\ \A i \in Visits : calls'[i].n <= rotations'
          /\ \A i \in Visits, w \in waiting' : calls'[i].n = w.n => calls'[i].key = w.key
      BY <2>3, <2>8 DEF TruthInv
    <2> QED
      BY <2>5, <2>6, <2>7, <2>9 DEF TruthInv
  <1>2. CASE DaemonRestarts
    BY <1>2 DEF DaemonRestarts, TruthInv
  <1>3. ASSUME NEW p \in Polls, AnswerPoll(p) \/ Tick(p) \/ Settle(p)
        PROVE  TruthInv'
    BY <1>3 DEF AnswerPoll, Tick, Settle, TruthInv
  <1>4. CASE Mount
    BY <1>4 DEF Mount, TruthInv, Typed
  <1>5. CASE Unmount \/ Edit
    BY <1>5 DEF Unmount, Edit, TruthInv
  <1>6. CASE Submit
    <2> DEFINE c == [n |-> rotations + 1, key |-> keyId[mounted], answer |-> "none"]
               r == [n |-> rotations + 1, key |-> keyId[mounted]]
    <2>1. /\ rotations' = rotations + 1 /\ rotations \in Nat
          /\ calls' = [calls EXCEPT ![mounted] = c]
          /\ waiting' = waiting \cup {r}
          /\ UNCHANGED <<applied, history, storage>>
      BY <1>6 DEF Submit, Typed
    <2>2. /\ c.n = rotations + 1 /\ c.answer = "none"
          /\ r.n = rotations + 1 /\ c.key = r.key
      OBVIOUS
    <2> HIDE DEF c, r
    <2>3. \A i \in Visits : calls'[i] = c \/ calls'[i] = calls[i]
      BY <2>1 DEF Typed
    <2>4. \A i \in Visits : calls[i].n \in Nat /\ calls[i].n <= rotations
      BY DEF TruthInv, Typed, Call
    <2>5. \A w \in waiting : w.n \in Nat /\ w.n <= rotations
      BY DEF TruthInv, Typed, Rotation
    <2>6. /\ \A w \in waiting' : w.n <= rotations'
          /\ \A i \in Visits : calls'[i].n <= rotations'
      BY <2>1, <2>2, <2>3, <2>4, <2>5
    <2>7. ASSUME NEW i \in Visits, NEW w \in waiting', calls'[i].n = w.n
          PROVE  calls'[i].key = w.key
      BY <2>1, <2>2, <2>3, <2>4, <2>5, <2>7 DEF TruthInv
    <2>8. \A i \in Visits : calls'[i].answer = "ok" =>
             [n |-> calls'[i].n, key |-> calls'[i].key] \in applied'
      BY <2>1, <2>2, <2>3 DEF TruthInv
    <2> QED
      BY <2>1, <2>6, <2>7, <2>8 DEF TruthInv
  <1>7. CASE clearHistory
    <2>1. storage' = <<>>
      BY <1>7, WebUiAssumption DEF clearHistory, saveHistory, slice
    <2>2. TrueList(<<>>, applied)
      BY DEF TrueList
    <2>3. \A i \in Visits : history'[i] = <<>> \/ history'[i] = history[i]
      BY <1>7 DEF clearHistory, Typed
    <2> QED
      BY <1>7, <2>1, <2>2, <2>3 DEF clearHistory, TruthInv
  <1>8. ASSUME NEW i \in Visits, LoseRotation(i) PROVE TruthInv'
    <2>1. \A k \in Visits :
             /\ calls'[k].n = calls[k].n /\ calls'[k].key = calls[k].key
             /\ calls'[k].answer = "ok" => calls[k].answer = "ok"
      BY <1>8 DEF LoseRotation, Typed, Call
    <2>2. UNCHANGED <<waiting, rotations, applied, history, storage>>
      BY <1>8 DEF LoseRotation
    <2> QED
      BY <2>1, <2>2 DEF TruthInv
  <1>9. ASSUME NEW i \in Visits, RotateReturns(i) PROVE TruthInv'
    <2> DEFINE h == Append(history[i], entry(i))
    <2>1. /\ calls' = [calls EXCEPT ![i] = NoCall]
          /\ history' = [history EXCEPT ![i] = h]
          /\ storage' = slice(h)
          /\ UNCHANGED <<waiting, rotations, applied>>
      BY <1>9 DEF RotateReturns, saveHistory
    <2>2. /\ entry(i) \in Entry
          /\ entry(i).ok => [n |-> entry(i).n, key |-> entry(i).key_id] \in applied
      BY DEF entry, Entry, Typed, Call, TruthInv
    <2>3. h \in Seq(Entry) /\ TrueList(h, applied)
      BY <2>2, TrueLists DEF TruthInv, Typed
    <2> HIDE DEF h
    <2>4. TrueList(slice(h), applied)
      BY <2>3, TrueLists
    <2>5. \A k \in Visits : history'[k] = h \/ history'[k] = history[k]
      BY <2>1 DEF Typed
    <2>6. \A k \in Visits : calls'[k] = NoCall \/ calls'[k] = calls[k]
      BY <2>1 DEF Typed
    <2>7. NoCall.n = 0 /\ NoCall.answer = "none"
      BY DEF NoCall
    <2>8. rotations \in Nat /\ \A w \in waiting : w.n # 0
      BY DEF Typed, Rotation
    <2>9. /\ \A k \in Visits : calls'[k].n <= rotations
          /\ \A k \in Visits, w \in waiting : calls'[k].n = w.n => calls'[k].key = w.key
          /\ \A k \in Visits : calls'[k].answer = "ok" =>
                [n |-> calls'[k].n, key |-> calls'[k].key] \in applied
      BY <2>6, <2>7, <2>8 DEF TruthInv
    <2> QED
      BY <2>1, <2>3, <2>4, <2>5, <2>9 DEF TruthInv
  <1>10. CASE UNCHANGED vars
    BY <1>10 DEF vars, TruthInv
  <1> QED
    BY <1>1, <1>2, <1>3, <1>4, <1>5, <1>6, <1>7, <1>8, <1>9, <1>10 DEF Next

\* An entry of the stored history that says ok stands for a rotation that the
\* daemon took over, under the key id it was sent with, whatever the user
\* typed, whichever page was left and whichever answer was late or lost.
THEOREM HistoryTruthCorrect == Spec => []HistoryTellsTheTruth
  <1> DEFINE Inv == Typed /\ TruthInv
  <1>1. Init => Inv
    <2> SUFFICES ASSUME Init PROVE TruthInv
      BY InitTyped
    <2>1. TrueList(<<>>, applied)
      BY DEF TrueList
    <2> QED
      BY <2>1 DEF Init, TruthInv, NoCall
  <1>2. Inv /\ [Next]_vars => Inv'
    BY TypedStep, TruthStep
  <1>3. Inv => HistoryTellsTheTruth
    BY DEF TruthInv, TrueList, HistoryTellsTheTruth
  <1> QED
    BY <1>1, <1>2, <1>3, PTL DEF Spec

-----------------------------------------------------------------------------
(* The history is complete                                                 *)

\* Lists that end alike still do when each gets one more element.
LEMMA SameEndAppend ==
    ASSUME NEW h \in Seq(Entry), NEW f \in Seq(Nat), SameEnd(h, f), NEW e \in Entry
    PROVE  SameEnd(Append(h, e), Append(f, e.n))
  <1> DEFINE g == Append(h, e)
             d == Append(f, e.n)
  <1>0. /\ e.n \in Nat /\ HistoryLimit \in Nat \ {0}
        /\ Len(h) \in Nat /\ Len(f) \in Nat
    BY WebUiAssumption DEF Entry
  <1>1. /\ Len(g) = Len(h) + 1
        /\ g[Len(h) + 1] = e
        /\ \A j \in 1 .. Len(h) : g[j] = h[j]
    BY AppendProperties
  <1>2. /\ Len(d) = Len(f) + 1
        /\ d[Len(f) + 1] = e.n
        /\ \A j \in 1 .. Len(f) : d[j] = f[j]
    BY <1>0, AppendProperties
  <1> HIDE DEF g, d
  <1>3. Len(g) = Len(d) \/ (Len(g) >= HistoryLimit /\ Len(d) >= HistoryLimit)
    BY <1>0, <1>1, <1>2 DEF SameEnd
  <1>4. ASSUME NEW j \in 0 .. HistoryLimit - 1, j < Len(g)
        PROVE  g[Len(g) - j].n = d[Len(d) - j]
    <2>1. CASE j = 0
      BY <1>0, <1>1, <1>2, <2>1
    <2>2. CASE j # 0
      <3>1. j - 1 \in 0 .. HistoryLimit - 1 /\ j - 1 < Len(h) /\ j - 1 < Len(f)
        BY <1>0, <1>1, <1>4, <2>2 DEF SameEnd
      <3>2. h[Len(h) - (j - 1)].n = f[Len(f) - (j - 1)]
        BY <3>1 DEF SameEnd
      <3>3. /\ Len(g) - j = Len(h) - (j - 1) /\ Len(h) - (j - 1) \in 1 .. Len(h)
            /\ Len(d) - j = Len(f) - (j - 1) /\ Len(f) - (j - 1) \in 1 .. Len(f)
        BY <1>0, <1>1, <1>2, <3>1, <2>2
      <3> QED
        BY <1>1, <1>2, <3>2, <3>3
    <2> QED
      BY <2>1, <2>2
  <1>5. SameEnd(g, d)
    BY <1>3, <1>4 DEF SameEnd
  <1> QED
    BY <1>5 DEF g, d

\* slice keeps the end of a list.
LEMMA SameEndSlice ==
    ASSUME NEW h \in Seq(Entry), NEW f \in Seq(Nat), SameEnd(h, f)
    PROVE  SameEnd(slice(h), f) /\ Len(slice(h)) <= HistoryLimit
  <1> DEFINE t == slice(h)
  <1>0. HistoryLimit \in Nat \ {0} /\ Len(h) \in Nat /\ Len(f) \in Nat
    BY WebUiAssumption
  <1>1. /\ Len(t) = IF Len(h) > HistoryLimit THEN HistoryLimit ELSE Len(h)
        /\ \A j \in 1 .. Len(t) : t[j] = h[Len(h) - Len(t) + j]
    BY SliceProperties
  <1> HIDE DEF t
  <1>2. Len(t) \in Nat /\ Len(t) <= HistoryLimit /\ Len(t) <= Len(h)
    BY <1>0, <1>1
  <1>3. Len(t) = Len(f) \/ (Len(t) >= HistoryLimit /\ Len(f) >= HistoryLimit)
    BY <1>0, <1>1 DEF SameEnd
  <1>4. ASSUME NEW j \in 0 .. HistoryLimit - 1, j < Len(t)
        PROVE  t[Len(t) - j].n = f[Len(f) - j]
    <2>1. Len(t) - j \in 1 .. Len(t) /\ Len(h) - Len(t) + (Len(t) - j) = Len(h) - j
      BY <1>0, <1>2, <1>4
    <2>2. t[Len(t) - j] = h[Len(h) - j]
      BY <1>1, <2>1
    <2>3. j < Len(h)
      BY <1>0, <1>2, <1>4
    <2> QED
      BY <2>2, <2>3 DEF SameEnd
  <1>5. SameEnd(t, f)
    BY <1>3, <1>4 DEF SameEnd
  <1> QED
    BY <1>2, <1>5 DEF t

\* A short list that ends as the numbers f holds just their slice.
LEMMA SameEndNumbers ==
    ASSUME NEW h \in Seq(Entry), NEW f \in Seq(Nat), SameEnd(h, f),
           Len(h) <= HistoryLimit
    PROVE  [j \in DOMAIN h |-> h[j].n] = slice(f)
  <1> DEFINE t == slice(f)
  <1>0. HistoryLimit \in Nat \ {0} /\ Len(h) \in Nat /\ Len(f) \in Nat
    BY WebUiAssumption
  <1>1. /\ t \in Seq(Nat)
        /\ Len(t) = IF Len(f) > HistoryLimit THEN HistoryLimit ELSE Len(f)
        /\ \A j \in 1 .. Len(t) : t[j] = f[Len(f) - Len(t) + j]
    BY SliceProperties
  <1> HIDE DEF t
  <1>2. Len(t) = Len(h)
    BY <1>0, <1>1 DEF SameEnd
  <1>3. ASSUME NEW j \in 1 .. Len(h) PROVE h[j].n = t[j]
    <2>1. /\ Len(h) - j \in 0 .. HistoryLimit - 1 /\ Len(h) - j < Len(h)
          /\ Len(h) - (Len(h) - j) = j
          /\ Len(f) - (Len(h) - j) = Len(f) - Len(t) + j
      BY <1>0, <1>2
    <2>2. h[Len(h) - (Len(h) - j)].n = f[Len(f) - (Len(h) - j)]
      BY <2>1 DEF SameEnd
    <2> QED
      BY <1>1, <1>2, <2>1, <2>2
  <1>4. DOMAIN h = 1 .. Len(h) /\ DOMAIN t = 1 .. Len(h)
    BY <1>1, <1>2
  <1>5. t = [j \in 1 .. Len(h) |-> t[j]]
    BY <1>1, <1>4
  <1>6. [j \in DOMAIN h |-> h[j].n] = t
    BY <1>3, <1>4, <1>5
  <1> QED
    BY <1>6 DEF t

\* A page that is left with nothing pending hands its list on through the
\* storage; only a rotation that outlives its page saves an old list.
LEMMA CompleteStep == Typed /\ CompleteInv /\ [Next]_vars => CompleteInv'
  <1> SUFFICES ASSUME Typed, CompleteInv, [Next]_vars PROVE CompleteInv'
    OBVIOUS
  <1> USE DEF agent, poller, page, log
  <1>1. CASE HandleRotation
    <2>1. PICK r \in waiting, ok \in BOOLEAN :
             /\ calls' = [i \in Visits |->
                            IF calls[i].n = r.n /\ calls[i].answer = "none"
                            THEN [calls[i] EXCEPT !.answer = IF ok THEN "ok" ELSE "refused"]
                            ELSE calls[i]]
             /\ UNCHANGED <<mounted, history, storage, log>>
      BY <1>1 DEF HandleRotation
    <2>2. r.n # 0 /\ NoCall.n = 0
      BY DEF Typed, Rotation, NoCall
    <2>3. \A i \in Visits : calls[i] = NoCall => calls'[i] = NoCall
      BY <2>1, <2>2
    <2> QED
      BY <2>1, <2>3 DEF CompleteInv
  <1>2. CASE DaemonRestarts
    BY <1>2 DEF DaemonRestarts, CompleteInv
  <1>3. ASSUME NEW p \in Polls, AnswerPoll(p) \/ Tick(p) \/ Settle(p)
        PROVE  CompleteInv'
    BY <1>3 DEF AnswerPoll, Tick, Settle, CompleteInv
  <1>4. CASE Mount
    <2>1. visits + 1 \in Visits /\ mounted = 0 /\ mounted' = visits + 1
          /\ history' = [history EXCEPT ![visits + 1] = storage]
          /\ UNCHANGED <<calls, storage, finished, outlived>>
      BY <1>4, WebUiAssumption DEF Mount, Visits, Typed
    <2>2. history'[mounted'] = storage
      BY <2>1 DEF Typed
    <2>3. \A i \in Visits : i # mounted
      BY <2>1 DEF Visits
    <2> QED
      BY <2>1, <2>2, <2>3 DEF CompleteInv
  <1>5. CASE Unmount
    <2>1. mounted' = 0 /\ UNCHANGED <<calls, storage, finished>>
      BY <1>5 DEF Unmount
    <2>2. mounted \in Visits
      BY <1>5, WebUiAssumption DEF Unmount, Visits, Typed
    <2>3. /\ outlived' \in BOOLEAN
          /\ ~outlived' => ~outlived /\ calls[mounted] = NoCall
      BY <1>5, Zenon DEF Unmount, CompleteInv
    <2> QED
      BY <2>1, <2>2, <2>3 DEF CompleteInv
  <1>6. CASE Edit
    BY <1>6 DEF Edit, CompleteInv
  <1>7. CASE Submit
    <2>1. UNCHANGED <<mounted, history, storage, finished, outlived>>
      BY <1>7 DEF Submit
    <2>2. \A i \in Visits : i # mounted => calls'[i] = calls[i]
      BY <1>7 DEF Submit, Typed
    <2> QED
      BY <2>1, <2>2 DEF CompleteInv
  <1>8. CASE clearHistory
    <2>1. storage' = <<>> /\ finished' = <<>> /\ UNCHANGED <<mounted, calls, outlived>>
      BY <1>8, WebUiAssumption DEF clearHistory, saveHistory, slice
    <2>2. mounted \in Visits
      BY <1>8, WebUiAssumption DEF clearHistory, Visits, Typed
    <2>3. history'[mounted] = <<>>
      BY <1>8, <2>2 DEF clearHistory, Typed
    <2>4. SameEnd(<<>>, <<>>) /\ Len(<<>>) <= HistoryLimit
      BY WebUiAssumption DEF SameEnd
    <2> QED
      BY <2>1, <2>3, <2>4 DEF CompleteInv
  <1>9. ASSUME NEW i \in Visits, LoseRotation(i) PROVE CompleteInv'
    <2>1. calls[i] # NoCall
      BY <1>9 DEF LoseRotation, NoCall
    <2>2. UNCHANGED <<mounted, history, storage, finished, outlived>>
      BY <1>9 DEF LoseRotation
    <2>3. \A k \in Visits : k # i => calls'[k] = calls[k]
      BY <1>9 DEF LoseRotation, Typed
    <2> QED
      BY <2>1, <2>2, <2>3 DEF CompleteInv
  <1>10. ASSUME NEW i \in Visits, RotateReturns(i) PROVE CompleteInv'
    <2> DEFINE h == Append(history[i], entry(i))
               f == Append(finished, calls[i].n)
    <2>1. /\ calls' = [calls EXCEPT ![i] = NoCall]
          /\ history' = [history EXCEPT ![i] = h]
          /\ storage' = slice(h) /\ finished' = f
          /\ UNCHANGED <<mounted, outlived>>
      BY <1>10 DEF RotateReturns, saveHistory
    <2>2. calls[i] # NoCall
      BY <1>10 DEF RotateReturns, NoCall
    <2>3. entry(i) \in Entry /\ entry(i).n = calls[i].n
      BY DEF entry, Entry, Typed, Call
    <2>4. /\ history[i] \in Seq(Entry) /\ finished \in Seq(Nat)
          /\ h \in Seq(Entry) /\ f \in Seq(Nat)
      BY <2>3, AppendProperties DEF Typed, Call
    <2>5. SameEnd(history[i], finished) => SameEnd(h, f)
      BY <2>3, <2>4, SameEndAppend
    <2> HIDE DEF h, f
    <2>6. Len(slice(h)) <= HistoryLimit
      <3>1. Len(h) \in Nat /\ HistoryLimit \in Nat
        BY <2>4, WebUiAssumption
      <3>2. Len(slice(h)) = IF Len(h) > HistoryLimit THEN HistoryLimit ELSE Len(h)
        BY <2>4, SliceProperties
      <3> QED
        BY <3>1, <3>2
    <2>7. ASSUME ~outlived
          PROVE  /\ i = mounted /\ SameEnd(h, f) /\ SameEnd(slice(h), f)
                 /\ \A k \in Visits : k # mounted => calls[k] = NoCall
      <3>1. i = mounted /\ mounted # 0
        BY <2>2, <2>7 DEF CompleteInv, Visits
      <3>2. SameEnd(h, f)
        BY <2>5, <2>7, <3>1 DEF CompleteInv
      <3> QED
        BY <2>4, <2>7, <3>1, <3>2, SameEndSlice DEF CompleteInv
    <2>8. history'[i] = h /\ \A k \in Visits : k # i => calls'[k] = calls[k]
      BY <2>1 DEF Typed
    <2> QED
      BY <2>1, <2>6, <2>7, <2>8 DEF CompleteInv
  <1>11. CASE UNCHANGED vars
    BY <1>11 DEF vars, CompleteInv
  <1> QED
    BY <1>1, <1>2, <1>3, <1>4, <1>5, <1>6, <1>7, <1>8, <1>9, <1>10, <1>11 DEF Next

\* As long as no rotation outlives its page, the stored history is the list of
\* the last rotations that returned since it was cleared, in their order and
\* across any number of visits; for every HistoryLimit, 20 in the code.
THEOREM HistoryCompleteCorrect == Spec => []HistoryIsComplete
  <1> DEFINE Inv == Typed /\ CompleteInv
  <1>1. Init => Inv
    <2> SUFFICES ASSUME Init PROVE CompleteInv
      BY InitTyped
    <2>1. SameEnd(<<>>, <<>>) /\ Len(<<>>) <= HistoryLimit
      BY WebUiAssumption DEF SameEnd
    <2> QED
      BY <2>1 DEF Init, CompleteInv
  <1>2. Inv /\ [Next]_vars => Inv'
    BY TypedStep, CompleteStep
  <1>3. Inv => HistoryIsComplete
    BY SameEndNumbers DEF Typed, CompleteInv, HistoryIsComplete
  <1> QED
    BY <1>1, <1>2, <1>3, PTL DEF Spec
=============================================================================
