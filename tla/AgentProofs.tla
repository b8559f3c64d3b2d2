---------------------------- MODULE AgentProofs ----------------------------
(***************************************************************************)
(* For any number of goroutines, calls and crashes: the mutex and the      *)
(* connection of ipc.Client keep requests and answers together, what       *)
(* /api/v1/keys/rotate answers is true, and a crash is paid for once.      *)
(***************************************************************************)
EXTENDS Agent, TLAPS

-----------------------------------------------------------------------------
(* The inductive invariant                                                 *)

Inside == {"connect", "write", "read"}

\* TypeOK, its two halves apart, and the domains of the other functions.
Booleans == conn \in BOOLEAN /\ srv \in BOOLEAN /\ up \in BOOLEAN

Mutex ==
    /\ mu \in Goroutines \cup {Nobody}
    /\ pc \in [Goroutines -> {"idle", "lock", "connect", "write", "read"}]
    /\ \A h \in Goroutines : pc[h] \in Inside <=> mu = h

Counts ==
    /\ calls \in [Goroutines -> Nat]
    /\ DOMAIN out = Goroutines
    /\ DOMAIN got = Goroutines

\* The connection carries nothing between calls, and during a call the one
\* request of the holder or its answer.
Carries(h) ==
    \/ to = <<>> /\ back = <<>>
    \/ pc[h] = "read" /\ to = <<id(h)>> /\ back = <<>>
    \/ pc[h] = "read" /\ to = <<>> /\ \E v \in Verdicts : back = <<Line(id(h), v)>>

WireInv ==
    /\ mu = Nobody => to = <<>> /\ back = <<>>
    /\ \A h \in Goroutines : mu = h => Carries(h)

\* Requests the daemon has seen or will see are of calls already made.
KnownRequests ==
    \A h \in Goroutines, n \in Nat :
        <<h, n>> \in applied \cup orphans => n <= calls[h]

\* Where the request of a running or finished rotation is.
Fate(h) ==
    /\ pc[h] \in {"lock", "connect", "write"} => id(h) \notin applied \cup orphans
    /\ pc[h] = "read" /\ to # <<>> => id(h) \notin applied \cup orphans
    /\ pc[h] = "read" /\ back # <<>> =>
          /\ id(h) \notin orphans
          /\ back[1].kind = "ok" => id(h) \in applied
          /\ back[1].kind = "error" => id(h) \notin applied
    /\ pc[h] # "idle" => out[h] = 0
    /\ pc[h] = "idle" =>
          /\ out[h] = 200 => id(h) \in applied
          /\ out[h] \in {422, 500, 501} => id(h) \notin applied \cup orphans

RotateInv ==
    /\ KnownRequests
    /\ \A h \in Goroutines : Endpoint[h] = "rotate" => Fate(h)

IInv == Mutex /\ Counts /\ WireInv /\ AnswersMatch /\ RotateInv

-----------------------------------------------------------------------------
(* The mutex                                                               *)

\* A client from New: nobody holds the mutex, and no call was made.
LEMMA InitMutex == Init => Mutex /\ Counts
  BY AgentAssumption DEF Init, Mutex, Counts, Inside

\* Exactly the holder of the mutex is inside a method of the client.
LEMMA MutexStep == Mutex /\ Counts /\ [Next]_vars => Mutex' /\ Counts'
  <1> SUFFICES ASSUME Mutex, Counts, [Next]_vars PROVE Mutex' /\ Counts'
    OBVIOUS
  <1> USE AgentAssumption DEF Mutex, Counts, Inside, client, wire, daemon, main
  <1>1. ASSUME NEW h \in Goroutines, Serve(h) PROVE Mutex' /\ Counts'
    BY <1>1 DEF Serve, Goto
  <1>2. ASSUME NEW h \in Goroutines, Refuse(h) PROVE Mutex' /\ Counts'
    BY <1>2 DEF Refuse
  <1>3. ASSUME NEW h \in Goroutines, Expire(h) PROVE Mutex' /\ Counts'
    BY <1>3 DEF Expire
  <1>4. ASSUME NEW h \in Goroutines, Lock(h) PROVE Mutex' /\ Counts'
    BY <1>4 DEF Lock, Goto
  <1>5. ASSUME NEW h \in Goroutines, Reuse(h) \/ Dial(h) \/ Write(h)
        PROVE  Mutex' /\ Counts'
    BY <1>5 DEF Reuse, Dial, Write, Goto
  <1>6. ASSUME NEW h \in Goroutines, NEW r, Finish(h, r), pc[h] \in Inside,
               calls' = calls, DOMAIN got' = Goroutines
        PROVE  Mutex' /\ Counts'
    BY <1>6 DEF Finish, Goto
  <1>7. ASSUME NEW h \in Goroutines,
               DialFails(h) \/ WriteFails(h) \/ Read(h) \/ ReadFails(h)
        PROVE  Mutex' /\ Counts'
    BY <1>6, <1>7 DEF DialFails, WriteFails, Read, ReadFails
  <1>8. CASE Answer \/ ServeOrphan \/ Crash \/ Start \/ Signal
    BY <1>8 DEF Answer, ServeOrphan, Crash, Start, Signal
  <1>9. CASE Exit
    BY <1>9 DEF Exit
  <1>10. CASE UNCHANGED vars
    BY <1>10 DEF vars
  <1> QED
    BY <1>1, <1>2, <1>3, <1>4, <1>5, <1>7, <1>8, <1>9, <1>10 DEF Next, Step

\* The flags of the connection and of the daemon stay Booleans.
LEMMA BooleansStep == Booleans /\ [Next]_vars => Booleans'
  <1> SUFFICES ASSUME Booleans, [Next]_vars PROVE Booleans'
    OBVIOUS
  <1> USE DEF Booleans, client, wire, daemon, main
  <1>1. ASSUME NEW h \in Goroutines, Serve(h) \/ Refuse(h) \/ Expire(h) \/ Lock(h)
        PROVE  Booleans'
    BY <1>1 DEF Serve, Refuse, Expire, Lock
  <1>2. ASSUME NEW h \in Goroutines, Reuse(h) \/ Dial(h) \/ DialFails(h)
        PROVE  Booleans'
    BY <1>2 DEF Reuse, Dial, DialFails
  <1>3. ASSUME NEW h \in Goroutines, Write(h) \/ Read(h)
        PROVE  Booleans'
    BY <1>3 DEF Write, Read
  <1>4. ASSUME NEW h \in Goroutines, WriteFails(h) \/ ReadFails(h)
        PROVE  Booleans'
    BY <1>4 DEF WriteFails, ReadFails, DropConn
  <1>5. CASE Answer \/ ServeOrphan \/ Signal
    BY <1>5 DEF Answer, ServeOrphan, Signal
  <1>6. CASE Crash \/ Start \/ Exit
    BY <1>6 DEF Crash, Start, Exit, DropConn
  <1>7. CASE UNCHANGED vars
    BY <1>7 DEF vars
  <1> QED
    BY <1>1, <1>2, <1>3, <1>4, <1>5, <1>6, <1>7 DEF Next, Step

\* For any number of goroutines, exactly the holder of Client.mu is inside a
\* method of the client.
THEOREM TypeCorrect == Spec => []TypeOK
  <1> DEFINE Inv == Booleans /\ Mutex /\ Counts
  <1>1. Init => Inv
    BY InitMutex DEF Init, Booleans
  <1>2. Inv /\ [Next]_vars => Inv'
    BY MutexStep, BooleansStep
  <1>3. Inv => TypeOK
    BY DEF TypeOK, Booleans, Mutex, Inside
  <1> QED
    BY <1>1, <1>2, <1>3, PTL DEF Spec

-----------------------------------------------------------------------------
(* Requests and answers                                                    *)

\* Nothing but the holder's own request or answer is ever on the connection.
LEMMA WireStep == Mutex /\ Counts /\ WireInv /\ [Next]_vars => WireInv'
  <1> SUFFICES ASSUME Mutex, Counts, WireInv, [Next]_vars PROVE WireInv'
    OBVIOUS
  <1> USE AgentAssumption DEF Mutex, Counts, Inside, client, wire, daemon, main
  <1>1. ASSUME NEW h \in Goroutines, Serve(h) PROVE WireInv'
    BY <1>1 DEF Serve, Goto, WireInv, Carries, id, Line
  <1>2. ASSUME NEW h \in Goroutines, Refuse(h) PROVE WireInv'
    BY <1>2 DEF Refuse, WireInv, Carries, id, Line
  <1>3. ASSUME NEW h \in Goroutines, Expire(h) PROVE WireInv'
    BY <1>3 DEF Expire, WireInv, Carries, id, Line
  <1>4. ASSUME NEW h \in Goroutines, Lock(h) PROVE WireInv'
    BY <1>4 DEF Lock, Goto, WireInv, Carries
  <1>5. ASSUME NEW h \in Goroutines, Reuse(h) PROVE WireInv'
    BY <1>5 DEF Reuse, Goto, WireInv, Carries
  <1>6. ASSUME NEW h \in Goroutines, Dial(h) PROVE WireInv'
    BY <1>6 DEF Dial, Goto, WireInv, Carries
  <1>7. ASSUME NEW h \in Goroutines, DialFails(h) PROVE WireInv'
    BY <1>7 DEF DialFails, Finish, Goto, WireInv, Carries
  <1>8. ASSUME NEW h \in Goroutines, Write(h) PROVE WireInv'
    <2>1. mu = h /\ to = <<>> /\ back = <<>> /\ mu' = h
      BY <1>8 DEF Write, WireInv, Carries
    <2>2. to' = <<id(h)>>' /\ back' = <<>> /\ pc'[h] = "read"
      BY <1>8, <2>1 DEF Write, Goto, id
    <2> QED
      BY <2>1, <2>2 DEF WireInv, Carries
  <1>9. ASSUME NEW h \in Goroutines, WriteFails(h) \/ ReadFails(h) PROVE WireInv'
    BY <1>9 DEF WriteFails, ReadFails, DropConn, Finish, Goto, WireInv, Carries
  <1>10. ASSUME NEW h \in Goroutines, Read(h) PROVE WireInv'
    <2>1. mu = h
      BY <1>10 DEF Read
    <2>2. PICK v \in Verdicts : back = <<Line(id(h), v)>> /\ to = <<>>
      BY <1>10, <2>1 DEF Read, WireInv, Carries
    <2>3. mu' = Nobody /\ to' = <<>> /\ back' = <<>>
      BY <1>10, <2>2 DEF Read, Finish
    <2> QED
      BY <2>3 DEF WireInv
  <1>11. CASE Answer
    <2>1. PICK h \in Goroutines : mu = h
      BY <1>11 DEF Answer, WireInv
    <2>2. to = <<id(h)>> /\ back = <<>> /\ pc[h] = "read"
      BY <1>11, <2>1 DEF Answer, WireInv, Carries
    <2>a. PICK v \in Verdicts : back' = Append(back, Line(Head(to), v))
      BY <1>11 DEF Answer
    <2>3. back' = <<Line(id(h), v)>>
      BY <2>a, <2>2
    <2>4. to' = <<>> /\ mu' = h /\ pc'[h] = "read" /\ id(h)' = id(h)
      BY <1>11, <2>1, <2>2 DEF Answer, id
    <2>5. back' = <<Line(id(h)', v)>>
      BY <2>3, <2>4 DEF Line
    <2> QED
      BY <2>1, <2>4, <2>5 DEF WireInv, Carries, Line
  <1>12. CASE ServeOrphan \/ Start \/ Signal \/ UNCHANGED vars
    BY <1>12 DEF ServeOrphan, Start, Signal, vars, WireInv, Carries, id, Line
  <1>13. CASE Crash
    <2>1. to' = <<>> /\ back' = back /\ mu' = mu /\ pc' = pc /\ calls' = calls
      BY <1>13 DEF Crash
    <2>2. ASSUME NEW h \in Goroutines, mu = h PROVE Carries(h)'
      <3>1. CASE back = <<>>
        BY <2>1, <3>1 DEF Carries
      <3>2. CASE back # <<>>
        <4>1. PICK v \in Verdicts : back = <<Line(id(h), v)>>
          BY <2>2, <3>2 DEF WireInv, Carries
        <4>2. pc[h] = "read"
          BY <2>2, <3>2 DEF WireInv, Carries
        <4>3. Line(id(h), v)' = Line(id(h), v)
          BY <2>1 DEF Line, id
        <4> QED
          BY <2>1, <4>1, <4>2, <4>3 DEF Carries
      <3> QED
        BY <3>1, <3>2
    <2> QED
      BY <2>1, <2>2 DEF WireInv
  <1>14. CASE Exit
    BY <1>14 DEF Exit, DropConn, WireInv
  <1> QED
    BY <1>1, <1>2, <1>3, <1>4, <1>5, <1>6, <1>7, <1>8, <1>9, <1>10, <1>11, <1>12,
       <1>13, <1>14 DEF Next, Step

\* The line a call reads is the one its own request put on the connection.
LEMMA MatchStep ==
    Mutex /\ Counts /\ WireInv /\ AnswersMatch /\ [Next]_vars => AnswersMatch'
  <1> SUFFICES ASSUME Mutex, Counts, WireInv, AnswersMatch, [Next]_vars
               PROVE  AnswersMatch'
    OBVIOUS
  <1> USE DEF Mutex, Counts, Inside
  <1>1. ASSUME NEW h \in Goroutines, Serve(h) PROVE AnswersMatch'
    BY <1>1 DEF Serve, AnswersMatch, id
  <1>2. ASSUME NEW h \in Goroutines, Refuse(h) PROVE AnswersMatch'
    BY <1>2 DEF Refuse, AnswersMatch, id
  <1>3. ASSUME NEW h \in Goroutines, Read(h) PROVE AnswersMatch'
    <2>1. PICK v \in Verdicts : back = <<Line(id(h), v)>>
      BY <1>3 DEF Read, WireInv, Carries
    <2>2. Head(back).id = id(h)
      BY <2>1 DEF Line
    <2>3. got' = [got EXCEPT ![h] = Head(back)] /\ calls' = calls
      BY <1>3 DEF Read
    <2> QED
      BY <2>2, <2>3 DEF AnswersMatch, id
  <1>4. ASSUME got' = got, calls' = calls PROVE AnswersMatch'
    BY <1>4 DEF AnswersMatch, id
  <1>5. ASSUME NEW h \in Goroutines,
               \/ Expire(h) \/ Lock(h) \/ Reuse(h) \/ Dial(h) \/ DialFails(h)
               \/ Write(h) \/ WriteFails(h) \/ ReadFails(h)
        PROVE  AnswersMatch'
    BY <1>4, <1>5 DEF Expire, Lock, Reuse, Dial, DialFails, Write, WriteFails, ReadFails
  <1>6. CASE Answer \/ ServeOrphan \/ Crash \/ Start \/ Signal \/ Exit \/ UNCHANGED vars
    BY <1>4, <1>6 DEF Answer, ServeOrphan, Crash, Start, Signal, Exit, vars
  <1> QED
    BY <1>1, <1>2, <1>3, <1>5, <1>6 DEF Next, Step

\* However many callers share the client, however late the daemon answers and
\* however often it crashes, a call never takes another's answer for its own.
THEOREM AnswersCorrect == Spec => []AnswersMatch
  <1> DEFINE Inv == Mutex /\ Counts /\ WireInv /\ AnswersMatch
  <1>1. Init => Inv
    BY InitMutex DEF Init, WireInv, Carries, AnswersMatch
  <1>2. Inv /\ [Next]_vars => Inv'
    BY MutexStep, WireStep, MatchStep
  <1> QED
    BY <1>1, <1>2, PTL DEF Spec

-----------------------------------------------------------------------------
(* Rotations                                                               *)

\* The set of what the connection carries, for the two cases that occur.
LEMMA ToSetOfOne == ToSet(<<>>) = {} /\ \A x : ToSet(<<x>>) = {x}
  BY DEF ToSet

\* What Close leaves behind for the daemon to serve: at most the request of
\* the holder of the mutex.
LEMMA DroppedRequests ==
    ASSUME Mutex, WireInv, DropConn
    PROVE  /\ orphans \subseteq orphans'
           /\ \A r \in orphans' \ orphans :
                \E h \in Goroutines : mu = h /\ r = id(h) /\ pc[h] = "read" /\ to # <<>>
  <1>1. CASE to = <<>>
    BY <1>1, ToSetOfOne DEF DropConn
  <1>2. CASE to # <<>>
    <2>1. PICK h \in Goroutines : mu = h
      BY <1>2 DEF Mutex, WireInv
    <2>2. to = <<id(h)>> /\ pc[h] = "read"
      BY <1>2, <2>1 DEF WireInv, Carries
    <2>3. orphans' \in {orphans, orphans \cup {id(h)}}
      BY <2>2, ToSetOfOne DEF DropConn
    <2> QED
      BY <1>2, <2>1, <2>2, <2>3
  <1> QED
    BY <1>1, <1>2

\* The daemon handles the one request on the connection, the holder's.
LEMMA AnsweredRequest ==
    ASSUME Mutex, WireInv, Answer
    PROVE  \E h \in Goroutines, v \in Verdicts :
              /\ mu = h /\ pc[h] = "read" /\ to = <<id(h)>> /\ to' = <<>>
              /\ back' = <<Line(id(h), v)>>
              /\ Apply(id(h), v)
  <1>1. PICK h \in Goroutines : mu = h
    BY DEF Answer, WireInv, Mutex
  <1>2. to = <<id(h)>> /\ back = <<>> /\ pc[h] = "read"
    BY <1>1 DEF Answer, WireInv, Carries
  <1>3. PICK v \in Verdicts : Apply(Head(to), v) /\ back' = Append(back, Line(Head(to), v))
    BY DEF Answer
  <1>4. Head(to) = id(h) /\ back' = <<Line(id(h), v)>> /\ to' = <<>>
    BY <1>2, <1>3 DEF Answer
  <1> QED
    BY <1>1, <1>2, <1>3, <1>4

\* No request is known to the daemon before its call is made.
LEMMA KnownStep ==
    Mutex /\ Counts /\ WireInv /\ KnownRequests /\ [Next]_vars => KnownRequests'
  <1> SUFFICES ASSUME Mutex, Counts, WireInv, KnownRequests, [Next]_vars
               PROVE  KnownRequests'
    OBVIOUS
  <1> USE DEF Counts, client, wire, daemon, main
  <1>1. ASSUME NEW h \in Goroutines, Serve(h) PROVE KnownRequests'
    BY <1>1 DEF Serve, KnownRequests
  <1>2. ASSUME applied' \cup orphans' \subseteq applied \cup orphans, calls' = calls
        PROVE  KnownRequests'
    BY <1>2 DEF KnownRequests
  <1>3. ASSUME NEW h \in Goroutines,
               \/ Refuse(h) \/ Expire(h) \/ Lock(h) \/ Reuse(h) \/ Dial(h) \/ DialFails(h)
               \/ Write(h) \/ Read(h)
        PROVE  KnownRequests'
    BY <1>2, <1>3 DEF Refuse, Expire, Lock, Reuse, Dial, DialFails, Write, Read
  <1>4. ASSUME DropConn, applied' = applied, calls' = calls PROVE KnownRequests'
    BY <1>4, DroppedRequests DEF KnownRequests, id
  <1>5. ASSUME NEW h \in Goroutines, WriteFails(h) \/ ReadFails(h) PROVE KnownRequests'
    BY <1>4, <1>5 DEF WriteFails, ReadFails
  <1>6. CASE Answer
    <2>1. PICK h \in Goroutines, v \in Verdicts : Apply(id(h), v)
      BY <1>6, AnsweredRequest
    <2>2. applied' \subseteq applied \cup {<<h, calls[h]>>}
      BY <2>1 DEF Apply, id
    <2>3. orphans' = orphans /\ calls' = calls
      BY <1>6 DEF Answer
    <2> QED
      BY <2>2, <2>3 DEF KnownRequests
  <1>7. CASE ServeOrphan
    BY <1>2, <1>7 DEF ServeOrphan, Apply
  <1>8. CASE Crash \/ Start \/ Signal \/ UNCHANGED vars
    BY <1>2, <1>8 DEF Crash, Start, Signal, vars
  <1>9. CASE Exit
    BY <1>4, <1>9 DEF Exit
  <1> QED
    BY <1>1, <1>3, <1>5, <1>6, <1>7, <1>8, <1>9 DEF Next, Step

\* A step that leaves g, its request and its connection alone.
LEMMA FateKept ==
    ASSUME NEW g \in Goroutines, Fate(g),
           pc'[g] = pc[g], calls'[g] = calls[g], out'[g] = out[g],
           id(g) \in applied <=> id(g) \in applied',
           id(g) \in orphans' => id(g) \in orphans,
           pc[g] = "read" => to' \in {to, <<>>} /\ back' = back
    PROVE  Fate(g)'
  BY DEF Fate, id

\* No step of any goroutine, of the daemon or of main breaks what is known of
\* the request of a rotation.
LEMMA FateStep ==
    Mutex /\ Counts /\ WireInv /\ RotateInv /\ [Next]_vars =>
        \A g \in Goroutines : Endpoint[g] = "rotate" => Fate(g)'
  <1> SUFFICES ASSUME Mutex, Counts, WireInv, KnownRequests, [Next]_vars,
                      NEW g \in Goroutines, Endpoint[g] = "rotate", Fate(g)
               PROVE  Fate(g)'
    BY DEF RotateInv
  <1> USE DEF client, wire, daemon, main
  <1>1. ASSUME NEW h \in Goroutines, Serve(h) PROVE Fate(g)'
    <2>1. CASE g = h
      BY <1>1, <2>1 DEF Serve, Goto, Fate, id, KnownRequests, Mutex, Counts
    <2>2. CASE g # h
      BY <1>1, <2>2, FateKept DEF Serve, Goto, Mutex, Counts, id
    <2> QED
      BY <2>1, <2>2
  <1>2. ASSUME NEW h \in Goroutines, Refuse(h) PROVE Fate(g)'
    <2>1. CASE g = h
      <3>1. pc'[g] = "idle" /\ out'[g] \notin {200, 422, 500, 501}
        BY <1>2, <2>1 DEF Refuse, Counts
      <3> QED
        BY <3>1 DEF Fate
    <2>2. CASE g # h
      <3>1. out'[g] = out[g]
        BY <1>2, <2>2 DEF Refuse, Counts
      <3>2. /\ pc' = pc /\ calls' = calls /\ applied' = applied /\ orphans' = orphans
            /\ to' = to /\ back' = back
        BY <1>2 DEF Refuse
      <3> QED
        BY <3>1, <3>2, FateKept
    <2> QED
      BY <2>1, <2>2
  <1>3. ASSUME NEW h \in Goroutines, Expire(h) PROVE Fate(g)'
    BY <1>3, FateKept DEF Expire, id
  <1>4. ASSUME NEW h \in Goroutines, Lock(h) \/ Reuse(h) PROVE Fate(g)'
    <2>1. CASE g = h
      BY <1>4, <2>1 DEF Lock, Reuse, Goto, Fate, id, Mutex
    <2>2. CASE g # h
      BY <1>4, <2>2, FateKept DEF Lock, Reuse, Goto, Mutex, id
    <2> QED
      BY <2>1, <2>2
  <1>5. ASSUME NEW h \in Goroutines, Dial(h) \/ Write(h) PROVE Fate(g)'
    <2>0. pc[h] \in Inside /\ mu = h /\ back = <<>>
      BY <1>5 DEF Dial, Write, Mutex, Inside, WireInv, Carries
    <2>1. CASE g = h
      BY <1>5, <2>0, <2>1 DEF Dial, Write, Goto, Fate, id, Mutex
    <2>2. CASE g # h
      <3>1. pc[g] \notin Inside
        BY <2>0, <2>2 DEF Mutex
      <3> QED
        BY <1>5, <2>2, <3>1, FateKept DEF Dial, Write, Goto, Mutex, Inside, id
    <2> QED
      BY <2>1, <2>2
  <1>6. ASSUME NEW h \in Goroutines, DialFails(h) PROVE Fate(g)'
    <2>1. CASE g = h
      BY <1>6, <2>1 DEF DialFails, Finish, http_status, Failed, Goto, Fate, id, Mutex, Counts
    <2>2. CASE g # h
      BY <1>6, <2>2, FateKept DEF DialFails, Finish, Goto, Mutex, Counts, id
    <2> QED
      BY <2>1, <2>2
  <1>7. ASSUME NEW h \in Goroutines, WriteFails(h) \/ ReadFails(h) PROVE Fate(g)'
    <2>0. /\ DropConn /\ Finish(h, Failed) /\ calls' = calls /\ applied' = applied
          /\ pc[h] \in Inside /\ mu = h
      BY <1>7 DEF WriteFails, ReadFails, Mutex, Inside
    <2>1. CASE g = h
      BY <2>0, <2>1 DEF Finish, http_status, Failed, Goto, Fate, id, Mutex, Counts
    <2>2. CASE g # h
      <3>1. pc[g] \notin Inside
        BY <2>0, <2>2 DEF Mutex
      <3>2. id(g) \in orphans' => id(g) \in orphans
        BY <2>0, <2>2, DroppedRequests DEF id
      <3> QED
        BY <2>0, <2>2, <3>1, <3>2, FateKept DEF Finish, Goto, Mutex, Counts, Inside
    <2> QED
      BY <2>1, <2>2
  <1>8. ASSUME NEW h \in Goroutines, Read(h) PROVE Fate(g)'
    <2>0. /\ pc[h] = "read" /\ mu = h /\ Finish(h, result(h, Head(back)))
          /\ calls' = calls /\ applied' = applied /\ orphans' = orphans
      BY <1>8 DEF Read, Mutex, Inside
    <2>1. CASE g = h
      <3>1. PICK v \in Verdicts : back = <<Line(id(h), v)>>
        BY <1>8, <2>0 DEF Read, WireInv, Carries
      <3>2. Head(back) = Line(id(h), v) /\ back[1] = Line(id(h), v) /\ back # <<>>
        BY <3>1
      <3>3. v \in {0, 422, 500, 501}
        BY AgentAssumption
      <3>4. /\ v = 0 => Line(id(h), v).kind = "ok"
            /\ v # 0 => Line(id(h), v).kind = "error"
            /\ Line(id(h), v).code = v
        BY <2>1 DEF Line, id
      <3>5. result(h, Line(id(h), v)) = v
        BY <2>1, <3>4 DEF result
      <3>6. out'[h] = IF v = 0 THEN 200 ELSE v
        <4>1. http_status("rotate", v) = IF v = 0 THEN 200 ELSE v
          BY <3>3 DEF http_status, Failed
        <4>2. out' = [out EXCEPT ![h] = http_status("rotate", v)]
          BY <2>0, <2>1, <3>2, <3>5 DEF Finish
        <4> QED
          BY <4>1, <4>2 DEF Counts
      <3>7. pc'[h] = "idle"
        BY <2>0 DEF Finish, Goto, Mutex
      <3>8. /\ id(h) \notin orphans
            /\ v = 0 => id(h) \in applied
            /\ v # 0 => id(h) \notin applied
        BY <2>0, <2>1, <3>2, <3>4 DEF Fate
      <3> QED
        <4>1. id(g)' = id(g)
          BY <2>0 DEF id
        <4>2. out'[g] = 200 => id(g) \in applied'
          BY <2>0, <2>1, <3>3, <3>6, <3>8
        <4>3. out'[g] \in {422, 500, 501} => id(g) \notin applied' \cup orphans'
          BY <2>0, <2>1, <3>3, <3>6, <3>8
        <4> QED
          BY <2>1, <3>7, <4>1, <4>2, <4>3 DEF Fate
    <2>2. CASE g # h
      <3>1. pc[g] \notin Inside
        BY <2>0, <2>2 DEF Mutex
      <3> QED
        BY <2>0, <2>2, <3>1, FateKept DEF Finish, Goto, Mutex, Counts, Inside
    <2> QED
      BY <2>1, <2>2
  <1>9. CASE Answer
    <2>0. pc' = pc /\ calls' = calls /\ out' = out /\ orphans' = orphans
      BY <1>9 DEF Answer
    <2>1. PICK h \in Goroutines, v \in Verdicts :
              /\ mu = h /\ pc[h] = "read" /\ to = <<id(h)>> /\ to' = <<>>
              /\ back' = <<Line(id(h), v)>>
              /\ Apply(id(h), v)
      BY <1>9, AnsweredRequest
    <2>2. CASE g = h
      <3>1. id(h) \notin applied \cup orphans
        BY <2>1, <2>2 DEF Fate
      <3>2. /\ back'[1].kind = "ok" => v = 0
            /\ back'[1].kind = "error" => v # 0
        BY <2>1, <2>2 DEF Line, id
      <3>3. v = 0 => id(h) \in applied'
        BY <2>1, <2>2 DEF Apply, id
      <3>4. v # 0 => id(h) \notin applied'
        BY <2>1, <3>1 DEF Apply
      <3> QED
        BY <2>0, <2>1, <2>2, <3>1, <3>2, <3>3, <3>4 DEF Fate, id
    <2>3. CASE g # h
      <3>1. pc[g] \notin Inside
        BY <2>1, <2>3 DEF Mutex
      <3>2. id(g) \in applied <=> id(g) \in applied'
        BY <2>1, <2>3 DEF Apply, id
      <3> QED
        BY <2>0, <3>1, <3>2, FateKept DEF Inside
    <2> QED
      BY <2>2, <2>3
  <1>10. CASE ServeOrphan
    <2>0. pc' = pc /\ calls' = calls /\ out' = out /\ to' = to /\ back' = back
      BY <1>10 DEF ServeOrphan
    <2>1. PICK r \in orphans, v \in Verdicts : Apply(r, v) /\ orphans' = orphans \ {r}
      BY <1>10 DEF ServeOrphan
    <2>2. CASE id(g) # r
      BY <2>0, <2>1, <2>2, FateKept DEF Apply
    <2>3. CASE id(g) = r
      <3>1. applied \subseteq applied'
        BY <2>1 DEF Apply
      <3> QED
        BY <2>0, <2>1, <2>3, <3>1 DEF Fate, id
    <2> QED
      BY <2>2, <2>3
  <1>11. CASE Crash
    BY <1>11, FateKept DEF Crash, id
  <1>12. CASE Start \/ Signal
    BY <1>12, FateKept DEF Start, Signal
  <1>13. CASE Exit
    <2>0. DropConn /\ calls' = calls /\ applied' = applied /\ out' = out /\ pc'[g] = "idle"
      BY <1>13 DEF Exit
    <2>1. CASE pc[g] # "idle"
      BY <2>0, <2>1 DEF Fate, id
    <2>2. CASE pc[g] = "idle"
      <3>1. id(g) \in orphans' => id(g) \in orphans
        BY <2>0, <2>2, DroppedRequests DEF id
      <3> QED
        BY <2>0, <2>2, <3>1, FateKept
    <2> QED
      BY <2>1, <2>2
  <1>14. CASE UNCHANGED vars
    BY <1>14, FateKept DEF vars
  <1> QED
    BY <1>1, <1>2, <1>3, <1>4, <1>5, <1>6, <1>7, <1>8, <1>9, <1>10, <1>11, <1>12,
       <1>13, <1>14 DEF Next, Step

\* What /api/v1/keys/rotate answers is true of the daemon: 200 only for a key
\* that was taken over, a refusal only for one that was not and never will be.
THEOREM RotateAnswerCorrect == Spec => []RotateAnswerIsTrue
  <1>1. Init => IInv
    <2> SUFFICES ASSUME Init PROVE IInv
      OBVIOUS
    <2>1. Mutex /\ Counts
      BY InitMutex
    <2>2. WireInv /\ AnswersMatch
      BY <2>1 DEF Init, WireInv, Carries, AnswersMatch
    <2>3. RotateInv
      BY DEF Init, RotateInv, KnownRequests, Fate
    <2> QED
      BY <2>1, <2>2, <2>3 DEF IInv
  <1>2. IInv /\ [Next]_vars => IInv'
    BY MutexStep, WireStep, MatchStep, KnownStep, FateStep DEF IInv, RotateInv
  <1>3. IInv => RotateAnswerIsTrue
    BY DEF IInv, RotateInv, Fate, RotateAnswerIsTrue
  <1> QED
    BY <1>1, <1>2, <1>3, PTL DEF Spec

-----------------------------------------------------------------------------
(* Crashes and the calls they cost                                         *)

\* A connection is cached during every write and read, and a cached connection
\* whose other end is gone is one that no failed call has paid for yet.
StaleInv ==
    /\ stale \in Nat /\ crashes \in Nat
    /\ stale <= crashes
    /\ conn /\ ~srv => stale < crashes
    /\ \A h \in Goroutines : pc[h] \in {"write", "read"} => conn

\* A call that fails through no fault of its own uses up the connection that
\* a crash has left dead.
LEMMA StaleStep == Booleans /\ Mutex /\ StaleInv /\ [Next]_vars => StaleInv'
  <1> SUFFICES ASSUME Booleans, Mutex, StaleInv, [Next]_vars PROVE StaleInv'
    OBVIOUS
  <1> USE DEF StaleInv, client, wire, daemon, main
  <1>1. ASSUME NEW h \in Goroutines, Serve(h) \/ Refuse(h) \/ Expire(h) \/ Lock(h)
        PROVE  StaleInv'
    BY <1>1 DEF Serve, Refuse, Expire, Lock, Goto, Mutex
  <1>2. ASSUME NEW h \in Goroutines, Reuse(h) \/ Dial(h) \/ Write(h)
        PROVE  StaleInv'
    BY <1>2 DEF Reuse, Dial, Write, Goto, Mutex
  <1>3. ASSUME NEW h \in Goroutines, DialFails(h) \/ Read(h)
        PROVE  StaleInv'
    BY <1>3 DEF DialFails, Read, Finish, Goto, Mutex
  <1>4. ASSUME NEW h \in Goroutines, WriteFails(h) \/ ReadFails(h)
        PROVE  StaleInv'
    <2>1. /\ pc[h] \in {"write", "read"} /\ mu = h
          /\ conn' = FALSE /\ crashes' = crashes /\ CountStale(h)
          /\ pc' = [pc EXCEPT ![h] = "idle"]
          /\ ~late[h] => ~srv
      BY <1>4 DEF WriteFails, ReadFails, DropConn, Finish, Goto, Mutex, Inside,
                  DeadlineExceeded
    <2>2. \A g \in Goroutines : pc'[g] \notin {"write", "read"}
      BY <2>1 DEF Mutex, Inside
    <2>3. stale' \in Nat /\ stale' <= crashes'
      BY <2>1 DEF CountStale
    <2> QED
      BY <2>1, <2>2, <2>3
  <1>5. CASE Answer \/ ServeOrphan \/ Start \/ Signal
    BY <1>5 DEF Answer, ServeOrphan, Start, Signal
  <1>6. CASE Crash
    BY <1>6 DEF Crash
  <1>7. CASE Exit
    BY <1>7 DEF Exit, DropConn
  <1>8. CASE UNCHANGED vars
    BY <1>8 DEF vars
  <1> QED
    BY <1>1, <1>2, <1>3, <1>4, <1>5, <1>6, <1>7, <1>8 DEF Next, Step

\* For any number of goroutines sharing the cached connection, a crash of the
\* daemon costs at most one call that was in time and found the daemon up.
THEOREM OneFailureCorrect == Spec => []OneFailurePerCrash
  <1> DEFINE Inv == Booleans /\ Mutex /\ Counts /\ StaleInv
  <1>1. Init => Inv
    <2>1. Init => Booleans
      BY DEF Init, Booleans
    <2>2. Init => StaleInv
      <3> SUFFICES ASSUME Init PROVE StaleInv
        OBVIOUS
      <3>1. stale = 0 /\ crashes = 0 /\ conn = FALSE
        BY DEF Init
      <3>2. \A h \in Goroutines : pc[h] \notin {"write", "read"}
        BY DEF Init
      <3> QED
        BY <3>1, <3>2 DEF StaleInv
    <2> QED
      BY <2>1, <2>2, InitMutex
  <1>2. Inv /\ [Next]_vars => Inv'
    BY MutexStep, BooleansStep, StaleStep
  <1>3. Inv => OneFailurePerCrash
    BY DEF StaleInv, OneFailurePerCrash
  <1> QED
    BY <1>1, <1>2, <1>3, PTL DEF Spec
=============================================================================
