------------------------ MODULE ServiceHealthProofs ------------------------
(***************************************************************************)
(* Proofs about ServiceHealth, for every set of handlers and of the kinds  *)
(* of calls that clients make.                                             *)
(***************************************************************************)
EXTENDS ServiceHealth, Integers, SequenceTheorems, TLAPS

-----------------------------------------------------------------------------
(***************************************************************************)
(* Sequences without duplicates                                            *)
(***************************************************************************)
Unique(seq) == \A i, j \in DOMAIN seq : seq[i] = seq[j] => i = j

\* An element that is new joins the others.
LEMMA AppendUnique ==
    ASSUME NEW S, NEW seq \in Seq(S), Unique(seq), NEW x \in S, x \notin ToSet(seq)
    PROVE  /\ Append(seq, x) \in Seq(S) /\ Unique(Append(seq, x))
           /\ ToSet(Append(seq, x)) = ToSet(seq) \cup {x}
<1> DEFINE n == Len(seq)
           new == Append(seq, x)
<1>1. /\ new \in Seq(S) /\ Len(new) = n + 1 /\ n \in Nat
      /\ new[n + 1] = x /\ \A i \in 1..n : new[i] = seq[i]
  BY AppendProperties, LenProperties
<1>2. DOMAIN seq = 1..n /\ DOMAIN new = 1..(n + 1) /\ 1..(n + 1) = (1..n) \cup {n + 1}
  BY <1>1, LenProperties
<1> HIDE DEF n, new
<1>3. ToSet(new) = ToSet(seq) \cup {x}
  BY <1>1, <1>2 DEF ToSet
<1>4. ASSUME NEW i \in DOMAIN new, NEW j \in DOMAIN new, new[i] = new[j]
      PROVE  i = j
  <2>1. CASE i \in 1..n /\ j \in 1..n
    BY <1>1, <1>2, <1>4, <2>1 DEF Unique
  <2>2. CASE ~(i \in 1..n /\ j \in 1..n)
    BY <1>1, <1>2, <1>4, <2>2 DEF ToSet
  <2> QED
    BY <2>1, <2>2
<1> QED
  BY <1>1, <1>3, <1>4 DEF Unique, new

\* What is left once the element at a place is taken out.
LEMMA RemoveUnique ==
    ASSUME NEW S, NEW seq \in Seq(S), Unique(seq), NEW k \in DOMAIN seq
    PROVE  /\ RemoveAt(seq, k) \in Seq(S) /\ Unique(RemoveAt(seq, k))
           /\ ToSet(RemoveAt(seq, k)) = ToSet(seq) \ {seq[k]}
<1> DEFINE n == Len(seq)
           front == SubSeq(seq, 1, k - 1)
           back == SubSeq(seq, k + 1, n)
           rest == RemoveAt(seq, k)
<1>1. n \in Nat /\ DOMAIN seq = 1..n /\ k \in 1..n /\ \A i \in 1..n : seq[i] \in S
  BY LenProperties, ElementOfSeq
<1> HIDE DEF n
<1>2. /\ front \in Seq(S) /\ Len(front) = k - 1
      /\ \A i \in 1..(k - 1) : front[i] = seq[i]
  <2>1. /\ 1 \in Int /\ k - 1 \in Int /\ \A i \in 1..(k - 1) : seq[i] \in S
    BY <1>1
  <2>2. /\ front \in Seq(S) /\ Len(front) = IF 1 <= k - 1 THEN (k - 1) - 1 + 1 ELSE 0
        /\ \A i \in 1..((k - 1) - 1 + 1) : front[i] = seq[1 + i - 1]
    BY <2>1, SubSeqProperties
  <2> QED
    BY <1>1, <2>2
<1>3. /\ back \in Seq(S) /\ Len(back) = n - k
      /\ \A i \in 1..(n - k) : back[i] = seq[k + i]
  <2>1. /\ k + 1 \in Int /\ n \in Int /\ \A i \in (k + 1)..n : seq[i] \in S
    BY <1>1
  <2>2. /\ back \in Seq(S) /\ Len(back) = IF k + 1 <= n THEN n - (k + 1) + 1 ELSE 0
        /\ \A i \in 1..(n - (k + 1) + 1) : back[i] = seq[(k + 1) + i - 1]
    BY <2>1, SubSeqProperties, SMTT(60)
  <2> QED
    BY <1>1, <2>2, SMTT(60)
<1>4. rest = front \o back
  BY DEF RemoveAt, n
<1> HIDE DEF front, back, rest
<1>5. /\ rest \in Seq(S) /\ Len(rest) = n - 1
      /\ \A i \in 1..(n - 1) : rest[i] = IF i < k THEN seq[i] ELSE seq[i + 1]
  <2>1. /\ rest \in Seq(S) /\ Len(rest) = Len(front) + Len(back)
        /\ \A i \in 1..(Len(front) + Len(back)) :
              rest[i] = IF i <= Len(front) THEN front[i] ELSE back[i - Len(front)]
    BY <1>2, <1>3, <1>4, ConcatProperties, ZenonT(60)
  <2>2. Len(front) + Len(back) = n - 1
    BY <1>1, <1>2, <1>3
  <2>3. ASSUME NEW i \in 1..(n - 1)
        PROVE  rest[i] = IF i < k THEN seq[i] ELSE seq[i + 1]
    <3>1. rest[i] = IF i <= k - 1 THEN front[i] ELSE back[i - (k - 1)]
      BY <1>2, <2>1, <2>2
    <3>2. CASE i < k
      <4>1. i \in 1..(k - 1) /\ i <= k - 1
        BY <1>1, <3>2
      <4> QED
        BY <1>2, <3>1, <3>2, <4>1
    <3>3. CASE ~(i < k)
      <4>1. i - (k - 1) \in 1..(n - k) /\ ~(i <= k - 1) /\ k + (i - (k - 1)) = i + 1
        BY <1>1, <3>3
      <4> QED
        BY <1>3, <3>1, <3>3, <4>1
    <3> QED
      BY <3>2, <3>3
  <2> QED
    BY <2>1, <2>2, <2>3
<1>6. DOMAIN rest = 1..(n - 1)
  BY <1>5, LenProperties
<1>7. ASSUME NEW i \in 1..(n - 1)
      PROVE  /\ i \in 1..n /\ i + 1 \in 1..n
             /\ \E j \in 1..n : j # k /\ rest[i] = seq[j]
  <2>1. i \in 1..n /\ i + 1 \in 1..n
    BY <1>1
  <2>2. CASE i < k
    <3>1. i # k /\ rest[i] = seq[i]
      BY <1>1, <1>5, <2>2
    <3> QED
      BY <2>1, <3>1
  <2>3. CASE ~(i < k)
    <3>1. i + 1 # k /\ rest[i] = seq[i + 1]
      BY <1>1, <1>5, <2>3
    <3> QED
      BY <2>1, <3>1
  <2> QED
    BY <2>2, <2>3
<1>8. \A i \in 1..n : i # k => \E j \in 1..(n - 1) : rest[j] = seq[i]
  <2> SUFFICES ASSUME NEW i \in 1..n, i # k
               PROVE  \E j \in 1..(n - 1) : rest[j] = seq[i]
    OBVIOUS
  <2>1. CASE i < k
    <3>1. i \in 1..(n - 1)
      BY <1>1, <2>1
    <3> QED
      BY <1>5, <2>1, <3>1
  <2>2. CASE i > k
    <3>1. i - 1 \in 1..(n - 1) /\ ~(i - 1 < k) /\ (i - 1) + 1 = i
      BY <1>1, <2>2
    <3> QED
      BY <1>5, <3>1
  <2> QED
    BY <1>1, <2>1, <2>2
<1>9. ToSet(rest) = ToSet(seq) \ {seq[k]}
  <2>1. ToSet(rest) = {rest[i] : i \in 1..(n - 1)} /\ ToSet(seq) = {seq[i] : i \in 1..n}
    BY <1>1, <1>6 DEF ToSet
  <2>2. \A i, j \in 1..n : seq[i] = seq[j] => i = j
    BY <1>1 DEF Unique
  <2>3. ASSUME NEW y \in ToSet(rest)
        PROVE  y \in ToSet(seq) \ {seq[k]}
    <3>1. PICK i \in 1..(n - 1) : y = rest[i]
      BY <2>1
    <3>2. PICK j \in 1..n : j # k /\ rest[i] = seq[j]
      BY <1>7
    <3> QED
      BY <1>1, <2>1, <2>2, <3>1, <3>2
  <2>4. ToSet(seq) \ {seq[k]} \subseteq ToSet(rest)
    BY <1>8, <2>1
  <2> QED
    BY <2>3, <2>4
<1>10. ASSUME NEW i \in 1..(n - 1), NEW j \in 1..(n - 1), rest[i] = rest[j]
       PROVE  i = j
  <2> DEFINE a == IF i < k THEN i ELSE i + 1
             b == IF j < k THEN j ELSE j + 1
  <2>1. seq[a] = seq[b]
    BY <1>5, <1>10
  <2>2. a \in 1..n /\ b \in 1..n
    BY <1>1
  <2>3. a = b
    BY <1>1, <2>1, <2>2 DEF Unique
  <2>4. CASE i < k
    BY <1>1, <2>3, <2>4
  <2>5. CASE ~(i < k)
    BY <1>1, <2>3, <2>5
  <2> QED
    BY <2>4, <2>5
<1> QED
  BY <1>5, <1>6, <1>9, <1>10 DEF Unique, rest

\* The same for the one that is named, wherever it is.
LEMMA WithoutUnique ==
    ASSUME NEW S, NEW seq \in Seq(S), Unique(seq), NEW x
    PROVE  /\ Without(seq, x) \in Seq(S) /\ Unique(Without(seq, x))
           /\ ToSet(Without(seq, x)) = ToSet(seq) \ {x}
<1>1. CASE x \in ToSet(seq)
  <2> DEFINE k == CHOOSE i \in DOMAIN seq : seq[i] = x
  <2>1. k \in DOMAIN seq /\ seq[k] = x
    BY <1>1 DEF ToSet
  <2>2. Without(seq, x) = RemoveAt(seq, k)
    BY <1>1 DEF Without
  <2> HIDE DEF k
  <2> QED
    BY <2>1, <2>2, RemoveUnique
<1>2. CASE x \notin ToSet(seq)
  BY <1>2 DEF Without
<1> QED
  BY <1>1, <1>2

\* The first one is taken.
LEMMA TailUnique ==
    ASSUME NEW S, NEW seq \in Seq(S), Unique(seq), seq # <<>>
    PROVE  /\ Tail(seq) \in Seq(S) /\ Unique(Tail(seq)) /\ Head(seq) \in ToSet(seq)
           /\ ToSet(Tail(seq)) = ToSet(seq) \ {Head(seq)}
<1> DEFINE n == Len(seq)
           rest == Tail(seq)
<1>1. /\ rest \in Seq(S) /\ Len(rest) = n - 1 /\ n \in Nat \ {0}
      /\ \A i \in 1..(n - 1) : rest[i] = seq[i + 1]
      /\ DOMAIN seq = 1..n /\ Head(seq) = seq[1]
  BY HeadTailProperties, LenProperties, EmptySeq
<1>2. DOMAIN rest = 1..(n - 1)
  BY <1>1, LenProperties
<1> HIDE DEF n, rest
<1>3. \A i \in 1..(n - 1) : i + 1 \in 1..n /\ i + 1 # 1
  BY <1>1
<1>4. 1 \in 1..n /\ \A i \in 1..n : i # 1 => i - 1 \in 1..(n - 1) /\ (i - 1) + 1 = i
  BY <1>1
<1>5. \A i \in 1..n : i # 1 => rest[i - 1] = seq[i]
  BY <1>1, <1>4
<1>6. ToSet(rest) = ToSet(seq) \ {seq[1]}
  <2>1. ToSet(rest) = {rest[i] : i \in 1..(n - 1)} /\ ToSet(seq) = {seq[i] : i \in 1..n}
    BY <1>1, <1>2 DEF ToSet
  <2>2. \A i, j \in 1..n : seq[i] = seq[j] => i = j
    BY <1>1 DEF Unique
  <2>3. ToSet(rest) \subseteq ToSet(seq) \ {seq[1]}
    BY <1>1, <1>3, <1>4, <2>1, <2>2
  <2>4. ToSet(seq) \ {seq[1]} \subseteq ToSet(rest)
    BY <1>4, <1>5, <2>1
  <2> QED
    BY <2>3, <2>4
<1>7. ASSUME NEW i \in 1..(n - 1), NEW j \in 1..(n - 1), rest[i] = rest[j]
      PROVE  i = j
  <2>1. i + 1 \in 1..n /\ j + 1 \in 1..n
    BY <1>3
  <2>2. seq[i + 1] = seq[j + 1]
    BY <1>1, <1>7
  <2>3. i + 1 = j + 1
    BY <1>1, <2>1, <2>2, Zenon DEF Unique
  <2> QED
    BY <1>1, <2>3
<1> QED
  BY <1>1, <1>2, <1>4, <1>6, <1>7, SMTT(60) DEF Unique, ToSet, rest

-----------------------------------------------------------------------------
(***************************************************************************)
(* Types                                                                   *)
(***************************************************************************)
Calls == {Idle} \cup Proxied

\* The calls whose answers are under way from service s.
OnWire(s) ==
    {h \in Handlers : /\ call[h].pc = "wait" /\ ServiceOf(call[h].op) = s
                      /\ call[h].answer # NoAnswer}

\* What TypeOK says of one connection.
WireOK(s) ==
    /\ wire[s] \in Seq(Handlers) /\ Unique(wire[s])
    /\ ToSet(wire[s]) = OnWire(s)


\* TypeOK, connection by connection.
LEMMA TypeParts ==
    TypeOK <=> /\ serviceStatus \in [Service -> BOOLEAN]
               /\ startup \in [pc : Service \cup {"done"}, answer : {NoAnswer, "ok", "error"}]
               /\ running \in [Service -> BOOLEAN]
               /\ wire \in [Service -> Seq(Handlers)]
               /\ call \in [Handlers -> Calls]
               /\ latest \in {NoAnswer, "ok", "error"}
               /\ \A s \in Service : WireOK(s)
  BY DEF TypeOK, WireOK, OnWire, Unique, Calls

\* A call belongs to the connection of one service.
LEMMA CallShape ==
    ASSUME TypeOK, NEW h \in Handlers
    PROVE  /\ call[h] \in Calls
           /\ call[h].pc = "wait" => call[h] \in Proxied
           /\ ServiceOf(call[h].op) \in Service
           /\ call[h] = Idle => call[h].pc # "wait"
  BY DEF TypeOK, Calls, Proxied, Idle, ServiceOf, Service

\* A step that touches neither connections nor calls keeps what is said of them.
LEMMA WiresKept ==
    ASSUME TypeOK, UNCHANGED <<wire, call>>
    PROVE  /\ wire' \in [Service -> Seq(Handlers)] /\ call' \in [Handlers -> Calls]
           /\ \A s \in Service : WireOK(s)'
  BY TypeParts DEF WireOK, OnWire

\* A call that is answered joins the connection of its service.
LEMMA AnswerWires ==
    ASSUME TypeOK, NEW s \in Service, NEW h \in Handlers, NEW answer \in Answer,
           AnswerCall(s, h, answer)
    PROVE  /\ wire' \in [Service -> Seq(Handlers)] /\ call' \in [Handlers -> Calls]
           /\ \A t \in Service : WireOK(t)'
<1> DEFINE c == [call[h] EXCEPT !.answer = answer]
<1>1. call[h] \in Proxied /\ ServiceOf(call[h].op) = s /\ call[h].answer = NoAnswer
  BY CallShape DEF AnswerCall, Awaits
<1>2. c \in Proxied /\ c.pc = "wait" /\ c.op = call[h].op /\ c.answer # NoAnswer
  BY <1>1 DEF Proxied, Answer, NoAnswer
<1>3. /\ call' = [call EXCEPT ![h] = c]
      /\ wire' = [wire EXCEPT ![s] = Append(wire[s], h)]
  BY DEF AnswerCall
<1> HIDE DEF c
<1>4. /\ wire[s] \in Seq(Handlers) /\ Unique(wire[s]) /\ h \notin ToSet(wire[s])
  BY <1>1, TypeParts DEF WireOK, OnWire
<1>5. /\ Append(wire[s], h) \in Seq(Handlers) /\ Unique(Append(wire[s], h))
      /\ ToSet(Append(wire[s], h)) = ToSet(wire[s]) \cup {h}
  BY <1>4, AppendUnique
<1>6. /\ wire' \in [Service -> Seq(Handlers)] /\ wire'[s] = Append(wire[s], h)
      /\ \A t \in Service \ {s} : wire'[t] = wire[t]
      /\ call' \in [Handlers -> Calls] /\ call'[h] = c
      /\ \A g \in Handlers \ {h} : call'[g] = call[g]
  BY <1>2, <1>3, <1>5, TypeParts DEF Calls
<1>7. OnWire(s)' = OnWire(s) \cup {h} /\ \A t \in Service \ {s} : OnWire(t)' = OnWire(t)
  BY <1>1, <1>2, <1>6, ZenonT(60) DEF OnWire
<1>8. ASSUME NEW t \in Service
      PROVE  WireOK(t)'
  <2>1. CASE t = s
    BY <1>5, <1>6, <1>7, <2>1, TypeParts DEF WireOK
  <2>2. CASE t # s
    BY <1>6, <1>7, <2>2, TypeParts DEF WireOK
  <2> QED
    BY <2>1, <2>2
<1> QED
  BY <1>6, <1>8

\* A call of service s that ends leaves its connection.
LEMMA EndWires ==
    ASSUME TypeOK, NEW s \in Service, NEW h \in Handlers,
           call[h].pc = "wait", ServiceOf(call[h].op) = s,
           call' = [call EXCEPT ![h] = Idle],
           NEW rest \in Seq(Handlers), Unique(rest), ToSet(rest) = ToSet(wire[s]) \ {h},
           wire' = [wire EXCEPT ![s] = rest]
    PROVE  /\ wire' \in [Service -> Seq(Handlers)] /\ call' \in [Handlers -> Calls]
           /\ \A t \in Service : WireOK(t)'
<1>1. /\ wire' \in [Service -> Seq(Handlers)] /\ wire'[s] = rest
      /\ \A t \in Service \ {s} : wire'[t] = wire[t]
      /\ call' \in [Handlers -> Calls] /\ call'[h] = Idle
      /\ \A g \in Handlers \ {h} : call'[g] = call[g]
  BY TypeParts DEF Calls
<1>2. OnWire(s)' = OnWire(s) \ {h} /\ \A t \in Service \ {s} : OnWire(t)' = OnWire(t)
  BY <1>1 DEF OnWire, Idle
<1>3. ASSUME NEW t \in Service
      PROVE  WireOK(t)'
  <2>1. CASE t = s
    BY <1>1, <1>2, <2>1, TypeParts DEF WireOK
  <2>2. CASE t # s
    BY <1>1, <1>2, <2>2, TypeParts DEF WireOK
  <2> QED
    BY <2>1, <2>2
<1> QED
  BY <1>1, <1>3

\* Every reachable state is well typed: each answer under way belongs to one call
\* that waits for it, on the connection of its service.
THEOREM TypeCorrect == Spec => []TypeOK
<1>1. Init => TypeOK
  <2> SUFFICES ASSUME Init
               PROVE  TypeOK
    OBVIOUS
  <2>1. \A s \in Service : WireOK(s)
    BY EmptySeq DEF Init, WireOK, OnWire, Unique, ToSet, Idle
  <2> QED
    BY <2>1, TypeParts, EmptySeq DEF Init, Service, Calls, NoAnswer
<1>2. TypeOK /\ [Next]_vars => TypeOK'
  <2> SUFFICES ASSUME TypeOK, [Next]_vars
               PROVE  TypeOK'
    OBVIOUS
  <2> USE OperationsAssumption
  <2> DEFINE WiresOK == /\ wire' \in [Service -> Seq(Handlers)]
                        /\ call' \in [Handlers -> Calls]
                        /\ \A s \in Service : WireOK(s)'
             Probe == [pc : Service \cup {"done"}, answer : {NoAnswer, "ok", "error"}]
  <2>0. /\ serviceStatus \in [Service -> BOOLEAN] /\ startup \in Probe
        /\ running \in [Service -> BOOLEAN] /\ latest \in {NoAnswer, "ok", "error"}
        /\ "auth" \in Service /\ "event" \in Service
    BY DEF TypeOK, Service
  <2>1. ASSUME serviceStatus' \in [Service -> BOOLEAN], startup' \in Probe,
               running' \in [Service -> BOOLEAN], latest' \in {NoAnswer, "ok", "error"},
               WiresOK
        PROVE  TypeOK'
    BY <2>1 DEF TypeOK, WireOK, OnWire, Unique, Calls
  <2>2. ASSUME serviceStatus' \in [Service -> BOOLEAN], startup' \in Probe,
               running' \in [Service -> BOOLEAN], UNCHANGED <<wire, call, latest>>
        PROVE  TypeOK'
    <3>1. WiresOK
      BY <2>2, WiresKept
    <3> QED
      BY <2>0, <2>1, <2>2, <3>1
  <2> HIDE DEF WiresOK
  <2>3. ASSUME NEW s \in Service, AnswerProbe(s)
        PROVE  TypeOK'
    <3>1. startup' \in Probe
      BY <2>0, <2>3 DEF AnswerProbe
    <3> QED
      BY <2>0, <2>2, <2>3, <3>1 DEF AnswerProbe
  <2>4. ASSUME NEW s \in Service, ReceiveProbe(s) \/ TimeOutProbe(s)
        PROVE  TypeOK'
    <3>1. startup' \in Probe
      BY <2>4 DEF ReceiveProbe, TimeOutProbe, NextProbe, AfterProbe, Service
    <3>2. serviceStatus' \in [Service -> BOOLEAN]
      <4>1. (startup.answer = "ok") \in BOOLEAN
        OBVIOUS
      <4> QED
        BY <2>0, <2>4, <4>1 DEF ReceiveProbe, TimeOutProbe
    <3> QED
      BY <2>0, <2>2, <2>4, <3>1, <3>2 DEF ReceiveProbe, TimeOutProbe
  <2>5. ASSUME NEW s \in Service, NEW h \in Handlers, Reply(s, h) \/ Disconnect(s, h)
        PROVE  TypeOK'
    <3>1. call[h].pc = "wait" /\ ServiceOf(call[h].op) = s
      BY <2>5 DEF Reply, Disconnect, AnswerCall, Awaits
    <3>2. AnswersTo(call[h].op) \subseteq Answer
      BY <3>1, CallShape DEF AnswersTo, AuthAnswers, Answer, Proxied, Operation
    <3>3. s = "event" => AnswersTo(call[h].op) = {"ok", "error"}
      BY <3>1 DEF ServiceOf, AnswersTo
    <3>4. PICK answer \in Answer :
             AnswerCall(s, h, answer) /\ (s = "event" => answer \in {"ok", "error"})
      BY <2>5, <3>2, <3>3 DEF Reply, Disconnect, Answer
    <3>5. WiresOK
      BY <3>4, AnswerWires DEF WiresOK
    <3> QED
      BY <2>0, <2>1, <3>4, <3>5 DEF AnswerCall
  <2>6. ASSUME NEW s \in Service, Receive(s)
        PROVE  TypeOK'
    <3> DEFINE h == Head(wire[s])
    <3>1. /\ wire[s] \in Seq(Handlers) /\ Unique(wire[s]) /\ wire[s] # <<>>
          /\ ToSet(wire[s]) = OnWire(s)
      BY <2>6, TypeParts DEF Receive, WireOK
    <3>2. /\ Tail(wire[s]) \in Seq(Handlers) /\ Unique(Tail(wire[s])) /\ h \in OnWire(s)
          /\ ToSet(Tail(wire[s])) = ToSet(wire[s]) \ {h}
      BY <3>1, TailUnique
    <3>3. h \in Handlers /\ call[h].pc = "wait" /\ ServiceOf(call[h].op) = s
      BY <3>2 DEF OnWire
    <3>4. /\ call' = [call EXCEPT ![h] = Idle] /\ wire' = [wire EXCEPT ![s] = Tail(wire[s])]
          /\ UNCHANGED <<startup, running, latest>>
      BY <2>6 DEF Receive
    <3>5. serviceStatus' \in [Service -> BOOLEAN]
      <4>1. Updated(s, call[h].op, call[h].answer) \in BOOLEAN
        BY <2>0 DEF Updated
      <4>2. serviceStatus' =
               [serviceStatus EXCEPT ![s] = Updated(s, call[h].op, call[h].answer)]
        BY <2>6 DEF Receive
      <4> QED
        BY <2>0, <4>1, <4>2
    <3> HIDE DEF h
    <3>6. WiresOK
      BY <3>2, <3>3, <3>4, EndWires DEF WiresOK
    <3> QED
      BY <2>0, <2>1, <3>4, <3>5, <3>6
  <2>7. ASSUME NEW h \in Handlers, TimeOut(h)
        PROVE  TypeOK'
    <3>1. call[h].pc = "wait" /\ ServiceOf(call[h].op) = "auth"
      BY <2>7 DEF TimeOut, Limited, ServiceOf
    <3>2. wire["auth"] \in Seq(Handlers) /\ Unique(wire["auth"])
      BY <2>0, TypeParts DEF WireOK
    <3> DEFINE rest == Without(wire["auth"], h)
    <3>3. /\ rest \in Seq(Handlers) /\ Unique(rest)
          /\ ToSet(rest) = ToSet(wire["auth"]) \ {h}
      BY <3>2, WithoutUnique
    <3>4. /\ call' = [call EXCEPT ![h] = Idle] /\ wire' = [wire EXCEPT !["auth"] = rest]
          /\ serviceStatus' = [serviceStatus EXCEPT !["auth"] = FALSE]
          /\ UNCHANGED <<startup, running, latest>>
      BY <2>7 DEF TimeOut
    <3> HIDE DEF rest
    <3>5. WiresOK
      BY <2>0, <3>1, <3>3, <3>4, EndWires DEF WiresOK
    <3>6. serviceStatus' \in [Service -> BOOLEAN]
      BY <2>0, <3>4
    <3> QED
      BY <2>0, <2>1, <3>4, <3>5, <3>6
  <2>8. ASSUME NEW h \in Handlers, NEW op \in Operations, Send(h, op)
        PROVE  TypeOK'
    <3> DEFINE c == [pc |-> "wait", op |-> op, answer |-> NoAnswer]
    <3>1. c \in Calls /\ c.answer = NoAnswer
      BY DEF Calls, Proxied
    <3>2. call[h].pc # "wait" /\ call' = [call EXCEPT ![h] = c] /\ wire' = wire
      BY <2>8 DEF Send, Idle
    <3> HIDE DEF c
    <3>3. /\ call' \in [Handlers -> Calls] /\ call'[h] = c
          /\ \A g \in Handlers \ {h} : call'[g] = call[g]
      BY <3>1, <3>2, TypeParts
    <3>4. \A s \in Service : OnWire(s)' = OnWire(s)
      BY <3>1, <3>2, <3>3 DEF OnWire
    <3>5. WiresOK
      BY <3>2, <3>3, <3>4, TypeParts DEF WiresOK, WireOK
    <3> QED
      BY <2>0, <2>1, <2>8, <3>5 DEF Send
  <2>9. ASSUME NEW s \in Service, Stop(s) \/ Start(s)
        PROVE  TypeOK'
    <3>1. running' \in [Service -> BOOLEAN]
      BY <2>0, <2>9 DEF Stop, Start
    <3> QED
      BY <2>0, <2>2, <2>9, <3>1 DEF Stop, Start
  <2>10. CASE UNCHANGED vars
    BY <2>0, <2>2, <2>10 DEF vars
  <2> QED
    BY <2>3, <2>4, <2>5, <2>6, <2>7, <2>8, <2>9, <2>10 DEF Next
<1> QED
  BY <1>1, <1>2, PTL DEF Spec

-----------------------------------------------------------------------------
(***************************************************************************)
(* The connection to the Event service                                     *)
(***************************************************************************)
Delivered == wire["event"]

\* Every answer under way on the connection belongs to one event call that waits for
\* it, and before the startup check ends none has been counted.
ConnectionOK ==
    /\ serviceStatus \in [Service -> BOOLEAN]
    /\ startup \in [pc : Service \cup {"done"}, answer : {NoAnswer, "ok", "error"}]
    /\ DOMAIN wire = Service
    /\ call \in [Handlers -> Calls]
    /\ Delivered \in Seq(Handlers)
    /\ \A i \in 1..Len(Delivered) :
          /\ call[Delivered[i]].pc = "wait"
          /\ call[Delivered[i]].op = "event"
          /\ call[Delivered[i]].answer \in {"ok", "error"}
    /\ \A i, j \in 1..Len(Delivered) : Delivered[i] = Delivered[j] => i = j
    /\ latest \in {NoAnswer, "ok", "error"}
    /\ startup.pc # "done" => latest = NoAnswer

\* The strengthening: the last answer under way, or the status once none is, says
\* what the Event service answered last.
LastCounts ==
    startup.pc = "done" /\ latest # NoAnswer =>
        IF Delivered = <<>> THEN serviceStatus["event"] = (latest = "ok")
        ELSE call[Delivered[Len(Delivered)]].answer = latest

CountsInv == ConnectionOK /\ LastCounts

\* Only event calls wait on the connection of the Event service.
LEMMA EventWaits ==
    ASSUME ConnectionOK, NEW h \in Handlers, Awaits(h, "event")
    PROVE  /\ call[h] \in Proxied /\ call[h].op = "event"
           /\ \A i \in 1..Len(Delivered) : Delivered[i] # h
<1>1. call[h] \in Proxied
  BY DEF ConnectionOK, Calls, Awaits, Idle
<1>2. call[h].op = "event" /\ call[h].answer = NoAnswer
  BY <1>1 DEF Awaits, ServiceOf, Proxied
<1> QED
  BY <1>1, <1>2 DEF ConnectionOK, NoAnswer

\* A step that leaves the connection, and the calls whose answers are on it, alone.
LEMMA ConnectionKept ==
    ASSUME CountsInv,
           serviceStatus' \in [Service -> BOOLEAN],
           startup' \in [pc : Service \cup {"done"}, answer : {NoAnswer, "ok", "error"}],
           DOMAIN wire' = Service, wire'["event"] = wire["event"],
           call' \in [Handlers -> Calls],
           \A i \in 1..Len(Delivered) : call'[Delivered[i]] = call[Delivered[i]],
           latest' = latest,
           startup'.pc # "done" => startup.pc # "done",
           startup.pc = "done" => serviceStatus'["event"] = serviceStatus["event"]
    PROVE  CountsInv'
<1>1. Delivered' = Delivered
  BY DEF Delivered
<1>2. ConnectionOK'
  BY <1>1, SMTT(60) DEF CountsInv, ConnectionOK
<1>3. LastCounts'
  <2> SUFFICES ASSUME startup'.pc = "done", latest # NoAnswer
               PROVE  IF Delivered = <<>> THEN serviceStatus'["event"] = (latest = "ok")
                      ELSE call'[Delivered[Len(Delivered)]].answer = latest
    BY <1>1 DEF LastCounts
  <2>1. startup.pc = "done"
    BY DEF CountsInv, ConnectionOK
  <2>2. CASE Delivered = <<>>
    BY <2>1, <2>2, Zenon DEF CountsInv, LastCounts
  <2>3. CASE Delivered # <<>>
    <3>1. Len(Delivered) \in 1..Len(Delivered)
      BY <2>3, EmptySeq, LenProperties DEF CountsInv, ConnectionOK
    <3> QED
      BY <2>1, <2>3, <3>1 DEF CountsInv, LastCounts
  <2> QED
    BY <2>2, <2>3
<1> QED
  BY <1>2, <1>3 DEF CountsInv

\* An answer of the Event service joins the others, and counts as the last one.
LEMMA AnswerKept ==
    ASSUME CountsInv, NEW h \in Handlers, NEW answer \in {"ok", "error"},
           AnswerCall("event", h, answer)
    PROVE  CountsInv'
<1> DEFINE w == Delivered
           n == Len(w)
<1>1. /\ call[h] \in Proxied /\ call[h].op = "event" /\ call[h].pc = "wait"
      /\ \A i \in 1..n : w[i] # h
  BY EventWaits DEF CountsInv, AnswerCall, Awaits
<1>2. w \in Seq(Handlers) /\ n \in Nat
  BY LenProperties DEF CountsInv, ConnectionOK
<1>3. /\ Delivered' = Append(w, h) /\ DOMAIN wire' = Service
      /\ serviceStatus' = serviceStatus /\ startup' = startup
  BY DEF AnswerCall, Delivered, CountsInv, ConnectionOK, Service
<1>4. /\ Delivered' \in Seq(Handlers) /\ Len(Delivered') = n + 1
      /\ Delivered'[n + 1] = h /\ \A i \in 1..n : Delivered'[i] = w[i]
  BY <1>2, <1>3, AppendProperties
<1>5. /\ call'[h].pc = "wait" /\ call'[h].op = "event" /\ call'[h].answer = answer
      /\ call' \in [Handlers -> Calls]
      /\ \A g \in Handlers \ {h} : call'[g] = call[g]
  <2> DEFINE c == [call[h] EXCEPT !.answer = answer]
  <2>1. c \in Proxied /\ c.pc = "wait" /\ c.op = "event" /\ c.answer = answer
    BY <1>1 DEF Proxied, Answer
  <2>2. call' = [call EXCEPT ![h] = c]
    BY DEF AnswerCall
  <2> HIDE DEF c
  <2> QED
    BY <2>1, <2>2 DEF CountsInv, ConnectionOK, Calls
<1>6. /\ latest' = IF startup.pc = "done" THEN answer ELSE latest
      /\ latest \in {NoAnswer, "ok", "error"} /\ (startup.pc # "done" => latest = NoAnswer)
  BY DEF AnswerCall, CountsInv, ConnectionOK
<1> HIDE DEF n, w
<1>7. \A i \in 1..n : w[i] \in Handlers /\ call'[w[i]] = call[w[i]]
  BY <1>1, <1>2, <1>5, ElementOfSeq DEF n
<1>8. ASSUME NEW i \in 1..(n + 1)
      PROVE  /\ call'[Delivered'[i]].pc = "wait" /\ call'[Delivered'[i]].op = "event"
             /\ call'[Delivered'[i]].answer \in {"ok", "error"}
  <2>1. CASE i = n + 1
    BY <1>4, <1>5, <2>1
  <2>2. CASE i # n + 1
    <3>1. i \in 1..n
      BY <1>2, <2>2
    <3> QED
      BY <1>4, <1>7, <3>1 DEF CountsInv, ConnectionOK, n, w
  <2> QED
    BY <2>1, <2>2
<1>9. ASSUME NEW i \in 1..(n + 1), NEW j \in 1..(n + 1), Delivered'[i] = Delivered'[j]
      PROVE  i = j
  <2>1. \A k \in 1..(n + 1) : k = n + 1 \/ k \in 1..n
    BY <1>2
  <2>2. CASE i \in 1..n /\ j \in 1..n
    BY <1>4, <1>9, <2>2 DEF CountsInv, ConnectionOK, n, w
  <2>3. CASE i = n + 1 \/ j = n + 1
    BY <1>1, <1>4, <1>9, <2>1, <2>3
  <2> QED
    BY <2>1, <2>2, <2>3
<1>10. ConnectionOK'
  BY <1>3, <1>4, <1>5, <1>6, <1>8, <1>9 DEF CountsInv, ConnectionOK
<1>11. LastCounts'
  <2>1. Delivered' # <<>>
    BY <1>2, <1>4, EmptySeq
  <2> QED
    BY <1>3, <1>4, <1>5, <1>6, <2>1 DEF LastCounts
<1> QED
  BY <1>10, <1>11 DEF CountsInv

\* The gateway handles the first answer; if it was the only one, the status is what
\* it says.
LEMMA ReceiveKept ==
    ASSUME CountsInv, Receive("event")
    PROVE  CountsInv'
<1> DEFINE w == Delivered
           n == Len(w)
           h == Head(w)
<1>1. w \in Seq(Handlers) /\ w # <<>> /\ n \in Nat \ {0}
  BY EmptySeq, LenProperties DEF CountsInv, ConnectionOK, Receive, Delivered
<1>2. /\ h = w[1] /\ h \in Handlers /\ Delivered' = Tail(w) /\ DOMAIN wire' = Service
      /\ startup' = startup /\ latest' = latest
      /\ call' = [call EXCEPT ![h] = Idle]
  BY <1>1, HeadTailProperties DEF Receive, Delivered, CountsInv, ConnectionOK, Service
<1>3. /\ Delivered' \in Seq(Handlers) /\ Len(Delivered') = n - 1
      /\ \A i \in 1..(n - 1) : Delivered'[i] = w[i + 1]
  BY <1>1, <1>2, HeadTailProperties
<1>4. call[h].op = "event" /\ call[h].answer \in {"ok", "error"}
  BY <1>1, <1>2 DEF CountsInv, ConnectionOK
<1>5. /\ serviceStatus' \in [Service -> BOOLEAN]
      /\ serviceStatus'["event"] = (call[h].answer = "ok")
  <2>1. Updated("event", call[h].op, call[h].answer) = (call[h].answer = "ok")
    BY <1>4 DEF Updated, SetsUp, SetsDown
  <2>2. serviceStatus' =
           [serviceStatus EXCEPT !["event"] = Updated("event", call[h].op, call[h].answer)]
    BY DEF Receive, Delivered
  <2> HIDE DEF h
  <2>3. serviceStatus' = [serviceStatus EXCEPT !["event"] = (call[h].answer = "ok")]
    BY <2>1, <2>2
  <2>4. serviceStatus \in [Service -> BOOLEAN] /\ "event" \in Service
    BY DEF CountsInv, ConnectionOK, Service
  <2> QED
    BY <2>3, <2>4
<1>6. call' \in [Handlers -> Calls] /\ \A g \in Handlers \ {h} : call'[g] = call[g]
  BY <1>2 DEF CountsInv, ConnectionOK, Calls
<1> HIDE DEF h, n, w
<1>7. ASSUME NEW i \in 1..(n - 1)
      PROVE  /\ i + 1 \in 1..n /\ call'[Delivered'[i]] = call[w[i + 1]]
  <2>1. i + 1 \in 1..n /\ i + 1 # 1 /\ 1 \in 1..n
    BY <1>1
  <2>2. w[i + 1] # h /\ w[i + 1] \in Handlers
    BY <1>1, <1>2, <2>1, ElementOfSeq DEF CountsInv, ConnectionOK, n, w
  <2> QED
    BY <1>3, <1>6, <2>1, <2>2
<1>8. ConnectionOK'
  <2>1. \A i \in 1..Len(Delivered') :
           /\ call'[Delivered'[i]].pc = "wait" /\ call'[Delivered'[i]].op = "event"
           /\ call'[Delivered'[i]].answer \in {"ok", "error"}
    BY <1>3, <1>7 DEF CountsInv, ConnectionOK, n, w
  <2>2. ASSUME NEW i \in 1..Len(Delivered'), NEW j \in 1..Len(Delivered'),
               Delivered'[i] = Delivered'[j]
        PROVE  i = j
    <3>1. w[i + 1] = w[j + 1] /\ i + 1 \in 1..n /\ j + 1 \in 1..n
      BY <1>3, <1>7, <2>2
    <3>2. i + 1 = j + 1
      BY <3>1 DEF CountsInv, ConnectionOK, n, w
    <3> QED
      BY <1>1, <1>3, <3>2
  <2> QED
    BY <1>2, <1>3, <1>5, <1>6, <2>1, <2>2 DEF CountsInv, ConnectionOK
<1>9. LastCounts'
  <2> SUFFICES ASSUME startup.pc = "done", latest # NoAnswer
               PROVE  IF Delivered' = <<>> THEN serviceStatus'["event"] = (latest = "ok")
                      ELSE call'[Delivered'[Len(Delivered')]].answer = latest
    BY <1>2 DEF LastCounts
  <2>1. call[w[n]].answer = latest
    BY <1>1 DEF CountsInv, LastCounts, n, w
  <2>2. CASE n = 1
    <3>1. Delivered' = <<>>
      BY <1>1, <1>3, <2>2, EmptySeq
    <3>2. call[h].answer = latest
      BY <1>2, <2>1, <2>2
    <3> QED
      BY <1>5, <3>1, <3>2
  <2>3. CASE n # 1
    <3>1. n - 1 \in 1..(n - 1) /\ (n - 1) + 1 = n
      BY <1>1, <2>3
    <3>2. Delivered' # <<>>
      BY <1>1, <1>3, <2>3, EmptySeq
    <3>3. call'[Delivered'[n - 1]] = call[w[n]]
      BY <1>7, <3>1
    <3> QED
      BY <1>3, <2>1, <3>2, <3>3
  <2> QED
    BY <2>2, <2>3
<1> QED
  BY <1>8, <1>9 DEF CountsInv
\* A handler whose answer is not on the connection of the Event service changes
\* nothing there.
LEMMA ElsewhereKept ==
    ASSUME CountsInv, NEW h \in Handlers, \A i \in 1..Len(Delivered) : Delivered[i] # h,
           \A g \in Handlers \ {h} : call'[g] = call[g], call'[h] \in Calls,
           DOMAIN call' = Handlers, call' = [g \in Handlers |-> call'[g]],
           DOMAIN wire' = Service, wire'["event"] = wire["event"],
           serviceStatus' \in [Service -> BOOLEAN],
           serviceStatus'["event"] = serviceStatus["event"],
           startup' = startup, latest' = latest
    PROVE  CountsInv'
<1>1. \A i \in 1..Len(Delivered) : call'[Delivered[i]] = call[Delivered[i]]
  BY ElementOfSeq DEF CountsInv, ConnectionOK
<1>2. call' \in [Handlers -> Calls]
  BY DEF CountsInv, ConnectionOK
<1>3. startup' \in [pc : Service \cup {"done"}, answer : {NoAnswer, "ok", "error"}]
  BY DEF CountsInv, ConnectionOK
<1> QED
  BY <1>1, <1>2, <1>3, ConnectionKept

\* The kinds of calls to the Auth service are not event calls.
LEMMA AuthWaits ==
    ASSUME CountsInv, NEW h \in Handlers,
           \/ call[h] = Idle
           \/ call[h].pc = "wait" /\ ServiceOf(call[h].op) = "auth"
    PROVE  \A i \in 1..Len(Delivered) : Delivered[i] # h
  BY DEF CountsInv, ConnectionOK, ServiceOf, Idle

\* No step breaks the strengthening.
LEMMA CountsStep == TypeOK /\ CountsInv /\ [Next]_vars => CountsInv'
<1> SUFFICES ASSUME TypeOK, CountsInv, [Next]_vars
             PROVE  CountsInv'
  OBVIOUS
<1> USE OperationsAssumption DEF NoAnswer
<1>0. /\ serviceStatus \in [Service -> BOOLEAN] /\ DOMAIN wire = Service
      /\ startup \in [pc : Service \cup {"done"}, answer : {NoAnswer, "ok", "error"}]
      /\ call \in [Handlers -> Calls] /\ "event" \in Service /\ "auth" \in Service
  BY DEF CountsInv, ConnectionOK, Service
<1>1. ASSUME NEW s \in Service, AnswerProbe(s)
      PROVE  CountsInv'
  <2>1. /\ startup' \in [pc : Service \cup {"done"}, answer : {NoAnswer, "ok", "error"}]
        /\ startup'.pc = startup.pc
    BY <1>0, <1>1 DEF AnswerProbe
  <2> QED
    BY <1>0, <1>1, <2>1, ConnectionKept DEF AnswerProbe
<1>2. ASSUME NEW s \in Service, ReceiveProbe(s) \/ TimeOutProbe(s)
      PROVE  CountsInv'
  <2>1. /\ startup.pc = s /\ startup.pc # "done"
        /\ startup' = [pc |-> AfterProbe(s), answer |-> NoAnswer]
        /\ UNCHANGED <<wire, call, latest>>
    BY <1>2 DEF ReceiveProbe, TimeOutProbe, NextProbe, Service
  <2>2. startup' \in [pc : Service \cup {"done"}, answer : {NoAnswer, "ok", "error"}]
    BY <2>1 DEF AfterProbe, Service
  <2>3. serviceStatus' \in [Service -> BOOLEAN]
    <3>1. (startup.answer = "ok") \in BOOLEAN
      OBVIOUS
    <3> QED
      BY <1>0, <1>2, <3>1 DEF ReceiveProbe, TimeOutProbe
  <2>4. startup'.pc # "done" => startup.pc # "done"
    BY <2>1
  <2> QED
    BY <1>0, <2>1, <2>2, <2>3, <2>4, ConnectionKept
<1>3. ASSUME NEW s \in Service, NEW h \in Handlers, Reply(s, h) \/ Disconnect(s, h)
      PROVE  CountsInv'
  <2>1. CASE s = "event"
    <3>1. Awaits(h, "event") => AnswersTo(call[h].op) = {"ok", "error"}
      BY EventWaits DEF CountsInv, AnswersTo
    <3>2. \E answer \in {"ok", "error"} : AnswerCall("event", h, answer)
      BY <1>3, <2>1, <3>1 DEF Reply, Disconnect
    <3> QED
      BY <3>2, AnswerKept
  <2>2. CASE s = "auth"
    <3>1. PICK answer \in Answer : AnswerCall("auth", h, answer)
      <4>1. CASE Reply(s, h)
        <5>1. PICK answer \in AnswersTo(call[h].op) : AnswerCall("auth", h, answer)
          BY <2>2, <4>1 DEF Reply
        <5>2. call[h] \in Proxied
          BY <1>0, <5>1 DEF AnswerCall, Awaits, Calls, Idle
        <5>3. AnswersTo(call[h].op) \subseteq Answer
          BY <5>2 DEF AnswersTo, AuthAnswers, Answer, Proxied, Operation
        <5> QED
          BY <5>1, <5>3
      <4>2. CASE Disconnect(s, h)
        BY <2>2, <4>2 DEF Disconnect, Answer
      <4> QED
        BY <1>3, <4>1, <4>2
    <3> DEFINE c == [call[h] EXCEPT !.answer = answer]
    <3>2. /\ call' = [call EXCEPT ![h] = c] /\ latest' = latest /\ Awaits(h, "auth")
          /\ serviceStatus' = serviceStatus /\ startup' = startup
          /\ DOMAIN wire' = Service /\ wire'["event"] = wire["event"]
      BY <1>0, <3>1 DEF AnswerCall
    <3>3. c \in Calls
      BY <1>0, <3>2 DEF Awaits, Calls, Proxied, Idle
    <3> HIDE DEF c
    <3>4. /\ \A g \in Handlers \ {h} : call'[g] = call[g]
          /\ call'[h] \in Calls /\ DOMAIN call' = Handlers
          /\ call' = [g \in Handlers |-> call'[g]]
      BY <1>0, <3>2, <3>3
    <3>5. \A i \in 1..Len(Delivered) : Delivered[i] # h
      BY <3>2, AuthWaits DEF Awaits
    <3> QED
      BY <1>0, <3>2, <3>4, <3>5, ElsewhereKept
  <2> QED
    BY <2>1, <2>2 DEF Service
<1>4. ASSUME Receive("auth")
      PROVE  CountsInv'
  <2> DEFINE h == Head(wire["auth"])
  <2>1. h \in OnWire("auth")
    BY <1>0, <1>4, TailUnique, TypeParts DEF Receive, WireOK
  <2>2. /\ h \in Handlers /\ call[h].pc = "wait" /\ ServiceOf(call[h].op) = "auth"
    BY <2>1 DEF OnWire
  <2>3. /\ call' = [call EXCEPT ![h] = Idle] /\ DOMAIN wire' = Service
        /\ wire'["event"] = wire["event"] /\ UNCHANGED <<startup, latest>>
    BY <1>0, <1>4 DEF Receive
  <2>4. /\ serviceStatus' \in [Service -> BOOLEAN]
        /\ serviceStatus'["event"] = serviceStatus["event"]
    <3>1. Updated("auth", call[h].op, call[h].answer) \in BOOLEAN
      BY <1>0 DEF Updated
    <3>2. serviceStatus' =
             [serviceStatus EXCEPT !["auth"] = Updated("auth", call[h].op, call[h].answer)]
      BY <1>4 DEF Receive
    <3> QED
      BY <1>0, <3>1, <3>2
  <2> HIDE DEF h
  <2>5. \A i \in 1..Len(Delivered) : Delivered[i] # h
    BY <2>2, AuthWaits
  <2>6. /\ \A g \in Handlers \ {h} : call'[g] = call[g]
        /\ call'[h] \in Calls /\ DOMAIN call' = Handlers
        /\ call' = [g \in Handlers |-> call'[g]]
    BY <1>0, <2>2, <2>3 DEF Calls
  <2> QED
    BY <2>2, <2>3, <2>4, <2>5, <2>6, ElsewhereKept
<1>5. ASSUME Receive("event")
      PROVE  CountsInv'
  BY <1>5, ReceiveKept
<1>6. ASSUME NEW h \in Handlers, TimeOut(h)
      PROVE  CountsInv'
  <2>1. /\ call[h].pc = "wait" /\ ServiceOf(call[h].op) = "auth"
        /\ call' = [call EXCEPT ![h] = Idle] /\ DOMAIN wire' = Service
        /\ wire'["event"] = wire["event"] /\ UNCHANGED <<startup, latest>>
        /\ serviceStatus' = [serviceStatus EXCEPT !["auth"] = FALSE]
    BY <1>0, <1>6 DEF TimeOut, Limited, ServiceOf
  <2>2. /\ serviceStatus' \in [Service -> BOOLEAN]
        /\ serviceStatus'["event"] = serviceStatus["event"]
    BY <1>0, <2>1
  <2>3. \A i \in 1..Len(Delivered) : Delivered[i] # h
    BY <2>1, AuthWaits
  <2>4. /\ \A g \in Handlers \ {h} : call'[g] = call[g]
        /\ call'[h] \in Calls /\ DOMAIN call' = Handlers
        /\ call' = [g \in Handlers |-> call'[g]]
    BY <1>0, <2>1 DEF Calls
  <2> QED
    BY <2>1, <2>2, <2>3, <2>4, ElsewhereKept
<1>7. ASSUME NEW h \in Handlers, NEW op \in Operations, Send(h, op)
      PROVE  CountsInv'
  <2> DEFINE c == [pc |-> "wait", op |-> op, answer |-> NoAnswer]
  <2>1. c \in Calls
    BY DEF Calls, Proxied
  <2>2. /\ call[h] = Idle /\ call' = [call EXCEPT ![h] = c]
        /\ UNCHANGED <<serviceStatus, startup, wire, latest>>
    BY <1>7 DEF Send
  <2> HIDE DEF c
  <2>3. \A i \in 1..Len(Delivered) : Delivered[i] # h
    BY <2>2, AuthWaits
  <2>4. /\ \A g \in Handlers \ {h} : call'[g] = call[g]
        /\ call'[h] \in Calls /\ DOMAIN call' = Handlers
        /\ call' = [g \in Handlers |-> call'[g]]
    BY <1>0, <2>1, <2>2
  <2> QED
    BY <1>0, <2>2, <2>3, <2>4, ElsewhereKept
<1>8. ASSUME UNCHANGED <<serviceStatus, startup, wire, call, latest>>
      PROVE  CountsInv'
  BY <1>0, <1>8, ConnectionKept
<1>9. ASSUME NEW s \in Service, Stop(s) \/ Start(s)
      PROVE  CountsInv'
  BY <1>8, <1>9 DEF Stop, Start
<1>10. CASE UNCHANGED vars
  BY <1>8, <1>10 DEF vars
<1> QED
  BY <1>1, <1>2, <1>3, <1>4, <1>5, <1>6, <1>7, <1>9, <1>10 DEF Next, Service

\* Once the startup check is over and no answer of the Event service is under way, the
\* status is what its last answer says, however the calls of clients overlap.
THEOREM LastAnswerCounts == Spec => []LatestAnswerCounts
<1>1. Init => CountsInv
  <2> SUFFICES ASSUME Init
               PROVE  CountsInv
    OBVIOUS
  <2>1. Delivered = <<>> /\ Len(Delivered) = 0 /\ Delivered \in Seq(Handlers)
    BY EmptySeq DEF Init, Delivered, Service
  <2> QED
    BY <2>1 DEF Init, CountsInv, ConnectionOK, LastCounts, Service, Calls, NoAnswer
<1>2. CountsInv => LatestAnswerCounts
  BY Zenon DEF CountsInv, LastCounts, LatestAnswerCounts, Delivered
<1> QED
  BY <1>1, <1>2, CountsStep, TypeCorrect, PTL DEF Spec
=============================================================================
