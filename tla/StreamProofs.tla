---------------------------- MODULE StreamProofs ----------------------------
(* Safety of the pump for every buffer size, set of event kinds and length *)
(* of the stream.                                                          *)
EXTENDS Stream, SequenceTheorems, FiniteSetTheorems, TLAPS

(* The producer: the terminal error is put once the body has ended, and    *)
(* the channel is closed after it.                                         *)
ProducerInv ==
  /\ prod \in {"read", "send"} <=> end = "none"
  /\ errCh = (IF prod \in {"close", "done"} THEN end ELSE "none")
  /\ closed <=> prod = "done"
  /\ prod = "send" => held \in Kinds

(* The channel is first in, first out, and loses nothing: what was read is *)
(* received, in the buffer, or in the producer's hand, in this order.      *)
ChannelInv ==
  /\ Len(sent) = Len(taken) + Len(buf) + (IF prod = "send" THEN 1 ELSE 0)
  /\ \A i \in 1 .. Len(taken) : taken[i] = sent[i]
  /\ \A i \in 1 .. Len(buf) : buf[i] = sent[Len(taken) + i]
  /\ prod = "send" => held = sent[Len(sent)]

(* The handler: it takes nothing after a fatal event, and without one it   *)
(* stops only when the client is gone or everything was received.          *)
HandlerInv ==
  /\ con = "wait" => ~fatal
  /\ \A i \in 1 .. Len(taken) : taken[i] = "fatal" => i = Len(taken) /\ fatal
  /\ fatal => (taken # <<>> /\ taken[Len(taken)] = "fatal") \/ end = "broken"
  /\ con \in {"finish", "done"} => fatal \/ gone \/ (buf = <<>> /\ closed)
  /\ con \in {"finish", "done"} => fatal \/ gone \/ end = "eof"

UsageInv ==
  /\ prompt = (IF Count(taken, "start") > 0 THEN 2 ELSE 0)
  /\ completion = Count(taken, "delta")
  /\ reported <=> Count(taken, "start") + Count(taken, "delta") > 0
  /\ text = Count(taken, "text")

LoggedInv ==
  /\ con # "done" => logged = NotLogged
  /\ con = "done" => logged = [status |-> IF fatal THEN "error" ELSE "success",
                               prompt |-> IF prompt = 0 THEN Est ELSE prompt,
                               completion |-> IF reported THEN completion ELSE text]

OutputInv ==
  LET terminated == con = "done" /\ pump # "verbatim"
  IN /\ \A i \in 1 .. Len(taken) : taken[i] \in Passed => out[Place(i)] = taken[i]
     /\ Len(out) = Place(Len(taken)) + (IF terminated THEN 1 ELSE 0)
     /\ terminated => out[Len(out)] = "end"

IInv == /\ TypeOK /\ ProducerInv /\ ChannelInv /\ HandlerInv /\ UsageInv
        /\ LoggedInv /\ OutputInv
-----------------------------------------------------------------------------
(* Counting the elements of a sequence that grows at its end. *)
LEMMA Counting ==
  ASSUME NEW n \in Nat, NEW A \in SUBSET (1 .. n)
  PROVE  /\ IsFiniteSet(A) /\ Cardinality(A) \in Nat
         /\ Cardinality(A \cup {n + 1}) = Cardinality(A) + 1
<1>1. IsFiniteSet(A) /\ Cardinality(A) \in Nat
  <2>1. IsFiniteSet(1 .. n)
    BY FS_Interval
  <2>2. IsFiniteSet(A)
    BY <2>1, FS_Subset
  <2> QED
    BY <2>2, FS_CardinalityType
<1>2. n + 1 \notin A
  OBVIOUS
<1> QED
  BY <1>1, <1>2, FS_AddElement

LEMMA CountAppend ==
  ASSUME NEW S, NEW s \in Seq(S), NEW x \in S, NEW k
  PROVE  /\ Count(s, k) \in Nat
         /\ Count(Append(s, x), k) = Count(s, k) + (IF x = k THEN 1 ELSE 0)
<1> DEFINE n == Len(s)
           A == {i \in DOMAIN s : s[i] = k}
           B == {i \in DOMAIN Append(s, x) : Append(s, x)[i] = k}
<1>1. /\ n \in Nat /\ DOMAIN s = 1 .. n /\ DOMAIN Append(s, x) = 1 .. n + 1
      /\ \A i \in 1 .. n : Append(s, x)[i] = s[i]
      /\ Append(s, x)[n + 1] = x
  OBVIOUS
<1>2. B = IF x = k THEN A \cup {n + 1} ELSE A
  BY <1>1
<1>3. A \in SUBSET (1 .. n)
  BY <1>1
<1>4. Cardinality(A) \in Nat /\ Cardinality(A \cup {n + 1}) = Cardinality(A) + 1
  BY <1>1, <1>3, Counting
<1>5. Count(s, k) = Cardinality(A) /\ Count(Append(s, x), k) = Cardinality(B)
  BY DEF Count
<1> HIDE DEF A, B
<1> QED
  BY <1>2, <1>4, <1>5

(* A place in the output is one more than the places before it. *)
LEMMA Places ==
  ASSUME TypeOK
  PROVE  /\ \A i \in 0 .. Len(taken) : Place(i) \in Nat
         /\ \A i \in 1 .. Len(taken) :
              /\ Place(i) <= Place(Len(taken))
              /\ taken[i] \in Passed => Place(i) > 0
<1> DEFINE P(i) == {j \in 1 .. i : taken[j] \in Passed}
<1>1. ASSUME NEW i \in 0 .. Len(taken)
      PROVE  IsFiniteSet(P(i)) /\ Cardinality(P(i)) \in Nat
  <2>1. i \in Nat /\ P(i) \in SUBSET (1 .. i)
    BY DEF TypeOK
  <2> QED
    BY <2>1, Counting
<1>2. ASSUME NEW i \in 1 .. Len(taken) PROVE Cardinality(P(i)) <= Cardinality(P(Len(taken)))
  <2>1. P(i) \subseteq P(Len(taken))
    BY DEF TypeOK
  <2>2. IsFiniteSet(P(Len(taken)))
    BY <1>1 DEF TypeOK
  <2> QED
    BY <2>1, <2>2, FS_Subset
<1>3. ASSUME NEW i \in 1 .. Len(taken), taken[i] \in Passed PROVE Cardinality(P(i)) > 0
  <2>1. i \in P(i)
    BY <1>3
  <2>2. IsFiniteSet(P(i)) /\ Cardinality(P(i)) \in Nat
    BY <1>1
  <2>3. Cardinality(P(i)) # 0
    BY <2>1, <2>2, FS_EmptySet
  <2> QED
    BY <2>2, <2>3
<1> QED
  BY <1>1, <1>2, <1>3 DEF Place

LEMMA PlaceTake ==
  ASSUME TypeOK, pump' = pump, NEW k \in Kinds, taken' = Append(taken, k)
  PROVE  /\ Len(taken') = Len(taken) + 1 /\ taken'[Len(taken) + 1] = k
         /\ \A i \in 1 .. Len(taken) : taken'[i] = taken[i] /\ Place(i)' = Place(i)
         /\ Place(Len(taken))' = Place(Len(taken)) + (IF k \in Passed THEN 1 ELSE 0)
         /\ \A i : i = Len(taken) + 1 =>
              Place(i)' = Place(Len(taken)) + (IF k \in Passed THEN 1 ELSE 0)
<1> DEFINE n == Len(taken)
           P(i) == {j \in 1 .. i : taken[j] \in Passed}
           Q(i) == {j \in 1 .. i : taken'[j] \in Passed'}
<1>1. /\ n \in Nat /\ Len(taken') = n + 1 /\ taken'[n + 1] = k
      /\ \A i \in 1 .. n : taken'[i] = taken[i]
  BY DEF TypeOK
<1>2. Passed' = Passed
  BY DEF Passed
<1>3. ASSUME NEW i \in 1 .. n PROVE Q(i) = P(i)
  BY <1>1, <1>2
<1>4. Q(n + 1) = IF k \in Passed THEN P(n) \cup {n + 1} ELSE P(n)
  BY <1>1, <1>2
<1>5. Cardinality(P(n) \cup {n + 1}) = Cardinality(P(n)) + 1 /\ Cardinality(P(n)) \in Nat
  BY <1>1, Counting
<1>6. Place(Len(taken))' = Cardinality(Q(n + 1)) /\ Place(n) = Cardinality(P(n))
  BY <1>1 DEF Place
<1>7. \A i \in 1 .. n : Place(i)' = Cardinality(Q(i)) /\ Place(i) = Cardinality(P(i))
  BY DEF Place
<1>8. \A i : i = n + 1 => Place(i)' = Cardinality(Q(n + 1))
  BY DEF Place
<1> HIDE DEF P, Q
<1> QED
  BY <1>1, <1>3, <1>4, <1>5, <1>6, <1>7, <1>8
-----------------------------------------------------------------------------
(* The handler's steps, whether it came to them in the loop or in the      *)
(* blocking select.                                                        *)
Aside == UNCHANGED <<pump, producer, gone, logged>>

Stops ==
  /\ fatal \/ gone
  /\ con' = "finish" /\ UNCHANGED <<buf, taken, usage, fatal, out>> /\ Aside

Takes == ~fatal /\ Take /\ Aside

Drains == ~fatal /\ Drained /\ Aside

Pauses == ~fatal /\ con' = "wait" /\ UNCHANGED <<buf, taken, usage, fatal, out>> /\ Aside

LEMMA HandlerSteps ==
  ASSUME HandlerInv, Step \/ Wait
  PROVE  con \in {"step", "wait"} /\ (Stops \/ Takes \/ Drains \/ Pauses)
BY DEF HandlerInv, Step, Wait, Stops, Takes, Drains, Pauses, Aside

LEMMA IInvInit == Init => IInv
<1> SUFFICES ASSUME Init PROVE IInv
  OBVIOUS
<1>1. TypeOK
  <2>1. NotLogged \in [status : {"none", "success", "error"}, prompt : Nat, completion : Nat]
    BY DEF NotLogged
  <2>2. /\ sent = <<>> /\ buf = <<>> /\ taken = <<>> /\ out = <<>> /\ Len(<<>>) <= Cap
        /\ \A S : <<>> \in Seq(S)
    BY StreamAssumption DEF Init
  <2> QED
    BY <2>1, <2>2 DEF Init, TypeOK
<1>2. Count(<<>>, "start") = 0 /\ Count(<<>>, "delta") = 0 /\ Count(<<>>, "text") = 0
  BY FS_EmptySet DEF Count
<1>3. Place(0) = 0
  <2>1. {j \in 1 .. 0 : taken[j] \in Passed} = {}
    OBVIOUS
  <2> QED
    BY <2>1, FS_EmptySet DEF Place
<1>4. ProducerInv /\ ChannelInv /\ HandlerInv /\ LoggedInv
  BY DEF Init, ProducerInv, ChannelInv, HandlerInv, LoggedInv
<1>5. UsageInv /\ OutputInv
  BY <1>2, <1>3 DEF Init, UsageInv, OutputInv
<1> QED
  BY <1>1, <1>4, <1>5 DEF IInv

(* A receive moves the head of the buffer to the end of the history. *)
Received ==
  /\ Head(buf) \in Kinds /\ Head(buf) = buf[1] /\ Len(buf) \in Nat \ {0}
  /\ buf' \in Seq(Kinds) /\ Len(buf') = Len(buf) - 1
  /\ \A i \in 1 .. Len(buf') : buf'[i] = buf[i + 1]
  /\ taken' = Append(taken, Head(buf)) /\ taken' \in Seq(Kinds)
  /\ Len(taken) \in Nat /\ Len(taken') = Len(taken) + 1
  /\ \A i \in 1 .. Len(taken) : taken'[i] = taken[i]
  /\ taken'[Len(taken) + 1] = Head(buf)

LEMMA TakeFacts ==
  ASSUME TypeOK, Takes
  PROVE  Received
<1>1. buf \in Seq(Kinds) /\ taken \in Seq(Kinds) /\ buf # <<>>
  BY DEF TypeOK, Takes, Take
<1>2. buf' = Tail(buf) /\ taken' = Append(taken, Head(buf))
  BY DEF Takes, Take
<1>3. Head(buf) \in Kinds /\ Head(buf) = buf[1] /\ Len(buf) \in Nat \ {0}
  BY <1>1
<1>4. /\ buf' \in Seq(Kinds) /\ Len(buf') = Len(buf) - 1
      /\ \A i \in 1 .. Len(buf') : buf'[i] = buf[i + 1]
  BY <1>1, <1>2, HeadTailProperties
<1>5. /\ taken' \in Seq(Kinds) /\ Len(taken) \in Nat /\ Len(taken') = Len(taken) + 1
      /\ \A i \in 1 .. Len(taken) : taken'[i] = taken[i]
      /\ taken'[Len(taken) + 1] = Head(buf)
  BY <1>1, <1>2, <1>3
<1> QED
  BY <1>2, <1>3, <1>4, <1>5 DEF Received

LEMMA PlaceKept ==
  ASSUME UNCHANGED <<pump, taken>>
  PROVE  Passed' = Passed /\ \A i : Place(i)' = Place(i)
BY DEF Place, Passed

(* The producer.                                                           *)
LEMMA ProducerStep ==
  ASSUME TypeOK, ProducerInv, HandlerInv, [Next]_vars
  PROVE  ProducerInv'
<1> USE DEF TypeOK, ProducerInv, producer, usage
<1>0. Step \/ Wait => con \in {"step", "wait"} /\ (Stops \/ Takes \/ Drains \/ Pauses)
  BY HandlerSteps
<1>1. ASSUME NEW k \in Kinds, Read(k) PROVE ProducerInv'
  BY <1>1 DEF Read
<1>2. CASE Push
  BY <1>2 DEF Push
<1>3. ASSUME NEW e \in {"eof", "broken"}, ReadEnds(e) PROVE ProducerInv'
  BY <1>3 DEF ReadEnds
<1>4. CASE PutError
  BY <1>4 DEF PutError
<1>5. CASE CloseEvents
  BY <1>5 DEF CloseEvents
<1>6. CASE con \in {"step", "wait"} /\ Stops
  BY <1>6 DEF Stops, Aside
<1>7. CASE con \in {"step", "wait"} /\ Takes
  BY <1>7 DEF Takes, Take, Aside
<1>8. CASE con \in {"step", "wait"} /\ Drains
  BY <1>8 DEF Drains, Drained, Aside
<1>9. CASE con \in {"step", "wait"} /\ Pauses
  BY <1>9 DEF Pauses, Aside
<1>10. CASE Finish
  BY <1>10 DEF Finish
<1>11. CASE Leave
  BY <1>11 DEF Leave
<1>12. CASE UNCHANGED vars
  BY <1>12 DEF vars
<1> QED
  BY <1>0, <1>1, <1>2, <1>3, <1>4, <1>5, <1>6, <1>7, <1>8, <1>9, <1>10, <1>11, <1>12 DEF Next

(* What was read is in one place.                                          *)
LEMMA ChannelStep ==
  ASSUME TypeOK, ProducerInv, ChannelInv, HandlerInv, [Next]_vars
  PROVE  ChannelInv'
<1> USE DEF TypeOK, ProducerInv, ChannelInv, producer, usage
<1>0. Step \/ Wait => con \in {"step", "wait"} /\ (Stops \/ Takes \/ Drains \/ Pauses)
  BY HandlerSteps
<1>1. ASSUME NEW k \in Kinds, Read(k) PROVE ChannelInv'
  BY <1>1 DEF Read
<1>2. CASE Push
  <2>1. /\ buf \in Seq(Kinds) /\ held \in Kinds /\ Len(buf) \in Nat /\ Len(taken) \in Nat
        /\ buf' = Append(buf, held) /\ prod = "send" /\ prod' = "read"
        /\ sent' = sent /\ taken' = taken
    BY <1>2 DEF Push
  <2>2. /\ Len(buf') = Len(buf) + 1 /\ buf'[Len(buf) + 1] = held
        /\ \A i \in 1 .. Len(buf) : buf'[i] = buf[i]
    BY <2>1
  <2>3. Len(sent) = Len(taken) + Len(buf) + 1
    BY <2>1
  <2>4. ASSUME NEW i \in 1 .. Len(buf') PROVE buf'[i] = sent[Len(taken) + i]
    <3>1. CASE i \in 1 .. Len(buf)
      BY <2>2, <3>1
    <3>2. CASE i = Len(buf) + 1
      BY <2>1, <2>2, <2>3, <3>2
    <3> QED
      BY <2>1, <2>2, <3>1, <3>2
  <2> QED
    BY <2>1, <2>2, <2>3, <2>4
<1>3. ASSUME NEW e \in {"eof", "broken"}, ReadEnds(e) PROVE ChannelInv'
  BY <1>3 DEF ReadEnds
<1>4. CASE PutError
  BY <1>4 DEF PutError
<1>5. CASE CloseEvents
  BY <1>5 DEF CloseEvents
<1>6. CASE con \in {"step", "wait"} /\ Stops
  BY <1>6 DEF Stops, Aside
<1>7. CASE con \in {"step", "wait"} /\ Takes
  <2>0. Received
    BY <1>7, TakeFacts
  <2>1. UNCHANGED <<sent, prod, held>> /\ Head(buf) = sent[Len(taken) + 1]
    BY <1>7, <2>0 DEF Takes, Aside, Received
  <2>2. ASSUME NEW i \in 1 .. Len(taken) + 1 PROVE taken'[i] = sent[i]
    <3>1. CASE i \in 1 .. Len(taken)
      BY <2>0, <3>1 DEF Received
    <3>2. CASE i = Len(taken) + 1
      BY <2>0, <2>1, <3>2 DEF Received
    <3> QED
      BY <2>0, <3>1, <3>2 DEF Received
  <2>3. ASSUME NEW i \in 1 .. Len(buf) - 1 PROVE buf'[i] = sent[Len(taken) + 1 + i]
    <3>1. i + 1 \in 1 .. Len(buf) /\ buf'[i] = buf[i + 1]
      BY <2>0 DEF Received
    <3>2. buf[i + 1] = sent[Len(taken) + (i + 1)]
      BY <3>1
    <3> QED
      BY <2>0, <3>1, <3>2 DEF Received
  <2>4. /\ Len(sent) = Len(taken') + Len(buf') + (IF prod = "send" THEN 1 ELSE 0)
        /\ Len(taken') = Len(taken) + 1 /\ Len(buf') = Len(buf) - 1
    BY <2>0 DEF Received
  <2> QED
    BY <2>1, <2>2, <2>3, <2>4
<1>8. CASE con \in {"step", "wait"} /\ Drains
  BY <1>8 DEF Drains, Drained, Aside
<1>9. CASE con \in {"step", "wait"} /\ Pauses
  BY <1>9 DEF Pauses, Aside
<1>10. CASE Finish
  BY <1>10 DEF Finish
<1>11. CASE Leave
  BY <1>11 DEF Leave
<1>12. CASE UNCHANGED vars
  BY <1>12 DEF vars
<1> QED
  BY <1>0, <1>1, <1>2, <1>3, <1>4, <1>5, <1>6, <1>7, <1>8, <1>9, <1>10, <1>11, <1>12 DEF Next

(* Why the handler stops.                                                  *)
LEMMA HandlerStep ==
  ASSUME TypeOK, ProducerInv, HandlerInv, [Next]_vars
  PROVE  HandlerInv'
<1> USE DEF TypeOK, ProducerInv, HandlerInv, producer, usage
<1>0. Step \/ Wait => con \in {"step", "wait"} /\ (Stops \/ Takes \/ Drains \/ Pauses)
  BY HandlerSteps
<1>1. ASSUME NEW k \in Kinds, Read(k) PROVE HandlerInv'
  BY <1>1 DEF Read
<1>2. CASE Push
  BY <1>2 DEF Push
<1>3. ASSUME NEW e \in {"eof", "broken"}, ReadEnds(e) PROVE HandlerInv'
  BY <1>3 DEF ReadEnds
<1>4. CASE PutError
  BY <1>4 DEF PutError
<1>5. CASE CloseEvents
  BY <1>5 DEF CloseEvents
<1>6. CASE con \in {"step", "wait"} /\ Stops
  BY <1>6 DEF Stops, Aside
<1>7. CASE con \in {"step", "wait"} /\ Takes
  <2>1. ~fatal /\ fatal' = (Head(buf) = "fatal") /\ con' = "step"
    BY <1>7 DEF Takes, Take
  <2>0. Received
    BY <1>7, TakeFacts
  <2>2. taken'[Len(taken')] = Head(buf) /\ taken' # <<>>
    <3>1. Len(taken') # 0 /\ taken'[Len(taken')] = Head(buf)
      BY <2>0 DEF Received
    <3> QED
      BY <3>1
  <2>3. ASSUME NEW i \in 1 .. Len(taken'), taken'[i] = "fatal"
        PROVE  i = Len(taken') /\ fatal'
    <3>1. i \notin 1 .. Len(taken)
      BY <2>0, <2>1, <2>3 DEF Received
    <3>2. i = Len(taken) + 1
      BY <2>0, <3>1 DEF Received
    <3> QED
      BY <2>0, <2>1, <2>3, <3>2 DEF Received
  <2> QED
    BY <2>1, <2>2, <2>3
<1>8. CASE con \in {"step", "wait"} /\ Drains
  BY <1>8 DEF Drains, Drained, Aside
<1>9. CASE con \in {"step", "wait"} /\ Pauses
  BY <1>9 DEF Pauses, Aside
<1>10. CASE Finish
  BY <1>10 DEF Finish
<1>11. CASE Leave
  BY <1>11 DEF Leave
<1>12. CASE UNCHANGED vars
  BY <1>12 DEF vars
<1> QED
  BY <1>0, <1>1, <1>2, <1>3, <1>4, <1>5, <1>6, <1>7, <1>8, <1>9, <1>10, <1>11, <1>12 DEF Next

(* The usage is that of the events received.                               *)
LEMMA UsageStep ==
  ASSUME TypeOK, UsageInv, HandlerInv, [Next]_vars
  PROVE  UsageInv'
<1> USE DEF TypeOK, UsageInv, producer, usage
<1>0. Step \/ Wait => con \in {"step", "wait"} /\ (Stops \/ Takes \/ Drains \/ Pauses)
  BY HandlerSteps
<1>1. ASSUME NEW k \in Kinds, Read(k) PROVE UsageInv'
  BY <1>1 DEF Read
<1>2. CASE Push
  BY <1>2 DEF Push
<1>3. ASSUME NEW e \in {"eof", "broken"}, ReadEnds(e) PROVE UsageInv'
  BY <1>3 DEF ReadEnds
<1>4. CASE PutError
  BY <1>4 DEF PutError
<1>5. CASE CloseEvents
  BY <1>5 DEF CloseEvents
<1>6. CASE con \in {"step", "wait"} /\ Stops
  BY <1>6 DEF Stops, Aside
<1>7. CASE con \in {"step", "wait"} /\ Takes
  <2>1. taken \in Seq(Kinds) /\ Head(buf) \in Kinds /\ taken' = Append(taken, Head(buf))
    BY <1>7, TakeFacts DEF Received
  <2>2. \A k : /\ Count(taken, k) \in Nat
               /\ Count(taken', k) = Count(taken, k) + (IF Head(buf) = k THEN 1 ELSE 0)
    BY <2>1, CountAppend
  <2>3. Merge(Head(buf)) /\ text' = IF Head(buf) = "text" THEN text + 1 ELSE text
    BY <1>7 DEF Takes, Take
  <2>4. /\ prompt' = (IF Count(taken', "start") > 0 THEN 2 ELSE 0)
        /\ Count(taken', "start") \in Nat
        /\ Count(taken', "start") = Count(taken, "start") + (IF Head(buf) = "start" THEN 1 ELSE 0)
    BY <2>2, <2>3 DEF Merge
  <2>5. /\ completion' = Count(taken', "delta")
        /\ Count(taken', "delta") = Count(taken, "delta") + (IF Head(buf) = "delta" THEN 1 ELSE 0)
    BY <2>2, <2>3 DEF Merge
  <2>6. text' = Count(taken', "text")
    BY <2>2, <2>3
  <2>7. reported' <=> Count(taken', "start") + Count(taken', "delta") > 0
    <3>1. reported' = (reported \/ Head(buf) \in {"start", "delta"})
      BY <2>3 DEF Merge
    <3>2. Count(taken', "delta") \in Nat /\ Count(taken, "delta") \in Nat
          /\ Count(taken, "start") \in Nat
      BY <2>2
    <3>3. CASE Head(buf) \in {"start", "delta"}
      <4>1. \A a, b \in Nat : a > 0 \/ b > 0 => a + b > 0
        OBVIOUS
      <4>2. Count(taken', "start") > 0 \/ Count(taken', "delta") > 0
        <5>1. CASE Head(buf) = "start"
          BY <2>4, <3>2, <5>1
        <5>2. CASE Head(buf) = "delta"
          BY <2>5, <3>2, <5>2
        <5> QED
          BY <3>3, <5>1, <5>2
      <4>3. Count(taken', "start") + Count(taken', "delta") > 0
        BY <2>4, <3>2, <4>1, <4>2
      <4> QED
        BY <3>1, <3>3, <4>3
    <3>4. CASE Head(buf) \notin {"start", "delta"}
      BY <2>4, <2>5, <3>1, <3>2, <3>4
    <3> QED
      BY <3>3, <3>4
  <2> QED
    BY <2>4, <2>5, <2>6, <2>7
<1>8. CASE con \in {"step", "wait"} /\ Drains
  BY <1>8 DEF Drains, Drained, Aside
<1>9. CASE con \in {"step", "wait"} /\ Pauses
  BY <1>9 DEF Pauses, Aside
<1>10. CASE Finish
  BY <1>10 DEF Finish
<1>11. CASE Leave
  BY <1>11 DEF Leave
<1>12. CASE UNCHANGED vars
  BY <1>12 DEF vars
<1> QED
  BY <1>0, <1>1, <1>2, <1>3, <1>4, <1>5, <1>6, <1>7, <1>8, <1>9, <1>10, <1>11, <1>12 DEF Next

(* finish() is given the usage once.                                       *)
LEMMA LoggedStep ==
  ASSUME TypeOK, LoggedInv, HandlerInv, [Next]_vars
  PROVE  LoggedInv'
<1> USE DEF TypeOK, LoggedInv, producer, usage
<1>0. Step \/ Wait => con \in {"step", "wait"} /\ (Stops \/ Takes \/ Drains \/ Pauses)
  BY HandlerSteps
<1>1. ASSUME NEW k \in Kinds, Read(k) PROVE LoggedInv'
  BY <1>1 DEF Read
<1>2. CASE Push
  BY <1>2 DEF Push
<1>3. ASSUME NEW e \in {"eof", "broken"}, ReadEnds(e) PROVE LoggedInv'
  BY <1>3 DEF ReadEnds
<1>4. CASE PutError
  BY <1>4 DEF PutError
<1>5. CASE CloseEvents
  BY <1>5 DEF CloseEvents
<1>6. CASE con \in {"step", "wait"} /\ Stops
  BY <1>6 DEF Stops, Aside
<1>7. CASE con \in {"step", "wait"} /\ Takes
  BY <1>7 DEF Takes, Take, Aside
<1>8. CASE con \in {"step", "wait"} /\ Drains
  BY <1>8 DEF Drains, Drained, Aside
<1>9. CASE con \in {"step", "wait"} /\ Pauses
  BY <1>9 DEF Pauses, Aside
<1>10. CASE Finish
  BY <1>10 DEF Finish
<1>11. CASE Leave
  BY <1>11 DEF Leave
<1>12. CASE UNCHANGED vars
  BY <1>12 DEF vars
<1> QED
  BY <1>0, <1>1, <1>2, <1>3, <1>4, <1>5, <1>6, <1>7, <1>8, <1>9, <1>10, <1>11, <1>12 DEF Next

(* The output.                                                             *)
LEMMA OutputStep ==
  ASSUME TypeOK, OutputInv, HandlerInv, [Next]_vars
  PROVE  OutputInv'
<1> USE DEF producer, usage
<1> DEFINE n == Len(taken)
<1>a. n \in Nat /\ Len(out) \in Nat /\ out \in Seq(Kinds \cup {"end"}) /\ Place(n) \in Nat
  BY Places DEF TypeOK
(* Every event received has its place in the output. *)
<1>b. \A i \in 1 .. n : taken[i] \in Passed => Place(i) \in 1 .. Place(n) /\ out[Place(i)] = taken[i]
  BY <1>a, Places DEF OutputInv
<1>1. CASE UNCHANGED <<pump, taken, out>> /\ (con' = "done" <=> con = "done")
  BY <1>1, PlaceKept DEF OutputInv
<1>2. CASE con \in {"step", "wait"} /\ Takes
  <2> DEFINE k == Head(buf)
  <2>1. /\ k \in Kinds /\ taken' = Append(taken, k) /\ pump' = pump
        /\ out' = out \o Forwarded(k) /\ con' = "step"
    BY <1>2, TakeFacts DEF Takes, Take, Aside, Received
  <2>2. Len(out) = Place(n)
    BY <1>2, <1>a DEF OutputInv
  <2>3. Passed' = Passed
    BY <2>1 DEF Passed
  <2>4. /\ Len(taken') = n + 1 /\ taken'[n + 1] = k
        /\ \A i \in 1 .. n : taken'[i] = taken[i] /\ Place(i)' = Place(i)
        /\ Place(Len(taken))' = Place(n) + (IF k \in Passed THEN 1 ELSE 0)
    BY <2>1, PlaceTake
  <2> HIDE DEF k
  <2>5. /\ Len(out') = Len(out) + (IF k \in Passed THEN 1 ELSE 0)
        /\ \A i \in 1 .. Len(out) : out'[i] = out[i]
        /\ k \in Passed => out'[Len(out) + 1] = k
    <3>1. CASE k \in Passed
      BY <1>a, <2>1, <3>1 DEF Forwarded
    <3>2. CASE k \notin Passed
      <4>1. out' = out
        BY <1>a, <2>1, <3>2 DEF Forwarded
      <4> QED
        BY <1>a, <3>2, <4>1
    <3> QED
      BY <3>1, <3>2
  <2>6. \A i : i = n + 1 => Place(i)' = Place(n) + (IF k \in Passed THEN 1 ELSE 0)
    BY <2>1, PlaceTake
  <2>7. ASSUME NEW i \in 1 .. n + 1, taken'[i] \in Passed
        PROVE  out'[Place(i)'] = taken'[i]
    <3>1. CASE i \in 1 .. n
      BY <1>a, <1>b, <2>2, <2>4, <2>5, <2>7, <3>1
    <3>2. CASE i = n + 1
      BY <1>a, <2>2, <2>4, <2>5, <2>6, <2>7, <3>2
    <3> QED
      BY <1>a, <3>1, <3>2
  <2>8. \A i \in 1 .. Len(taken') : taken'[i] \in Passed' => out'[Place(i)'] = taken'[i]
    BY <2>3, <2>4, <2>7
  <2>9. Len(out') = Place(Len(taken))' + 0
    BY <1>a, <2>2, <2>4, <2>5
  <2> QED
    BY <2>1, <2>8, <2>9 DEF OutputInv
<1>3. CASE Finish
  <2>1. /\ con = "finish" /\ con' = "done" /\ UNCHANGED <<pump, taken>>
        /\ out' = IF pump = "verbatim" THEN out ELSE Append(out, "end")
    BY <1>3 DEF Finish
  <2>2. Len(out) = Place(n)
    BY <1>a, <2>1 DEF OutputInv
  <2>3. /\ pump = "verbatim" => Len(out') = Len(out)
        /\ pump # "verbatim" => Len(out') = Len(out) + 1 /\ out'[Len(out')] = "end"
        /\ \A i \in 1 .. Len(out) : out'[i] = out[i]
    BY <1>a, <2>1
  <2> QED
    BY <1>a, <1>b, <2>1, <2>2, <2>3, PlaceKept DEF OutputInv
<1>4. CASE \E k \in Kinds : Read(k)
  BY <1>1, <1>4 DEF Read
<1>5. CASE \/ Push \/ PutError \/ CloseEvents \/ Leave
           \/ \E e \in {"eof", "broken"} : ReadEnds(e)
  BY <1>1, <1>5 DEF Push, PutError, CloseEvents, Leave, ReadEnds
<1>6. CASE con \in {"step", "wait"} /\ (Stops \/ Drains \/ Pauses)
  BY <1>1, <1>6 DEF Stops, Drains, Drained, Pauses, Aside
<1>7. CASE UNCHANGED vars
  BY <1>1, <1>7 DEF vars
<1> QED
  BY <1>2, <1>3, <1>4, <1>5, <1>6, <1>7, HandlerSteps DEF Next

(* The types.                                                              *)
LEMMA TypeStep ==
  ASSUME TypeOK, ProducerInv, HandlerInv, [Next]_vars
  PROVE  TypeOK'
<1> USE DEF TypeOK, ProducerInv, producer, usage
<1>0. Step \/ Wait => con \in {"step", "wait"} /\ (Stops \/ Takes \/ Drains \/ Pauses)
  BY HandlerSteps
<1>1. ASSUME NEW k \in Kinds, Read(k) PROVE TypeOK'
  BY <1>1 DEF Read
<1>2. CASE Push
  <2>1. buf' \in Seq(Kinds) /\ Len(buf') <= Cap
    BY <1>2, StreamAssumption DEF Push
  <2> QED
    BY <1>2, <2>1 DEF Push
<1>3. ASSUME NEW e \in {"eof", "broken"}, ReadEnds(e) PROVE TypeOK'
  BY <1>3 DEF ReadEnds
<1>4. CASE PutError
  BY <1>4 DEF PutError
<1>5. CASE CloseEvents
  BY <1>5 DEF CloseEvents
<1>6. CASE con \in {"step", "wait"} /\ Stops
  BY <1>6 DEF Stops, Aside
<1>7. CASE con \in {"step", "wait"} /\ Takes
  <2>1. Passed \subseteq Kinds
    BY DEF Passed
  <2>0. Received
    BY <1>7, TakeFacts
  <2>2. out' = out \o Forwarded(Head(buf)) /\ Forwarded(Head(buf)) \in Seq(Kinds \cup {"end"})
    <3>1. Head(buf) \in Kinds
      BY <2>0 DEF Received
    <3>2. Forwarded(Head(buf)) \in Seq(Kinds \cup {"end"})
      <4>1. \A k \in Kinds : <<k>> \in Seq(Kinds \cup {"end"})
        OBVIOUS
      <4>2. <<>> \in Seq(Kinds \cup {"end"})
        OBVIOUS
      <4> QED
        BY <3>1, <4>1, <4>2 DEF Forwarded
    <3> QED
      BY <1>7, <3>2 DEF Takes, Take
  <2>3. out' \in Seq(Kinds \cup {"end"})
    BY <2>2
  <2>4. prompt' \in Nat /\ completion' \in Nat /\ text' \in Nat /\ reported' \in BOOLEAN
    BY <1>7 DEF Takes, Take, Merge
  <2>5. Len(buf') <= Cap
    BY <2>0, StreamAssumption DEF Received
  <2>6. fatal' \in BOOLEAN /\ con' \in {"step", "wait", "finish", "done"}
    BY <1>7 DEF Takes, Take
  <2> QED
    BY <1>7, <2>0, <2>3, <2>4, <2>5, <2>6 DEF Takes, Aside, Received
<1>8. CASE con \in {"step", "wait"} /\ Drains
  BY <1>8 DEF Drains, Drained, Aside
<1>9. CASE con \in {"step", "wait"} /\ Pauses
  BY <1>9 DEF Pauses, Aside
<1>10. CASE Finish
  <2>1. out' \in Seq(Kinds \cup {"end"})
    BY <1>10 DEF Finish
  <2>2. logged' \in [status : {"none", "success", "error"}, prompt : Nat, completion : Nat]
    BY <1>10, StreamAssumption DEF Finish
  <2> QED
    BY <1>10, <2>1, <2>2 DEF Finish
<1>11. CASE Leave
  BY <1>11 DEF Leave
<1>12. CASE UNCHANGED vars
  BY <1>12 DEF vars
<1> QED
  BY <1>0, <1>1, <1>2, <1>3, <1>4, <1>5, <1>6, <1>7, <1>8, <1>9, <1>10, <1>11, <1>12 DEF Next

LEMMA Invariance == Spec => []IInv
<1>1. IInv /\ [Next]_vars => IInv'
  BY ProducerStep, ChannelStep, HandlerStep, UsageStep, LoggedStep, OutputStep, TypeStep DEF IInv
<1> QED
  BY IInvInit, <1>1, PTL DEF Spec
-----------------------------------------------------------------------------
(* The variables always have their types; the producer never overfills the *)
(* events channel.                                                         *)
THEOREM TypeCorrect == Spec => []TypeOK
<1>1. IInv => TypeOK
  BY DEF IInv
<1> QED
  BY Invariance, <1>1, PTL

(* When the handler has drained the closed channel it has received all     *)
(* that the producer read.                                                 *)
LEMMA DrainedIsAll ==
  ASSUME IInv, buf = <<>>, closed
  PROVE  taken = sent
<1>1. prod = "done" /\ sent \in Seq(Kinds) /\ taken \in Seq(Kinds)
  BY DEF IInv, ProducerInv, TypeOK
<1>2. Len(sent) = Len(taken) /\ \A i \in 1 .. Len(taken) : taken[i] = sent[i]
  BY <1>1 DEF IInv, ChannelInv
<1> QED
  BY <1>1, <1>2, SeqEqual

(* "End-of-stream usage is always recorded", whatever the interleaving of  *)
(* the producer, the handler and the client: a stream logged as a success  *)
(* whose client stayed is logged with the usage of all the upstream sent.  *)
THEOREM UsageIsComplete == Spec => []UsageComplete
<1>1. ASSUME IInv, logged.status = "success", ~gone
      PROVE  /\ logged.prompt = (IF Count(sent, "start") > 0 THEN 2 ELSE Est)
             /\ logged.completion = (IF Count(sent, "start") + Count(sent, "delta") > 0
                                     THEN Count(sent, "delta") ELSE Count(sent, "text"))
  <2>1. con = "done"
    BY <1>1 DEF IInv, LoggedInv, NotLogged
  <2>2. logged = [status |-> IF fatal THEN "error" ELSE "success",
                  prompt |-> IF prompt = 0 THEN Est ELSE prompt,
                  completion |-> IF reported THEN completion ELSE text]
    BY <1>1, <2>1 DEF IInv, LoggedInv
  <2>3. ~fatal
    BY <1>1, <2>2
  <2>4. taken = sent
    BY <1>1, <2>1, <2>3, DrainedIsAll DEF IInv, HandlerInv
  <2>5. /\ prompt = (IF Count(sent, "start") > 0 THEN 2 ELSE 0)
        /\ completion = Count(sent, "delta") /\ text = Count(sent, "text")
        /\ reported <=> Count(sent, "start") + Count(sent, "delta") > 0
    BY <1>1, <2>4 DEF IInv, UsageInv
  <2> QED
    BY <2>2, <2>5
<1>2. IInv => UsageComplete
  BY <1>1 DEF UsageComplete
<1> QED
  BY Invariance, <1>2, PTL

(* Only a clean stream, or one the client left, is billed; and a stream is *)
(* logged as an error only for a fatal event or a broken body.             *)
THEOREM OnlyCleanStreamsAreBilled == Spec => []OnlyCleanIsBilled
<1>1. ASSUME IInv, logged.status # "none"
      PROVE  /\ con = "done" /\ (fatal <=> logged.status = "error")
             /\ logged.status \in {"success", "error"}
  <2>1. con = "done" /\ fatal \in BOOLEAN
    BY <1>1 DEF IInv, LoggedInv, NotLogged, TypeOK
  <2>2. logged.status = IF fatal THEN "error" ELSE "success"
    BY <1>1, <2>1 DEF IInv, LoggedInv
  <2> QED
    BY <2>1, <2>2
<1>2. ASSUME IInv, logged.status = "success"
      PROVE  Count(taken, "fatal") = 0 /\ (gone \/ end = "eof")
  <2>1. ~fatal /\ con = "done" /\ taken \in Seq(Kinds)
    BY <1>1, <1>2 DEF IInv, TypeOK
  <2>2. {i \in DOMAIN taken : taken[i] = "fatal"} = {}
    BY <1>2, <2>1 DEF IInv, HandlerInv
  <2> QED
    BY <1>2, <2>1, <2>2, FS_EmptySet DEF Count, IInv, HandlerInv
<1>3. ASSUME IInv, logged.status = "error"
      PROVE  Count(taken, "fatal") = 1 \/ end = "broken"
  <2>1. fatal /\ taken \in Seq(Kinds)
    BY <1>1, <1>3 DEF IInv, TypeOK
  <2>2. CASE taken # <<>> /\ taken[Len(taken)] = "fatal"
    <3>1. {i \in DOMAIN taken : taken[i] = "fatal"} = {Len(taken)}
      BY <1>3, <2>1, <2>2 DEF IInv, HandlerInv
    <3> QED
      BY <3>1, FS_Singleton DEF Count
  <2> QED
    BY <1>3, <2>1, <2>2 DEF IInv, HandlerInv
<1>4. IInv => OnlyCleanIsBilled
  BY <1>2, <1>3 DEF OnlyCleanIsBilled
<1> QED
  BY Invariance, <1>4, PTL

(* Whatever the pump, nothing the client's format has is lost, reordered   *)
(* or sent after a fatal event, and the terminal framing is written once,  *)
(* last.                                                                   *)
THEOREM EventsAreForwardedInOrder == Spec => []ForwardedInOrder
<1>1. ASSUME IInv
      PROVE  /\ taken \in Seq(Kinds) /\ Len(taken) <= Len(sent)
             /\ \A i \in DOMAIN taken : taken[i] = sent[i]
             /\ \A i \in DOMAIN taken : taken[i] = "fatal" => i = Len(taken)
  <2>1. taken \in Seq(Kinds) /\ buf \in Seq(Kinds) /\ sent \in Seq(Kinds)
    BY <1>1 DEF IInv, TypeOK
  <2> QED
    BY <1>1, <2>1 DEF IInv, ChannelInv, HandlerInv
<1>2. IInv => ForwardedInOrder
  BY <1>1 DEF IInv, OutputInv, ForwardedInOrder
<1> QED
  BY Invariance, <1>2, PTL
-----------------------------------------------------------------------------
(* The handler returns within a bounded number of steps. *)

(* How many steps the handler has left with the events read so far: two    *)
(* for each it has not received, and those of its end.                     *)
Work ==
  2 * (Len(sent) - Len(taken))
    + (CASE con = "step" -> 3 [] con = "wait" -> 2 [] con = "finish" -> 1 [] OTHER -> 0)

(* Each step of the handler leaves it less to do, and once the body has    *)
(* ended nobody gives it more.                                             *)
Winds ==
  /\ Step \/ Wait \/ Finish => Work' < Work
  /\ end # "none" => Work' <= Work

(* A handler that waits on an empty channel waits for a producer that can  *)
(* go on: it has room to send, is about to close the channel, or reads a   *)
(* body that has not ended.                                                *)
WaitsForSomeone ==
  con = "wait" /\ buf = <<>> /\ ~ closed =>
    \/ prod = "read" /\ end = "none"
    \/ prod = "send" /\ Len(buf) < Cap
    \/ prod \in {"error", "close"}

LEMMA WorkCounted ==
  ASSUME IInv
  PROVE  Work \in Nat
<1>1. Len(sent) \in Nat /\ Len(taken) \in Nat /\ Len(buf) \in Nat
  BY DEF IInv, TypeOK
<1>2. Len(sent) - Len(taken) \in Nat
  BY <1>1 DEF IInv, ChannelInv
<1> QED
  BY <1>2 DEF Work

LEMMA StepWinds ==
  ASSUME IInv, [Next]_vars
  PROVE  Winds
<1>1. Len(sent) \in Int /\ Len(taken) \in Int
  BY DEF IInv, TypeOK
<1>2. ASSUME Step \/ Wait PROVE Work' < Work
  <2>1. con \in {"step", "wait"} /\ (Stops \/ Takes \/ Drains \/ Pauses)
    BY <1>2, HandlerSteps DEF IInv
  <2>2. CASE Takes
    <3>1. Len(taken') = Len(taken) + 1
      BY <2>2, TakeFacts DEF IInv, Received
    <3>2. sent' = sent /\ con' = "step"
      BY <2>2 DEF Takes, Take, Aside, producer
    <3> QED
      BY <1>1, <2>1, <3>1, <3>2 DEF Work
  <2>3. CASE Stops \/ Drains
    <3>1. UNCHANGED <<sent, taken>> /\ con' = "finish"
      BY <2>3 DEF Stops, Drains, Drained, Aside, producer
    <3> QED
      BY <1>1, <2>1, <3>1 DEF Work
  <2>4. CASE Pauses /\ con = "step"
    <3>1. UNCHANGED <<sent, taken>> /\ con' = "wait"
      BY <2>4 DEF Pauses, Aside, producer
    <3> QED
      BY <1>1, <2>4, <3>1 DEF Work
  <2>5. CASE con = "wait"
    <3>1. Wait
      BY <1>2, <2>5 DEF Step
    <3>2. con' # "wait"
      BY <3>1 DEF Wait, Take, Drained
    <3> QED
      BY <2>1, <2>2, <2>3, <3>2 DEF Pauses
  <2> QED
    BY <2>1, <2>2, <2>3, <2>4, <2>5
<1>3. ASSUME Finish PROVE Work' < Work
  <2>1. UNCHANGED <<sent, taken>> /\ con = "finish" /\ con' = "done"
    BY <1>3 DEF Finish, producer
  <2> QED
    BY <1>1, <2>1 DEF Work
<1>4. Work \in Int
  BY WorkCounted
<1>5. ASSUME UNCHANGED <<sent, taken, con>> PROVE Work' = Work
  BY <1>5 DEF Work
<1>6. ASSUME NEW k \in Kinds, Read(k) PROVE end = "none"
  BY <1>6 DEF Read, IInv, ProducerInv
<1>7. ASSUME \/ Push \/ \E e \in {"eof", "broken"} : ReadEnds(e)
             \/ PutError \/ CloseEvents \/ Leave \/ UNCHANGED vars
      PROVE  UNCHANGED <<sent, taken, con>>
  BY <1>7 DEF Push, ReadEnds, PutError, CloseEvents, Leave, producer, vars
<1>8. end # "none" => Work' = Work \/ Work' < Work
  BY <1>2, <1>3, <1>5, <1>6, <1>7 DEF Next
<1>9. Len(sent') \in Int /\ Len(taken') \in Int
  BY TypeStep DEF IInv, TypeOK
<1>10. Work' \in Int
  BY <1>9 DEF Work
<1> QED
  BY <1>2, <1>3, <1>4, <1>8, <1>10 DEF Winds

(* The handler cannot run for ever on a stream that has ended, nor wait    *)
(* for ever for a producer that has: what is left of HandlerReturns is     *)
(* that the steps it can take are taken.                                   *)
THEOREM HandlerIsFinite ==
  Spec => [](Work \in Nat /\ WaitsForSomeone) /\ [][Winds]_vars
<1>1. IInv => Work \in Nat /\ WaitsForSomeone
  <2> SUFFICES ASSUME IInv PROVE WaitsForSomeone
    BY WorkCounted
  <2>1. /\ prod \in {"read", "send", "error", "close", "done"}
        /\ prod \in {"read", "send"} <=> end = "none"
        /\ closed <=> prod = "done"
    BY DEF IInv, TypeOK, ProducerInv
  <2>2. buf = <<>> => Len(buf) < Cap
    BY StreamAssumption
  <2> QED
    BY <2>1, <2>2 DEF WaitsForSomeone
<1>2. IInv /\ [Next]_vars => [Winds]_vars
  BY StepWinds
<1> QED
  BY <1>1, <1>2, Invariance, PTL DEF Spec
=============================================================================
