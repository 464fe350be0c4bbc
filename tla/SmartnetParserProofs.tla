------------------------ MODULE SmartnetParserProofs ------------------------
(***************************************************************************)
(* Theorems about SmartnetParser for every set of systems, every kind of    *)
(* radio system and any number of words sent and lost.                      *)
(***************************************************************************)
EXTENDS SmartnetParser, SequenceTheorems, TLAPS

\* The words of a queue are numbered in its order.
Ordered(q) == \A i, j \in 1..Len(q) : i < j => q[i].no < q[j].no

\* A queue of words that were sent.
Queue(q, last) ==
  /\ q \in Seq(Word) /\ Len(q) <= OSW_QUEUE_SIZE
  /\ Ordered(q)
  /\ \A i \in 1..Len(q) : q[i].no <= last

\* Positions to put back, of the first n.
Back(n) == {b \in Seq(1..n) : Len(b) <= n /\ \A i, j \in 1..Len(b) : i < j => b[i] < b[j]}

\* The inductive invariant: no word is in the queue before it was sent.
IInv == TypeOK /\ ToldOnce /\ Queue(osw_q, sent)

(***************************************************************************)
(* Taking words from the queue and putting some of them back                *)
(***************************************************************************)

\* The queue after a take: the words put back, then those that were left.
LEMMA TakeShape ==
  ASSUME NEW q \in Seq(Word), NEW n \in 1..Len(q), NEW back \in Back(n), Take(q, n, back)
  PROVE  /\ osw_q' \in Seq(Word) /\ Len(osw_q') = Len(back) + (Len(q) - n)
         /\ \A i \in 1..Len(back) : osw_q'[i] = q[back[i]]
         /\ \A i \in (Len(back) + 1)..Len(osw_q') : osw_q'[i] = q[n + (i - Len(back))]
<1> DEFINE front == [i \in DOMAIN back |-> q[back[i]]]
           rest  == SubSeq(q, n + 1, Len(q))
<1>1. /\ q \in Seq(Word) /\ Len(q) \in Nat /\ n \in Nat /\ n <= Len(q)
      /\ \A i \in 1..Len(q) : q[i] \in Word
  OBVIOUS
<1>2. /\ back \in Seq(1..n) /\ Len(back) \in Nat /\ Len(back) <= n
      /\ DOMAIN back = 1..Len(back)
      /\ \A i \in 1..Len(back) : back[i] \in 1..n
  BY DEF Back
<1>3. /\ front \in Seq(Word) /\ Len(front) = Len(back)
      /\ \A i \in 1..Len(back) : front[i] = q[back[i]]
  <2>1. \A i \in 1..Len(back) : q[back[i]] \in Word
    BY <1>1, <1>2
  <2>2. QED
    BY <1>2, <2>1
<1>4. /\ rest \in Seq(Word) /\ Len(rest) = Len(q) - n
      /\ \A i \in 1..(Len(q) - n) : rest[i] = q[n + i]
  <2>1. \A i \in (n + 1)..Len(q) : q[i] \in Word
    BY <1>1
  <2>2. n + 1 \in Int /\ Len(q) \in Int
    BY <1>1
  <2>3. /\ rest \in Seq(Word)
        /\ Len(rest) = IF n + 1 <= Len(q) THEN Len(q) - (n + 1) + 1 ELSE 0
        /\ \A i \in 1..(Len(q) - (n + 1) + 1) : rest[i] = q[n + 1 + i - 1]
    BY <2>1, <2>2, SubSeqProperties
  <2>4. \A i \in 1..(Len(q) - n) : n + 1 + i - 1 = n + i
    BY <1>1
  <2>5. QED
    BY <1>1, <2>3, <2>4
<1>5. osw_q' = front \o rest
  BY DEF Take
<1> HIDE DEF front, rest
<1> DEFINE c == front \o rest
<1>6. /\ c \in Seq(Word) /\ Len(c) = Len(front) + Len(rest)
      /\ \A i \in 1..(Len(front) + Len(rest)) :
           c[i] = IF i <= Len(front) THEN front[i] ELSE rest[i - Len(front)]
  BY <1>3, <1>4, ConcatProperties
<1> HIDE DEF c
<1>7. c \in Seq(Word) /\ Len(c) = Len(back) + (Len(q) - n)
  BY <1>3, <1>4, <1>6
<1>8. ASSUME NEW i \in 1..Len(back) PROVE c[i] = q[back[i]]
  <2>1. i \in 1..(Len(front) + Len(rest)) /\ i <= Len(front)
    BY <1>1, <1>2, <1>3, <1>4
  <2>2. QED
    BY <1>3, <1>6, <2>1
<1>9. ASSUME NEW i \in (Len(back) + 1)..Len(c) PROVE c[i] = q[n + (i - Len(back))]
  <2>1. /\ i \in 1..(Len(front) + Len(rest)) /\ ~(i <= Len(front))
        /\ i - Len(back) \in 1..(Len(q) - n)
    BY <1>1, <1>2, <1>3, <1>4, <1>7
  <2>2. c[i] = rest[i - Len(back)]
    BY <1>3, <1>6, <2>1
  <2>3. QED
    BY <1>4, <2>1, <2>2
<1>10. osw_q' = c
  BY <1>5 DEF c
<1>11. QED
  BY <1>7, <1>8, <1>9, <1>10

\* Words are put back in front of those that were left, in their order.
LEMMA TakeKeepsOrder ==
  ASSUME NEW last \in Nat, NEW q, Queue(q, last),
         NEW n \in 1..Len(q), NEW back \in Back(n), Take(q, n, back)
  PROVE  /\ Queue(osw_q', last)
         /\ \A i \in 1..Len(osw_q') : \E j \in 1..Len(q) :
              osw_q'[i] = q[j] /\ (j > n \/ \E k \in 1..Len(back) : j = back[k])
<1>1. /\ q \in Seq(Word) /\ Len(q) \in Nat /\ n \in Nat /\ n <= Len(q)
      /\ \A i \in 1..Len(q) : q[i] \in Word
  BY DEF Queue
<1>2. /\ back \in Seq(1..n) /\ Len(back) \in Nat /\ Len(back) <= n
      /\ DOMAIN back = 1..Len(back)
      /\ \A i \in 1..Len(back) : back[i] \in 1..n
  BY DEF Back
<1>3. /\ osw_q' \in Seq(Word) /\ Len(osw_q') = Len(back) + (Len(q) - n)
      /\ \A i \in 1..Len(back) : osw_q'[i] = q[back[i]]
      /\ \A i \in (Len(back) + 1)..Len(osw_q') : osw_q'[i] = q[n + (i - Len(back))]
  BY <1>1, TakeShape
<1> DEFINE From(i) == IF i <= Len(back) THEN back[i] ELSE n + (i - Len(back))
<1>4. ASSUME NEW i \in 1..Len(osw_q')
      PROVE  From(i) \in 1..Len(q) /\ osw_q'[i] = q[From(i)]
  <2>1. CASE i <= Len(back)
    <3>1. i \in 1..Len(back) /\ From(i) = back[i]
      BY <1>2, <1>3, <2>1
    <3>2. From(i) \in 1..Len(q) /\ osw_q'[i] = q[back[i]]
      BY <1>1, <1>2, <1>3, <3>1
    <3>3. QED
      BY <3>1, <3>2
  <2>2. CASE ~(i <= Len(back))
    <3>1. i \in (Len(back) + 1)..Len(osw_q') /\ From(i) = n + (i - Len(back))
      BY <1>1, <1>2, <1>3, <2>2
    <3>2. From(i) \in 1..Len(q)
      BY <1>1, <1>2, <1>3, <3>1
    <3>3. QED
      BY <1>3, <3>1, <3>2
  <2>3. QED
    BY <2>1, <2>2
<1>5. \A i, j \in 1..Len(osw_q') : i < j => From(i) < From(j)
  <2> SUFFICES ASSUME NEW i \in 1..Len(osw_q'), NEW j \in 1..Len(osw_q'), i < j
               PROVE  From(i) < From(j)
    OBVIOUS
  <2>1. CASE j <= Len(back)
    <3>1. i \in 1..Len(back) /\ j \in 1..Len(back)
      BY <1>2, <1>3, <2>1
    <3>2. QED
      BY <2>1, <3>1 DEF Back
  <2>2. CASE i <= Len(back) /\ ~(j <= Len(back))
    BY <1>1, <1>2, <1>3, <2>2
  <2>3. CASE ~(i <= Len(back))
    BY <1>1, <1>2, <1>3, <2>3
  <2>4. QED
    BY <2>1, <2>2, <2>3
<1>6. \A i \in 1..Len(osw_q') : From(i) > n \/ \E k \in 1..Len(back) : From(i) = back[k]
  BY <1>1, <1>2, <1>3
<1> HIDE DEF From
<1>7. Len(osw_q') <= OSW_QUEUE_SIZE
  BY <1>1, <1>2, <1>3 DEF Queue, OSW_QUEUE_SIZE
<1>8. Ordered(osw_q')
  BY <1>4, <1>5 DEF Ordered, Queue
<1>9. \A i \in 1..Len(osw_q') : osw_q'[i].no <= last
  BY <1>4 DEF Queue
<1>10. Queue(osw_q', last)
  BY <1>3, <1>7, <1>8, <1>9 DEF Queue
<1>11. QED
  BY <1>4, <1>6, <1>10
\* What the code puts back: nothing, one word, or two in their order.
LEMMA BackPositions ==
  /\ \A n \in Nat : <<>> \in Back(n)
  /\ \A n \in Nat : \A a \in 1..n : <<a>> \in Back(n)
  /\ \A n \in Nat : \A a, b \in 1..n : a < b => <<a, b>> \in Back(n)
<1>1. ASSUME NEW n \in Nat PROVE <<>> \in Back(n)
  BY DEF Back
<1>2. ASSUME NEW n \in Nat, NEW a \in 1..n PROVE <<a>> \in Back(n)
  <2>1. <<a>> \in Seq(1..n) /\ Len(<<a>>) = 1 /\ 1 <= n
    OBVIOUS
  <2>2. QED
    BY <2>1 DEF Back
<1>3. ASSUME NEW n \in Nat, NEW a \in 1..n, NEW b \in 1..n, a < b PROVE <<a, b>> \in Back(n)
  <2>1. /\ <<a, b>> \in Seq(1..n) /\ Len(<<a, b>>) = 2 /\ 2 <= n
        /\ <<a, b>>[1] = a /\ <<a, b>>[2] = b
    BY <1>3
  <2>2. \A i, j \in 1..2 : i < j => i = 1 /\ j = 2
    OBVIOUS
  <2>3. QED
    BY <1>3, <2>1, <2>2 DEF Back
<1>4. QED
  BY <1>1, <1>2, <1>3

\* What every way through process_osws establishes.
Parsed(last) == Queue(osw_q', last) /\ told' \subseteq TrunkMessage /\ ToldOnce'

LEMMA SilentKeeps ==
  ASSUME NEW last \in Nat, NEW q, Queue(q, last),
         NEW n \in 1..Len(q), NEW back \in Back(n), Take(q, n, back), Silent
  PROVE  Parsed(last)
<1>1. Queue(osw_q', last)
  BY TakeKeepsOrder
<1>2. told' = {}
  BY DEF Silent
<1>3. QED
  BY <1>1, <1>2 DEF Parsed, ToldOnce

\* A message of the first n words, all of which leave the queue.
LEMMA TellKeeps ==
  ASSUME NEW last \in Nat, NEW q, Queue(q, last), NEW n \in 1..Len(q), Take(q, n, <<>>),
         NEW type \in {"GRANT", "UPDATE"}, NEW words \in Seq(Word), NEW s \in Systems,
         \A i \in 1..Len(words) : \E j \in 1..n : words[i] = q[j],
         Tell(type, words, s)
  PROVE  Parsed(last)
<1>1. n \in Nat /\ <<>> \in Back(n) /\ Len(q) \in Nat
  BY BackPositions DEF Queue
<1>2. /\ Queue(osw_q', last)
      /\ \A i \in 1..Len(osw_q') : \E j \in 1..Len(q) :
           osw_q'[i] = q[j] /\ (j > n \/ \E k \in 1..Len(<<>>) : j = <<>>[k])
  BY <1>1, TakeKeepsOrder
<1>3. \A i \in 1..Len(osw_q') : \E j \in 1..Len(q) : osw_q'[i] = q[j] /\ j > n
  <2>1. 1..Len(<<>>) = {}
    OBVIOUS
  <2>2. QED
    BY <1>2, <2>1
<1> DEFINE m == [type |-> type, words |-> words, sys_num |-> FirstSystem, sys |-> s]
<1>4. told' = {m}
  BY DEF Tell
<1>5. m \in TrunkMessage
  BY SmartnetAssumption DEF TrunkMessage
<1>6. ASSUME NEW i \in DOMAIN words, words[i] \in Range(osw_q')
      PROVE  FALSE
  <2>1. i \in 1..Len(words) /\ DOMAIN osw_q' = 1..Len(osw_q')
    BY <1>2 DEF Queue
  <2>2. PICK k \in 1..Len(osw_q') : osw_q'[k] = words[i]
    BY <1>6, <2>1 DEF Range
  <2>3. PICK a \in 1..n : words[i] = q[a]
    BY <2>1
  <2>4. PICK b \in 1..Len(q) : osw_q'[k] = q[b] /\ b > n
    BY <1>3
  <2>5. a \in 1..Len(q) /\ a < b
    BY <1>1, <2>4
  <2>6. q[a].no < q[b].no
    BY <2>5 DEF Queue, Ordered
  <2>7. q[a] \in Word
    BY <2>5 DEF Queue
  <2>8. q[a].no \in Nat
    BY <2>7 DEF Word
  <2>9. q[b] = q[a]
    BY <2>2, <2>3, <2>4
  <2>10. QED
    BY <2>6, <2>8, <2>9
<1>7. m.words = words
  OBVIOUS
<1> HIDE DEF m
<1>8. ToldOnce'
  BY <1>4, <1>6, <1>7 DEF ToldOnce
<1>9. QED
  BY <1>2, <1>4, <1>5, <1>8 DEF Parsed

\* process_osws keeps the queue in order and tells of no word twice.
LEMMA ProcessKeeps ==
  ASSUME NEW last \in Nat, NEW q, Queue(q, last), NEW s \in Systems, Process(q, s)
  PROVE  Parsed(last)
<1>1. CASE Len(q) < OSW_QUEUE_SIZE /\ osw_q' = q /\ Silent
  BY <1>1 DEF Parsed, Silent, ToldOnce
<1>2. CASE /\ Len(q) >= OSW_QUEUE_SIZE
           /\ \/ Obt(q, s) \/ Update(q, s) \/ Single(q)
              \/ First308(q, s) \/ First321(q, s) \/ Unknown(q)
  <2>1. /\ Len(q) = 6 /\ q \in Seq(Word)
        /\ q[1] \in Word /\ q[2] \in Word
    <3>1. q \in Seq(Word) /\ Len(q) <= 6 /\ Len(q) >= 6
      BY <1>2 DEF Queue, OSW_QUEUE_SIZE
    <3>2. Len(q) \in Nat
      BY <3>1
    <3>3. \A k \in Nat : k <= 6 /\ k >= 6 => k = 6
      OBVIOUS
    <3>4. Len(q) = 6
      BY <3>1, <3>2, <3>3, Zenon
    <3>5. QED
      BY <3>1, <3>4
  <2>2. ASSUME NEW n \in 1..4, Consume(q, n) PROVE Parsed(last)
    <3>1. n \in 1..Len(q) /\ <<>> \in Back(n)
      BY <2>1, BackPositions
    <3>2. Take(q, n, <<>>) /\ Silent
      BY <2>2 DEF Consume
    <3>3. QED
      BY <3>1, <3>2, SilentKeeps
  <2>3. ASSUME NEW n \in 1..4, NEW a \in 1..n, Take(q, n, <<a>>), Silent PROVE Parsed(last)
    <3>1. n \in 1..Len(q) /\ <<a>> \in Back(n)
      BY <2>1, BackPositions
    <3>2. QED
      BY <2>3, <3>1, SilentKeeps
  <2>4. ASSUME NEW n \in 1..4, NEW a \in 1..n, NEW b \in 1..n, a < b,
               Take(q, n, <<a, b>>), Silent
        PROVE  Parsed(last)
    <3>1. n \in 1..Len(q) /\ <<a, b>> \in Back(n)
      BY <2>1, <2>4, BackPositions
    <3>2. QED
      BY <2>4, <3>1, SilentKeeps
  <2>5. ASSUME Grant(q, s) PROVE Parsed(last)
    <3> DEFINE words == <<q[1], q[2]>>
    <3>1. /\ words \in Seq(Word) /\ 2 \in 1..Len(q)
          /\ \A i \in 1..Len(words) : \E j \in 1..2 : words[i] = q[j]
      BY <2>1
    <3>2. Take(q, 2, <<>>) /\ Tell("GRANT", words, s)
      BY <2>5 DEF Grant
    <3> HIDE DEF words
    <3>3. QED
      BY <3>1, <3>2, TellKeeps
  <2>6. CASE Obt(q, s)
    BY <2>6, <2>2, <2>3, <2>5 DEF Obt
  <2>7. CASE Update(q, s)
    <3> DEFINE words == <<q[1]>>
    <3>1. /\ words \in Seq(Word) /\ 1 \in 1..Len(q)
          /\ \A i \in 1..Len(words) : \E j \in 1..1 : words[i] = q[j]
      BY <2>1
    <3>2. Take(q, 1, <<>>) /\ Tell("UPDATE", words, s)
      BY <2>7 DEF Update
    <3> HIDE DEF words
    <3>3. QED
      BY <3>1, <3>2, TellKeeps
  <2>8. CASE Single(q)
    BY <2>8, <2>2 DEF Single
  <2>9. ASSUME NEW cmds, IdleSecond(q, cmds) PROVE Parsed(last)
    <3>1. CASE Take(q, 3, <<3>>) /\ Silent
      BY <2>3, <3>1
    <3>2. CASE Take(q, 3, <<1, 3>>) /\ Silent
      BY <2>4, <3>2
    <3>3. QED
      BY <2>9, <3>1, <3>2 DEF IdleSecond
  <2>10. CASE First308(q, s)
    <3>1. CASE AnalogGrant(q) /\ Grant(q, s)
      BY <2>5, <3>1
    <3>2. CASE Consume(q, 2)
      BY <2>2, <3>2
    <3>3. CASE Twice308(q)
      <4>1. CASE Take(q, 3, <<2>>) /\ Silent
        BY <2>3, <4>1
      <4>2. CASE Take(q, 3, <<2, 3>>) /\ Silent
        BY <2>4, <4>2
      <4>3. QED
        BY <3>3, <4>1, <4>2 DEF Twice308
    <3>4. CASE Extended(q)
      <4>1. ASSUME NEW n \in {3, 4}, Take(q, n, <<>>) \/ Take(q, n, <<n>>), Silent
            PROVE  Parsed(last)
        <5>1. n \in 1..4 /\ n \in 1..n
          OBVIOUS
        <5>2. CASE Take(q, n, <<>>)
          BY <2>2, <4>1, <5>1, <5>2 DEF Consume
        <5>3. CASE Take(q, n, <<n>>)
          BY <2>3, <4>1, <5>1, <5>3
        <5>4. QED
          BY <4>1, <5>2, <5>3
      <4>2. CASE Idle(q[3])
        BY <3>4, <4>1, <4>2 DEF Extended
      <4>3. CASE ~Idle(q[3])
        BY <3>4, <4>1, <4>3 DEF Extended
      <4>4. QED
        BY <4>2, <4>3
    <3>5. CASE SystemInformation(q)
      <4>1. CASE Take(q, 4, <<>>) /\ Silent
        BY <2>2, <4>1 DEF Consume
      <4>2. CASE Take(q, 3, <<>>) /\ Silent
        BY <2>2, <4>2 DEF Consume
      <4>3. CASE Take(q, 3, <<3>>) /\ Silent
        BY <2>3, <4>3
      <4>4. QED
        BY <3>5, <4>1, <4>2, <4>3 DEF SystemInformation
    <3>6. CASE Take(q, 2, <<2>>) /\ Silent
      BY <2>3, <3>6
    <3>7. QED
      BY <2>9, <2>10, <3>1, <3>2, <3>3, <3>4, <3>5, <3>6 DEF First308
  <2>11. CASE First321(q, s)
    BY <2>2, <2>3, <2>5, <2>9, <2>11 DEF First321
  <2>12. CASE Unknown(q)
    BY <2>3, <2>12 DEF Unknown
  <2>13. QED
    BY <1>2, <2>6, <2>7, <2>8, <2>10, <2>11, <2>12
<1>3. QED
  BY <1>1, <1>2 DEF Process
(***************************************************************************)
(* The steps                                                               *)
(***************************************************************************)

\* enqueue: the new word is the last in the queue and the last that was sent.
LEMMA EnqueueKeepsOrder ==
  ASSUME NEW last \in Nat, Queue(osw_q, last), NEW w \in Word, w.no = last + 1
  PROVE  Queue(Enqueued(w), last + 1)
<1> DEFINE q == IF Len(osw_q) >= OSW_QUEUE_SIZE THEN Tail(osw_q) ELSE osw_q
<1>1. /\ osw_q \in Seq(Word) /\ Len(osw_q) \in Nat
      /\ Len(osw_q) <= 6
      /\ \A i \in 1..Len(osw_q) : osw_q[i].no \in Nat /\ osw_q[i].no <= last
      /\ Ordered(osw_q)
  <2>1. /\ osw_q \in Seq(Word) /\ Len(osw_q) <= 6 /\ Ordered(osw_q)
        /\ \A i \in 1..Len(osw_q) : osw_q[i].no <= last
    BY DEF Queue, OSW_QUEUE_SIZE
  <2>2. Len(osw_q) \in Nat /\ \A i \in 1..Len(osw_q) : osw_q[i] \in Word
    BY <2>1
  <2>3. \A w1 \in Word : w1.no \in Nat
    BY DEF Word
  <2>4. QED
    BY <2>1, <2>2, <2>3
<1>2. /\ q \in Seq(Word) /\ Len(q) \in Nat /\ Len(q) < 6
      /\ \A i \in 1..Len(q) : q[i].no <= last
      /\ Ordered(q)
  <2>1. CASE Len(osw_q) >= 6
    <3>1. /\ osw_q # <<>> /\ Tail(osw_q) \in Seq(Word)
          /\ Len(Tail(osw_q)) = Len(osw_q) - 1
          /\ \A i \in 1..Len(Tail(osw_q)) : Tail(osw_q)[i] = osw_q[i + 1]
      BY <1>1, <2>1
    <3>2. q = Tail(osw_q)
      BY <2>1 DEF OSW_QUEUE_SIZE
    <3> HIDE DEF q
    <3>3. \A i \in 1..Len(q) : i + 1 \in 1..Len(osw_q) /\ q[i] = osw_q[i + 1]
      <4>1. \A i \in 1..(Len(osw_q) - 1) : i + 1 \in 1..Len(osw_q)
        BY <1>1
      <4>2. QED
        BY <3>1, <3>2, <4>1
    <3>4. Ordered(q)
      BY <1>1, <3>3 DEF Ordered
    <3>5. QED
      BY <1>1, <3>1, <3>2, <3>3, <3>4
  <2>2. CASE ~(Len(osw_q) >= 6)
    BY <1>1, <2>2 DEF OSW_QUEUE_SIZE
  <2>3. QED
    BY <2>1, <2>2
<1>3. Enqueued(w) = Append(q, w)
  BY DEF Enqueued
<1> HIDE DEF q
<1> DEFINE e == Append(q, w)
<1>4. /\ e \in Seq(Word) /\ Len(e) = Len(q) + 1
      /\ \A i \in 1..Len(q) : e[i] = q[i]
      /\ e[Len(q) + 1] = w
  BY <1>2
<1> HIDE DEF e
<1>5. \A i \in 1..Len(e) : e[i].no <= last + 1
  <2> SUFFICES ASSUME NEW i \in 1..Len(e) PROVE e[i].no <= last + 1
    OBVIOUS
  <2>1. CASE i \in 1..Len(q)
    <3>1. q[i] \in Word /\ q[i].no <= last /\ e[i] = q[i]
      BY <1>2, <1>4, <2>1
    <3>2. q[i].no \in Nat
      BY <3>1 DEF Word
    <3>3. QED
      BY <3>1, <3>2
  <2>2. CASE i = Len(q) + 1
    BY <1>4, <2>2
  <2>3. QED
    BY <1>2, <1>4, <2>1, <2>2
<1>6. Ordered(e)
  <2> SUFFICES ASSUME NEW i \in 1..Len(e), NEW j \in 1..Len(e), i < j
               PROVE  e[i].no < e[j].no
    BY DEF Ordered
  <2>1. i \in 1..Len(q)
    BY <1>2, <1>4
  <2>2. CASE j \in 1..Len(q)
    BY <1>2, <1>4, <2>1, <2>2 DEF Ordered
  <2>3. CASE j = Len(q) + 1
    <3>1. q[i] \in Word /\ q[i].no <= last
      BY <1>2, <2>1
    <3>2. q[i].no \in Nat
      BY <3>1 DEF Word
    <3>3. QED
      BY <1>4, <2>1, <2>3, <3>1, <3>2
  <2>4. QED
    BY <1>2, <1>4, <2>2, <2>3
<1>7. Len(e) <= OSW_QUEUE_SIZE
  BY <1>2, <1>4 DEF OSW_QUEUE_SIZE
<1>8. QED
  BY <1>3, <1>4, <1>5, <1>6, <1>7 DEF Queue, e

\* The word that is sent next has its type and its number.
LEMMA NextWordTyped ==
  ASSUME IInv, NEW s \in Systems, Sending(s)
  PROVE  /\ NextWord(s) \in Word /\ NextWord(s).no = sent + 1
         /\ sent \in Nat /\ sent' = sent + 1 /\ air' \in [Systems -> Seq(Template)]
<1>1. air[s] \in Seq(Template) /\ air[s] # <<>>
  BY DEF IInv, TypeOK, Sending
<1>2. Head(air[s]) \in Template /\ Tail(air[s]) \in Seq(Template)
  BY <1>1
<1>3. s \in Nat /\ began[s] \in Nat /\ sent \in Nat
  BY SmartnetAssumption DEF IInv, TypeOK
<1>4. NextWord(s) \in Word /\ NextWord(s).no = sent + 1
  BY <1>2, <1>3 DEF NextWord, Word, Template
<1>5. QED
  BY <1>2, <1>3, <1>4 DEF IInv, TypeOK, Sending

LEMMA InitInv == Init => IInv
<1> SUFFICES ASSUME Init PROVE IInv
  OBVIOUS
<1>1. osw_q = <<>> /\ told = {} /\ sent = 0
  BY DEF Init
<1>2. Queue(osw_q, sent)
  BY <1>1 DEF Queue, Ordered, OSW_QUEUE_SIZE
<1>3. TypeOK
  BY <1>1 DEF Init, TypeOK, OSW_QUEUE_SIZE
<1>4. QED
  BY <1>1, <1>2, <1>3 DEF IInv, ToldOnce

\* What process_osws leaves alone is what the radio system does.
LEMMA StepInv == IInv /\ [Next]_vars => IInv'
<1> SUFFICES ASSUME IInv, [Next]_vars PROVE IInv'
  OBVIOUS
<1>1. TypeOK /\ ToldOnce /\ Queue(osw_q, sent)
  BY DEF IInv
<1>2. ASSUME NEW s \in Systems, Begin(s) PROVE IInv'
  <2>1. osw_q' = osw_q /\ told' = told /\ sent' = sent
    BY <1>2 DEF Begin
  <2>2. TypeOK'
    <3>1. PICK b \in radio : air' = [air EXCEPT ![s] = b]
      BY <1>2 DEF Begin
    <3>2. b \in Seq(Template)
      BY <1>1, SmartnetAssumption DEF TypeOK
    <3>3. air' \in [Systems -> Seq(Template)]
      BY <1>1, <3>1, <3>2 DEF TypeOK
    <3>4. began' \in [Systems -> Nat]
      BY <1>1, <1>2 DEF TypeOK, Begin
    <3>5. QED
      BY <1>1, <1>2, <3>3, <3>4 DEF TypeOK, Begin
  <2>3. QED
    BY <1>1, <2>1, <2>2 DEF IInv, ToldOnce
<1>3. ASSUME NEW s \in Systems, Sending(s)
      PROVE  /\ NextWord(s) \in Word /\ NextWord(s).no = sent + 1
             /\ sent \in Nat /\ sent' = sent + 1 /\ air' \in [Systems -> Seq(Template)]
  BY <1>3, NextWordTyped
<1>4. ASSUME NEW s \in Systems, Receive(s) PROVE IInv'
  <2>1. Sending(s)
    BY <1>4 DEF Receive
  <2> DEFINE q == Enqueued(NextWord(s))
  <2>2. Queue(q, sent + 1) /\ sent + 1 \in Nat
    BY <1>1, <1>3, <2>1, EnqueueKeepsOrder
  <2>3. Process(q, s)
    BY <1>4 DEF Receive
  <2> HIDE DEF q
  <2>4. Parsed(sent + 1)
    BY <2>2, <2>3, ProcessKeeps
  <2>5. Queue(osw_q', sent') /\ told' \subseteq TrunkMessage /\ ToldOnce'
    BY <1>3, <2>1, <2>4 DEF Parsed
  <2>6. TypeOK'
    BY <1>1, <1>3, <1>4, <2>1, <2>5 DEF TypeOK, Queue, Receive, Sending
  <2>7. QED
    BY <2>5, <2>6 DEF IInv
<1>5. ASSUME NEW s \in Systems, Lose(s) PROVE IInv'
  <2>1. Sending(s) /\ osw_q' = osw_q /\ told' = told /\ lost' = lost \cup {sent + 1}
    BY <1>5 DEF Lose
  <2>2. sent \in Nat /\ sent' = sent + 1
    BY <1>3, <2>1
  <2>3. \A i \in 1..Len(osw_q) : osw_q[i].no <= sent + 1
    <3> SUFFICES ASSUME NEW i \in 1..Len(osw_q) PROVE osw_q[i].no <= sent + 1
      OBVIOUS
    <3>1. osw_q[i] \in Word /\ osw_q[i].no <= sent
      BY <1>1 DEF Queue
    <3>2. osw_q[i].no \in Nat
      BY <3>1 DEF Word
    <3>3. QED
      BY <2>2, <3>1, <3>2
  <2>4. Queue(osw_q', sent')
    BY <1>1, <2>1, <2>2, <2>3 DEF Queue, Ordered
  <2>5. TypeOK'
    BY <1>1, <1>3, <2>1, <2>2 DEF TypeOK, Sending
  <2>6. QED
    BY <1>1, <2>1, <2>4, <2>5 DEF IInv, ToldOnce
<1>6. ASSUME NEW s \in Systems, Timeout(s) PROVE IInv'
  <2>1. Process(osw_q, s) /\ UNCHANGED <<radio, air, began, sent, lost>>
    BY <1>6 DEF Timeout, sky
  <2>2. Parsed(sent)
    BY <1>1, <2>1, ProcessKeeps DEF TypeOK
  <2>3. TypeOK'
    BY <1>1, <2>1, <2>2 DEF TypeOK, Parsed, Queue
  <2>4. QED
    BY <2>1, <2>2, <2>3 DEF IInv, Parsed
<1>7. CASE UNCHANGED vars
  BY <1>1, <1>7 DEF vars, sky, IInv, TypeOK, ToldOnce, Queue, Ordered
<1>8. QED
  BY <1>2, <1>4, <1>5, <1>6, <1>7 DEF Next

(***************************************************************************)
(* What is told, as long as no word is lost                                *)
(***************************************************************************)

\* The words sent so far keep to the protocol, across bursts too.
Stream(h) ==
  /\ \A i \in 1..(Len(h) - 1) : Opens(h[i]) /\ Talk(h[i + 1]) => SameMessage(h[i], h[i + 1])
  /\ \A i \in 1..(Len(h) - 3) : IdleAround(h, i) =>
       h[i + 3].cmd # "308" /\ (Talk(h[i + 3]) => SameMessage(h[i + 1], h[i + 3]))
  /\ \A i \in 1..(Len(h) - 2) : h[i].cmd = "320" /\ Idle(h[i + 1]) => ~Talk(h[i + 2])

\* No message is open after the m-th word.
Closed(h, m) ==
  /\ m >= 1 => ~Opens(h[m]) /\ h[m].cmd # "320"
  /\ m >= 2 => ~(h[m - 1].cmd = "320" /\ Idle(h[m]))
  /\ m >= 3 => ~IdleAround(h, m - 2)

\* w is the template t, sent by s in its burst.
Stamped(w, t, s) ==
  /\ w.cmd = t.cmd /\ w.grp = t.grp /\ w.addr = t.addr /\ w.part = t.part
  /\ w.sys = s /\ w.burst = began[s]

\* The last k words sent are the first k of b, of which the rest is on the air.
OnAir(h, s, b, k) ==
  /\ air[s] = SubSeq(b, k + 1, Len(b))
  /\ k <= Len(h)
  /\ \A j \in 1..k : Stamped(h[Len(h) - k + j], b[j], s)
  /\ Closed(h, Len(h) - k)

Bursts(h, s) ==
  \E b \in radio \cup {<<>>} : \E k \in 0..Len(b) : OnAir(h, s, b, k)

\* The first word of a queue that was put back in front of a word not its next.
Kept(q) ==
  /\ Len(q) >= 2 /\ q[1].cmd \in {"308", "321"} /\ q[2].cmd # "308"
  /\ Talk(q[2]) => SameMessage(q[1], q[2])

\* The queue holds the last words sent; only its first may be an earlier one.
Heard(q, h) ==
  /\ Len(q) <= Len(h)
  /\ \A i \in 2..Len(q) : q[i] = h[Len(h) - Len(q) + i]
  /\ q = <<>> \/ Kept(q) \/ q[1] = h[Len(h) - Len(q) + 1]

\* What enqueue drops from a full queue assigns no channel.
Spare(q) == Len(q) = 6 => ~Talk(q[1])

Matched == \A m \in told : SameMessage(Head(m.words), Last(m.words))

\* The second inductive invariant.
Heeded ==
  lost = {} =>
    /\ \E h \in Seq(Word) : Stream(h) /\ Heard(osw_q, h) /\ \A s \in Systems : Bursts(h, s)
    /\ Spare(osw_q) /\ Matched

\* A word of q that assigns a channel stays in the queue or is told.
Reported(q) ==
  \A i \in 1..Len(q) : Talk(q[i]) =>
    \/ \E j \in 1..Len(osw_q') : osw_q'[j] = q[i]
    \/ \E m \in told' : Last(m.words) = q[i]

Understood(q, h) == Heard(osw_q', h) /\ Spare(osw_q') /\ Matched' /\ Reported(q)

\* Putting back the last of the words taken, or one that is then Kept.
LEMMA TakeHeard ==
  ASSUME NEW h \in Seq(Word), NEW q \in Seq(Word), Heard(q, h),
         NEW n \in 1..Len(q), NEW back \in Back(n), Take(q, n, back), Len(back) < n,
         \A i \in 2..Len(back) : back[i] = n - Len(back) + i,
         back = <<>> \/ Kept(osw_q') \/ back[1] = n - Len(back) + 1
  PROVE  Heard(osw_q', h)
<1> DEFINE p == osw_q'
<1>1. /\ Len(q) \in Nat /\ Len(h) \in Nat /\ n \in Nat /\ n <= Len(q)
      /\ Len(back) \in Nat
      /\ p \in Seq(Word) /\ Len(p) \in Nat /\ Len(p) = Len(back) + (Len(q) - n)
      /\ \A i \in 1..Len(back) : p[i] = q[back[i]]
      /\ \A i \in (Len(back) + 1)..Len(p) : p[i] = q[n + (i - Len(back))]
  <2>1. /\ p \in Seq(Word) /\ Len(p) = Len(back) + (Len(q) - n)
        /\ \A i \in 1..Len(back) : p[i] = q[back[i]]
        /\ \A i \in (Len(back) + 1)..Len(p) : p[i] = q[n + (i - Len(back))]
    BY TakeShape
  <2>2. Len(q) \in Nat /\ Len(h) \in Nat /\ n \in Nat /\ n <= Len(q)
    OBVIOUS
  <2>3. back \in Seq(1..n)
    BY DEF Back
  <2> HIDE DEF p
  <2>4. Len(back) \in Nat /\ Len(p) \in Nat
    BY <2>1, <2>3
  <2>5. QED
    BY <2>1, <2>2, <2>4
<1>2. /\ Len(q) <= Len(h)
      /\ \A i \in 2..Len(q) : q[i] = h[Len(h) - Len(q) + i]
  BY DEF Heard
<1> HIDE DEF p
<1>3. ASSUME NEW i \in 1..Len(p), i > Len(back) \/ back[i] = n - Len(back) + i
      PROVE  p[i] = h[Len(h) - Len(p) + i]
  <2>1. p[i] = q[n - Len(back) + i]
    <3>1. CASE i > Len(back)
      <4>1. i \in (Len(back) + 1)..Len(p) /\ n + (i - Len(back)) = n - Len(back) + i
        BY <1>1, <3>1
      <4>2. QED
        BY <1>1, <4>1
    <3>2. CASE ~(i > Len(back))
      <4>1. i \in 1..Len(back)
        BY <1>1, <3>2
      <4>2. QED
        BY <1>1, <1>3, <3>2, <4>1
    <3>3. QED
      BY <3>1, <3>2
  <2>2. n - Len(back) + i \in 2..Len(q)
    BY <1>1
  <2>3. Len(h) - Len(q) + (n - Len(back) + i) = Len(h) - Len(p) + i
    BY <1>1
  <2>4. QED
    BY <1>2, <2>1, <2>2, <2>3
<1>4. \A i \in 2..Len(p) : p[i] = h[Len(h) - Len(p) + i]
  <2> SUFFICES ASSUME NEW i \in 2..Len(p) PROVE p[i] = h[Len(h) - Len(p) + i]
    OBVIOUS
  <2>1. i \in 1..Len(p) /\ (i > Len(back) \/ i \in 2..Len(back))
    BY <1>1
  <2>2. QED
    BY <1>3, <2>1
<1>5. p = <<>> \/ Kept(p) \/ p[1] = h[Len(h) - Len(p) + 1]
  <2>1. CASE p = <<>> \/ Kept(p)
    BY <2>1
  <2>2. CASE p # <<>> /\ ~Kept(p)
    <3>1. 1 \in 1..Len(p)
      BY <1>1, <2>2
    <3>2. 1 > Len(back) \/ back[1] = n - Len(back) + 1
      <4>1. CASE back = <<>>
        BY <4>1
      <4>2. CASE back # <<>>
        BY <2>2, <4>2 DEF p
      <4>3. QED
        BY <4>1, <4>2
    <3>3. QED
      BY <1>3, <3>1, <3>2
  <2>3. QED
    BY <2>1, <2>2
<1>6. Len(p) <= Len(h)
  BY <1>1, <1>2
<1>7. Heard(p, h)
  BY <1>4, <1>5, <1>6 DEF Heard
<1>8. QED
  BY <1>7 DEF p

\* What the protocol says of the first four words of a queue.
LEMMA HeardFirst ==
  ASSUME NEW h \in Seq(Word), NEW q \in Seq(Word), Len(q) = 6, Stream(h), Heard(q, h)
  PROVE  /\ Opens(q[1]) /\ Talk(q[2]) => SameMessage(q[1], q[2])
         /\ IdleAround(q, 1) =>
              q[4].cmd # "308" /\ (Talk(q[4]) => SameMessage(q[2], q[4]))
         /\ q[2].cmd = "320" /\ Idle(q[3]) => ~Talk(q[4])
<1> DEFINE d == Len(h) - 6
<1>1. /\ Len(h) \in Nat /\ d \in Nat /\ Len(h) = d + 6
      /\ q[2] = h[d + 2] /\ q[3] = h[d + 3] /\ q[4] = h[d + 4]
  BY DEF Heard
<1>2. Kept(q) \/ q[1] = h[d + 1]
  <2>1. q # <<>> /\ Len(h) - Len(q) + 1 = d + 1
    <3>1. Len(q) # 0
      OBVIOUS
    <3>2. q # <<>>
      BY <3>1, EmptySeq
    <3>3. QED
      BY <3>2
  <2>2. q = <<>> \/ Kept(q) \/ q[1] = h[Len(h) - Len(q) + 1]
    BY DEF Heard
  <2>3. QED
    BY <2>1, <2>2, Zenon
<1> HIDE DEF d
<1>3. /\ d + 1 \in 1..(Len(h) - 1) /\ d + 1 \in 1..(Len(h) - 3)
      /\ d + 2 \in 1..(Len(h) - 2)
      /\ d + 1 + 1 = d + 2 /\ d + 1 + 2 = d + 3 /\ d + 1 + 3 = d + 4
      /\ d + 2 + 1 = d + 3 /\ d + 2 + 2 = d + 4
  BY <1>1
<1>4. Opens(h[d + 1]) /\ Talk(h[d + 2]) => SameMessage(h[d + 1], h[d + 2])
  <2>1. Opens(h[d + 1]) /\ Talk(h[d + 1 + 1]) => SameMessage(h[d + 1], h[d + 1 + 1])
    BY <1>3 DEF Stream
  <2>2. QED
    BY <1>3, <2>1
<1>5. h[d + 1].cmd = "308" /\ h[d + 2].cmd = "308" /\ h[d + 3].cmd = "2f8" =>
        h[d + 4].cmd # "308" /\ (Talk(h[d + 4]) => SameMessage(h[d + 2], h[d + 4]))
  <2>1. IdleAround(h, d + 1) =>
          /\ h[d + 1 + 3].cmd # "308"
          /\ Talk(h[d + 1 + 3]) => SameMessage(h[d + 1 + 1], h[d + 1 + 3])
    BY <1>3 DEF Stream
  <2>2. QED
    BY <1>3, <2>1 DEF IdleAround
<1>6. h[d + 2].cmd = "320" /\ Idle(h[d + 3]) => ~Talk(h[d + 4])
  <2>1. h[d + 2].cmd = "320" /\ Idle(h[d + 2 + 1]) => ~Talk(h[d + 2 + 2])
    BY <1>3 DEF Stream
  <2>2. QED
    BY <1>3, <2>1
<1>7. CASE q[1] = h[d + 1]
  BY <1>1, <1>4, <1>5, <1>6, <1>7 DEF IdleAround
<1>8. CASE Kept(q)
  BY <1>1, <1>6, <1>8 DEF IdleAround, Kept
<1>9. QED
  BY <1>2, <1>7, <1>8

\* Words that are taken and not put back assign no channel, or are told.
LEMMA TakeReported ==
  ASSUME NEW q \in Seq(Word), NEW n \in 1..Len(q), NEW back \in Back(n), Take(q, n, back),
         \A i \in 1..n : Talk(q[i]) =>
           \/ \E k \in 1..Len(back) : back[k] = i
           \/ \E m \in told' : Last(m.words) = q[i]
  PROVE  Reported(q)
<1>1. /\ Len(q) \in Nat /\ n \in Nat /\ n <= Len(q) /\ Len(back) \in Nat
      /\ Len(osw_q') = Len(back) + (Len(q) - n)
      /\ \A i \in 1..Len(back) : osw_q'[i] = q[back[i]]
      /\ \A i \in (Len(back) + 1)..Len(osw_q') : osw_q'[i] = q[n + (i - Len(back))]
  BY TakeShape DEF Back
<1>2. ASSUME NEW i \in 1..Len(q), Talk(q[i]), ~\E m \in told' : Last(m.words) = q[i]
      PROVE  \E j \in 1..Len(osw_q') : osw_q'[j] = q[i]
  <2>1. CASE i \in 1..n
    <3>1. PICK k \in 1..Len(back) : back[k] = i
      BY <1>2, <2>1
    <3>2. k \in 1..Len(osw_q') /\ osw_q'[k] = q[i]
      BY <1>1, <3>1
    <3>3. QED
      BY <3>2
  <2>2. CASE i > n
    <3> DEFINE j == i - n + Len(back)
    <3>1. j \in (Len(back) + 1)..Len(osw_q') /\ j \in 1..Len(osw_q') /\ n + (j - Len(back)) = i
      BY <1>1, <2>2
    <3>2. QED
      BY <1>1, <3>1
  <2>3. QED
    BY <1>1, <2>1, <2>2
<1>3. QED
  BY <1>2 DEF Reported

\* A way through process_osws that tells nothing.
LEMMA SilentUnderstood ==
  ASSUME NEW h \in Seq(Word), NEW q \in Seq(Word), Len(q) = 6, Heard(q, h),
         NEW n \in 1..4, NEW back \in Back(n), Take(q, n, back), Silent, Len(back) < n,
         \A i \in 2..Len(back) : back[i] = n - Len(back) + i,
         back = <<>> \/ Kept(osw_q') \/ back[1] = n - Len(back) + 1,
         \A i \in 1..n : Talk(q[i]) => \E k \in 1..Len(back) : back[k] = i
  PROVE  Understood(q, h)
<1>1. n \in 1..Len(q)
  OBVIOUS
<1>2. Heard(osw_q', h)
  BY <1>1, TakeHeard
<1>3. Reported(q)
  BY <1>1, TakeReported
<1>4. Spare(osw_q')
  <2>1. Len(osw_q') = Len(back) + (Len(q) - n)
    BY <1>1, TakeShape
  <2>2. Len(back) \in Nat
    BY DEF Back
  <2>3. Len(osw_q') # 6
    BY <2>1, <2>2
  <2>4. QED
    BY <2>3 DEF Spare
<1>5. Matched'
  BY DEF Matched, Silent
<1>6. QED
  BY <1>2, <1>3, <1>4, <1>5 DEF Understood

\* A way that tells of the first n words.
LEMMA TellUnderstood ==
  ASSUME NEW h \in Seq(Word), NEW q \in Seq(Word), Len(q) = 6, Heard(q, h),
         NEW n \in 1..2, Take(q, n, <<>>), NEW type, NEW words, NEW s, Tell(type, words, s),
         SameMessage(Head(words), Last(words)),
         \A i \in 1..n : Talk(q[i]) => Last(words) = q[i]
  PROVE  Understood(q, h)
<1> DEFINE m == [type |-> type, words |-> words, sys_num |-> FirstSystem, sys |-> s]
           back == <<>>
<1>1. n \in 1..Len(q) /\ back \in Back(n) /\ Len(back) = 0 /\ n \in Nat /\ Take(q, n, back)
  BY BackPositions
<1>2. told' = {m} /\ m.words = words
  BY DEF Tell
<1>3. back = <<>> \/ Kept(osw_q') \/ back[1] = n - Len(back) + 1
  OBVIOUS
<1> HIDE DEF m, back
<1>4. Len(back) < n /\ \A i \in 2..Len(back) : back[i] = n - Len(back) + i
  BY <1>1
<1>5. Heard(osw_q', h)
  BY <1>1, <1>3, <1>4, TakeHeard
<1>6. Reported(q)
  BY <1>1, <1>2, TakeReported
<1>7. Spare(osw_q')
  <2>1. Len(osw_q') = Len(back) + (Len(q) - n)
    BY <1>1, TakeShape
  <2>2. Len(osw_q') # 6
    BY <1>1, <2>1
  <2>3. QED
    BY <2>2 DEF Spare
<1>8. Matched'
  BY <1>2 DEF Matched
<1>9. QED
  BY <1>5, <1>6, <1>7, <1>8 DEF Understood

\* What process_osws makes of a queue in which no word is missing.
LEMMA ProcessUnderstood ==
  ASSUME NEW h \in Seq(Word), Stream(h),
         NEW q \in Seq(Word), Len(q) <= 6, Heard(q, h), NEW s \in Systems, Process(q, s)
  PROVE  Understood(q, h)
<1>1. CASE Len(q) < OSW_QUEUE_SIZE /\ osw_q' = q /\ Silent
  <2>1. Reported(q)
    BY <1>1 DEF Reported
  <2>2. Spare(osw_q')
    BY <1>1 DEF Spare, OSW_QUEUE_SIZE
  <2>3. Matched'
    BY <1>1 DEF Matched, Silent
  <2>4. QED
    BY <1>1, <2>1, <2>2, <2>3 DEF Understood
<1>2. CASE /\ Len(q) >= OSW_QUEUE_SIZE
           /\ \/ Obt(q, s) \/ Update(q, s) \/ Single(q)
              \/ First308(q, s) \/ First321(q, s) \/ Unknown(q)
  <2>1. Len(q) = 6
    <3>1. Len(q) \in Nat /\ Len(q) >= 6
      BY <1>2 DEF OSW_QUEUE_SIZE
    <3>2. \A k \in Nat : k <= 6 /\ k >= 6 => k = 6
      OBVIOUS
    <3>3. QED
      BY <3>1, <3>2, Zenon
  <2>2. /\ Opens(q[1]) /\ Talk(q[2]) => SameMessage(q[1], q[2])
        /\ IdleAround(q, 1) =>
             q[4].cmd # "308" /\ (Talk(q[4]) => SameMessage(q[2], q[4]))
        /\ q[2].cmd = "320" /\ Idle(q[3]) => ~Talk(q[4])
    BY <2>1, HeardFirst
  <2>3. ASSUME NEW n \in 1..4, Take(q, n, <<>>), Silent, \A i \in 1..n : ~Talk(q[i])
        PROVE  Understood(q, h)
    <3>1. <<>> \in Back(n) /\ Len(<<>>) = 0 /\ 0 < n
      BY BackPositions
    <3>2. QED
      BY <2>1, <2>3, <3>1, SilentUnderstood
  <2>4. ASSUME NEW n \in 2..4, Take(q, n, <<n>>), Silent, \A i \in 1..(n - 1) : ~Talk(q[i])
        PROVE  Understood(q, h)
    <3>1. /\ n \in 1..4 /\ <<n>> \in Back(n) /\ Len(<<n>>) = 1 /\ 1 < n
          /\ <<n>>[1] = n - Len(<<n>>) + 1
          /\ \A i \in 1..n : i = n \/ i \in 1..(n - 1)
      BY BackPositions
    <3>2. \A i \in 1..n : Talk(q[i]) => \E k \in 1..Len(<<n>>) : <<n>>[k] = i
      BY <2>4, <3>1
    <3>3. \A i \in 2..Len(<<n>>) : <<n>>[i] = n - Len(<<n>>) + i
      BY <3>1
    <3>4. QED
      BY <2>1, <2>4, <3>1, <3>2, <3>3, SilentUnderstood
  <2>5. ASSUME Grant(q, s), Opens(q[1]), Talk(q[2]) PROVE Understood(q, h)
    <3> DEFINE words == <<q[1], q[2]>>
    <3>1. Take(q, 2, <<>>) /\ Tell("GRANT", words, s) /\ 2 \in 1..2
      BY <2>5 DEF Grant
    <3>2. Head(words) = q[1] /\ Last(words) = q[2]
      BY DEF Last
    <3> HIDE DEF words
    <3>3. SameMessage(Head(words), Last(words))
      BY <2>2, <2>5, <3>2
    <3>4. ~Talk(q[1])
      BY <2>5 DEF Opens, Talk
    <3>5. \A i \in 1..2 : Talk(q[i]) => Last(words) = q[i]
      BY <3>2, <3>4
    <3>6. QED
      BY <2>1, <3>1, <3>3, <3>5, TellUnderstood
  <2>6. CASE Obt(q, s)
    <3>1. ~Talk(q[1]) /\ Opens(q[1])
      BY <2>6 DEF Obt, Talk, Opens
    <3>2. CASE ObtSystem(q) /\ Adjacent(q[3]) /\ Consume(q, 3)
      <4>1. ~Talk(q[2]) /\ ~Talk(q[3])
        BY <3>2 DEF ObtSystem, Adjacent, Talk
      <4>2. \A i \in 1..3 : ~Talk(q[i])
        BY <3>1, <4>1
      <4>3. QED
        BY <2>3, <3>2, <4>2 DEF Consume
    <3>3. CASE ObtSystem(q) /\ ~Adjacent(q[3]) /\ Take(q, 3, <<3>>) /\ Silent
      <4>1. ~Talk(q[2])
        BY <3>3 DEF ObtSystem, Talk
      <4>2. \A i \in 1..(3 - 1) : ~Talk(q[i])
        BY <3>1, <4>1
      <4>3. QED
        BY <2>4, <3>3, <4>2
    <3>4. CASE (q[2].cmd = "2f8" \/ ObtPrivate(q)) /\ Consume(q, 2)
      <4>1. ~Talk(q[2])
        BY <3>4 DEF ObtPrivate, Talk
      <4>2. \A i \in 1..2 : ~Talk(q[i])
        BY <3>1, <4>1
      <4>3. QED
        BY <2>3, <3>4, <4>2 DEF Consume
    <3>5. CASE ObtGrant(q) /\ Grant(q, s)
      BY <2>5, <3>1, <3>5 DEF ObtGrant, Talk
    <3>6. CASE Take(q, 2, <<2>>) /\ Silent
      <4>1. \A i \in 1..(2 - 1) : ~Talk(q[i])
        BY <3>1
      <4>2. QED
        BY <2>4, <3>6, <4>1
    <3>7. QED
      BY <2>6, <3>2, <3>3, <3>4, <3>5, <3>6 DEF Obt
  <2>7. CASE Update(q, s)
    <3> DEFINE words == <<q[1]>>
    <3>1. Take(q, 1, <<>>) /\ Tell("UPDATE", words, s) /\ 1 \in 1..2
      BY <2>7 DEF Update
    <3>2. Head(words) = q[1] /\ Last(words) = q[1]
      BY DEF Last
    <3> HIDE DEF words
    <3>3. SameMessage(Head(words), Last(words))
      BY <3>2 DEF SameMessage
    <3>4. \A i \in 1..1 : Talk(q[i]) => Last(words) = q[i]
      BY <3>2
    <3>5. QED
      BY <2>1, <3>1, <3>3, <3>4, TellUnderstood
  <2>8. CASE Single(q)
    <3>1. \A i \in 1..1 : ~Talk(q[i])
      BY <2>8 DEF Single, OneWord, Idle, Talk
    <3>2. QED
      BY <2>3, <2>8, <3>1 DEF Single, Consume
  <2>9. ASSUME NEW cmds \in SUBSET (Commands \ {"rx", "308"}), IdleSecond(q, cmds),
               q[1].cmd \in {"308", "321"}
        PROVE  Understood(q, h)
    <3>1. ~Talk(q[1]) /\ ~Talk(q[2])
      BY <2>9 DEF IdleSecond, Talk
    <3>2. CASE Take(q, 3, <<3>>) /\ Silent
      <4>1. \A i \in 1..(3 - 1) : ~Talk(q[i])
        BY <3>1
      <4>2. QED
        BY <2>4, <3>2, <4>1
    <3>3. CASE q[3].cmd \in cmds /\ Take(q, 3, <<1, 3>>) /\ Silent
      <4> DEFINE back == <<1, 3>>
      <4>1. back \in Back(3) /\ Len(back) = 2 /\ back[1] = 1 /\ back[2] = 3 /\ 3 \in 1..Len(q)
        BY <2>1, BackPositions
      <4>2. Take(q, 3, back)
        BY <3>3
      <4> HIDE DEF back
      <4>3. Len(osw_q') = 5 /\ osw_q'[1] = q[1] /\ osw_q'[2] = q[3]
        <5>1. /\ Len(osw_q') = Len(back) + (Len(q) - 3)
              /\ \A i \in 1..Len(back) : osw_q'[i] = q[back[i]]
          BY <4>1, <4>2, TakeShape
        <5>2. QED
          BY <2>1, <4>1, <5>1
      <4>4. q[3].cmd # "rx" /\ q[3].cmd # "308"
        BY <2>9, <3>3
      <4>5. Kept(osw_q')
        BY <2>9, <4>3, <4>4 DEF Kept, Talk
      <4>6. \A i \in 2..Len(back) : back[i] = 3 - Len(back) + i
        BY <4>1
      <4>7. \A i \in 1..3 : Talk(q[i]) => \E k \in 1..Len(back) : back[k] = i
        BY <3>1, <4>1
      <4>8. 3 \in 1..4 /\ Len(back) < 3 /\ Silent
        BY <3>3, <4>1
      <4>9. QED
        BY <2>1, <4>1, <4>2, <4>5, <4>6, <4>7, <4>8, SilentUnderstood
    <3>4. QED
      BY <2>9, <3>2, <3>3 DEF IdleSecond
  <2>10. CASE First308(q, s)
    <3>1. q[1].cmd = "308" /\ ~Talk(q[1]) /\ Opens(q[1])
      BY <2>10 DEF First308, Talk, Opens
    <3>2. CASE AnalogGrant(q) /\ Grant(q, s)
      BY <2>5, <3>1, <3>2 DEF AnalogGrant, Talk
    <3>3. CASE TwoWords308(q) /\ Consume(q, 2)
      <4>1. ~Talk(q[2])
        BY <3>3 DEF TwoWords308, Talk
      <4>2. \A i \in 1..2 : ~Talk(q[i])
        BY <3>1, <4>1
      <4>3. QED
        BY <2>3, <3>3, <4>2 DEF Consume
    <3>4. CASE IdleSecond(q, Interrupted308)
      BY <2>9, <3>1, <3>4 DEF Interrupted308, Commands
    <3>5. CASE Twice308(q)
      <4>1. CASE q[3].cmd = "2f8" /\ Take(q, 3, <<2>>) /\ Silent
        <5> DEFINE back == <<2>>
        <5>1. back \in Back(3) /\ Len(back) = 1 /\ back[1] = 2 /\ 3 \in 1..Len(q)
          BY <2>1, BackPositions
        <5>2. Take(q, 3, back)
          BY <4>1
        <5> HIDE DEF back
        <5>3. Len(osw_q') = 4 /\ osw_q'[1] = q[2] /\ osw_q'[2] = q[4]
          <6>1. /\ Len(osw_q') = Len(back) + (Len(q) - 3)
                /\ \A i \in 1..Len(back) : osw_q'[i] = q[back[i]]
                /\ \A i \in (Len(back) + 1)..Len(osw_q') : osw_q'[i] = q[3 + (i - Len(back))]
            BY <5>1, <5>2, TakeShape
          <6>2. Len(osw_q') = 4 /\ 2 \in (Len(back) + 1)..Len(osw_q') /\ 3 + (2 - Len(back)) = 4
            BY <2>1, <5>1, <6>1
          <6>3. osw_q'[2] = q[4]
            BY <6>1, <6>2, Zenon
          <6>4. 1 \in 1..Len(back)
            BY <5>1
          <6>5. osw_q'[1] = q[2]
            BY <5>1, <6>1, <6>4, Zenon
          <6>6. QED
            BY <6>2, <6>3, <6>5
        <5>4. IdleAround(q, 1)
          BY <3>1, <3>5, <4>1 DEF IdleAround, Twice308
        <5>5. Kept(osw_q')
          BY <2>2, <3>5, <5>3, <5>4 DEF Kept, Twice308
        <5>6. \A i \in 2..Len(back) : back[i] = 3 - Len(back) + i
          BY <5>1
        <5>7. ~Talk(q[3])
          BY <4>1 DEF Talk
        <5>8. \A i \in 1..3 : Talk(q[i]) => \E k \in 1..Len(back) : back[k] = i
          BY <3>1, <5>1, <5>7
        <5>9. 3 \in 1..4 /\ Len(back) < 3 /\ Silent
          BY <4>1, <5>1
        <5>10. QED
          BY <2>1, <5>1, <5>2, <5>5, <5>6, <5>8, <5>9, SilentUnderstood
      <4>2. CASE Take(q, 3, <<2, 3>>) /\ Silent
        <5> DEFINE back == <<2, 3>>
        <5>1. back \in Back(3) /\ Len(back) = 2 /\ back[1] = 2 /\ back[2] = 3
          BY BackPositions
        <5>2. Take(q, 3, back)
          BY <4>2
        <5> HIDE DEF back
        <5>3. \A i \in 2..Len(back) : back[i] = 3 - Len(back) + i
          BY <5>1
        <5>4. \A i \in 1..3 : Talk(q[i]) => \E k \in 1..Len(back) : back[k] = i
          BY <3>1, <5>1
        <5>5. 3 \in 1..4 /\ Len(back) < 3 /\ Silent /\ back[1] = 3 - Len(back) + 1
          BY <4>2, <5>1
        <5>6. QED
          BY <2>1, <5>1, <5>2, <5>3, <5>4, <5>5, SilentUnderstood
      <4>3. QED
        BY <3>5, <4>1, <4>2 DEF Twice308
    <3>6. CASE Extended(q)
      <4>1. ~Talk(q[2])
        BY <3>6 DEF Extended, Talk
      <4>2. ASSUME NEW n \in {3, 4}, n = 4 => Idle(q[3]), Silent,
                   \/ SysInfo(q[2], q[n]) /\ Take(q, n, <<>>)
                   \/ Take(q, n, <<n>>)
            PROVE  Understood(q, h)
        <5>1. \A i \in 1..(n - 1) : ~Talk(q[i])
          <6>1. CASE n = 3
            BY <3>1, <4>1, <6>1
          <6>2. CASE n = 4
            <7>1. ~Talk(q[3])
              BY <4>2, <6>2 DEF Idle, Talk
            <7>2. QED
              BY <3>1, <4>1, <6>2, <7>1
          <6>3. QED
            BY <6>1, <6>2
        <5>2. CASE SysInfo(q[2], q[n]) /\ Take(q, n, <<>>)
          <6>1. ~Talk(q[n])
            BY <5>2 DEF SysInfo, Talk
          <6>2. n \in 1..4 /\ \A i \in 1..n : i = n \/ i \in 1..(n - 1)
            OBVIOUS
          <6>3. \A i \in 1..n : ~Talk(q[i])
            BY <5>1, <6>1, <6>2
          <6>4. QED
            BY <2>3, <4>2, <5>2, <6>2, <6>3
        <5>3. CASE Take(q, n, <<n>>)
          <6>1. n \in 2..4
            OBVIOUS
          <6>2. QED
            BY <2>4, <4>2, <5>1, <5>3, <6>1
        <5>4. QED
          BY <4>2, <5>2, <5>3
      <4>3. CASE Idle(q[3])
        BY <3>6, <4>2, <4>3 DEF Extended
      <4>4. CASE ~Idle(q[3])
        BY <3>6, <4>2, <4>4 DEF Extended
      <4>5. QED
        BY <4>3, <4>4
    <3>7. CASE SystemInformation(q)
      <4>1. ~Talk(q[2])
        BY <3>7 DEF SystemInformation, Talk
      <4>2. CASE Idle(q[3]) /\ Take(q, 4, <<>>) /\ Silent
        <5>1. ~Talk(q[3]) /\ ~Talk(q[4])
          BY <2>2, <3>7, <4>2 DEF SystemInformation, Idle, Talk
        <5>2. \A i \in 1..4 : ~Talk(q[i])
          BY <3>1, <4>1, <5>1
        <5>3. QED
          BY <2>3, <4>2, <5>2
      <4>3. CASE Adjacent(q[3]) /\ Take(q, 3, <<>>) /\ Silent
        <5>1. ~Talk(q[3])
          BY <4>3 DEF Adjacent, Talk
        <5>2. \A i \in 1..3 : ~Talk(q[i])
          BY <3>1, <4>1, <5>1
        <5>3. QED
          BY <2>3, <4>3, <5>2
      <4>4. CASE Take(q, 3, <<3>>) /\ Silent
        <5>1. \A i \in 1..(3 - 1) : ~Talk(q[i])
          BY <3>1, <4>1
        <5>2. QED
          BY <2>4, <4>4, <5>1
      <4>5. QED
        BY <3>7, <4>2, <4>3, <4>4 DEF SystemInformation
    <3>8. CASE Take(q, 2, <<2>>) /\ Silent
      <4>1. \A i \in 1..(2 - 1) : ~Talk(q[i])
        BY <3>1
      <4>2. QED
        BY <2>4, <3>8, <4>1
    <3>9. QED
      BY <2>10, <3>2, <3>3, <3>4, <3>5, <3>6, <3>7, <3>8 DEF First308
  <2>11. CASE First321(q, s)
    <3>1. q[1].cmd = "321" /\ ~Talk(q[1]) /\ Opens(q[1])
      BY <2>11 DEF First321, Talk, Opens
    <3>2. CASE DigitalGrant(q) /\ Grant(q, s)
      BY <2>5, <3>1, <3>2 DEF DigitalGrant, Talk
    <3>3. CASE TwoWords321(q) /\ Consume(q, 2)
      <4>1. ~Talk(q[2])
        BY <3>3 DEF TwoWords321, Talk
      <4>2. \A i \in 1..2 : ~Talk(q[i])
        BY <3>1, <4>1
      <4>3. QED
        BY <2>3, <3>3, <4>2 DEF Consume
    <3>4. CASE IdleSecond(q, {"317", "318"})
      BY <2>9, <3>1, <3>4 DEF Commands
    <3>5. CASE Take(q, 2, <<2>>) /\ Silent
      <4>1. \A i \in 1..(2 - 1) : ~Talk(q[i])
        BY <3>1
      <4>2. QED
        BY <2>4, <3>5, <4>1
    <3>6. QED
      BY <2>11, <3>2, <3>3, <3>4, <3>5 DEF First321
  <2>12. CASE Unknown(q)
    <3>1. Take(q, 1, <<1>>) /\ Silent /\ ~Talk(q[1])
      BY <2>12 DEF Unknown, Talk
    <3>2. osw_q' = q
      <4>1. <<1>> \in Back(1) /\ 1 \in 1..Len(q) /\ Len(<<1>>) = 1 /\ <<1>>[1] = 1
        BY <2>1, BackPositions
      <4>2. /\ osw_q' \in Seq(Word) /\ Len(osw_q') = Len(<<1>>) + (Len(q) - 1)
            /\ \A i \in 1..Len(<<1>>) : osw_q'[i] = q[<<1>>[i]]
            /\ \A i \in (Len(<<1>>) + 1)..Len(osw_q') :
                 osw_q'[i] = q[1 + (i - Len(<<1>>))]
        BY <3>1, <4>1, TakeShape
      <4>3. Len(osw_q') = 6 /\ osw_q'[1] = q[1] /\ \A i \in 2..6 : osw_q'[i] = q[i]
        BY <2>1, <4>1, <4>2
      <4>4. \A i \in 1..Len(q) : osw_q'[i] = q[i]
        BY <2>1, <4>3
      <4>5. QED
        BY <2>1, <4>2, <4>3, <4>4, SeqEqual
    <3>3. Reported(q)
      BY <3>2 DEF Reported
    <3>4. Spare(osw_q')
      BY <3>1, <3>2 DEF Spare
    <3>5. Matched'
      BY <3>1 DEF Matched, Silent
    <3>6. QED
      BY <3>2, <3>3, <3>4, <3>5 DEF Understood
  <2>13. QED
    BY <1>2, <2>6, <2>7, <2>8, <2>10, <2>11, <2>12
<1>3. QED
  BY <1>1, <1>2 DEF Process

\* A queue with one more word.
LEMMA Appended ==
  ASSUME NEW t \in Seq(Word), NEW w \in Word
  PROVE  /\ Len(Append(t, w)) = Len(t) + 1 /\ Append(t, w)[Len(t) + 1] = w
         /\ \A i \in 1..Len(t) : Append(t, w)[i] = t[i]
  BY AppendProperties

\* enqueue: a word that the queue loses is its first, and it has seen its time.
LEMMA EnqueueHeard ==
  ASSUME NEW h \in Seq(Word), osw_q \in Seq(Word), Len(osw_q) <= 6, Heard(osw_q, h),
         NEW w \in Word
  PROVE  /\ Heard(Enqueued(w), Append(h, w))
         /\ \A i \in 1..Len(osw_q) :
              (Len(osw_q) = 6 /\ i = 1) \/ \E j \in 1..Len(Enqueued(w)) : Enqueued(w)[j] = osw_q[i]
<1> DEFINE g == Append(h, w)
           p == osw_q
           e == Enqueued(w)
<1>1. /\ g \in Seq(Word) /\ Len(h) \in Nat /\ Len(g) = Len(h) + 1 /\ g[Len(h) + 1] = w
      /\ \A i \in 1..Len(h) : g[i] = h[i]
  OBVIOUS
<1>2. /\ p \in Seq(Word) /\ Len(p) \in Nat /\ Len(p) <= 6 /\ Len(p) <= Len(h)
      /\ \A i \in 2..Len(p) : p[i] = h[Len(h) - Len(p) + i]
      /\ p = <<>> \/ Kept(p) \/ p[1] = h[Len(h) - Len(p) + 1]
  BY DEF Heard
<1>3. e = Append(IF Len(p) >= 6 THEN Tail(p) ELSE p, w)
  BY DEF Enqueued, OSW_QUEUE_SIZE
<1> HIDE DEF g, e
<1>4. CASE Len(p) >= 6
  <2>1. /\ Len(p) = 6 /\ p # <<>> /\ Tail(p) \in Seq(Word) /\ Len(Tail(p)) = 5
        /\ \A i \in 1..5 : Tail(p)[i] = p[i + 1]
    <3>1. Len(p) = 6
      <4>1. \A k \in Nat : k <= 6 /\ k >= 6 => k = 6
        OBVIOUS
      <4>2. QED
        BY <1>2, <1>4, <4>1, Zenon
    <3>2. p # <<>>
      <4>1. Len(p) # 0
        BY <3>1
      <4>2. QED
        BY <4>1, EmptySeq
    <3>3. /\ Tail(p) \in Seq(Word) /\ Len(Tail(p)) = Len(p) - 1
          /\ \A i \in 1..Len(Tail(p)) : Tail(p)[i] = p[i + 1]
      BY <1>2, <3>2, HeadTailProperties
    <3>4. Len(Tail(p)) = 5
      BY <3>1, <3>3
    <3>5. QED
      BY <3>1, <3>2, <3>3, <3>4, Zenon
  <2>2. e = Append(Tail(p), w)
    BY <1>3, <1>4
  <2>3. /\ Len(e) = 6 /\ e[6] = w
        /\ \A i \in 1..5 : e[i] = p[i + 1]
    <3> DEFINE t == Tail(p)
    <3>1. t \in Seq(Word) /\ Len(t) = 5
      BY <2>1
    <3>2. e = Append(t, w)
      BY <2>2
    <3>3. \A i \in 1..5 : t[i] = p[i + 1]
      BY <2>1
    <3> HIDE DEF t
    <3>4. /\ Len(Append(t, w)) = Len(t) + 1 /\ Append(t, w)[Len(t) + 1] = w
          /\ \A i \in 1..Len(t) : Append(t, w)[i] = t[i]
      BY <3>1, Appended
    <3>5. Len(t) + 1 = 6
      BY <3>1
    <3>6. Len(e) = 6 /\ e[6] = w /\ \A i \in 1..5 : e[i] = t[i]
      BY <3>1, <3>2, <3>4, <3>5, Zenon
    <3>7. QED
      BY <3>3, <3>6
  <2>4. \A i \in 1..6 : e[i] = g[Len(g) - 6 + i]
    <3>1. ASSUME NEW i \in 1..5 PROVE e[i] = g[Len(g) - 6 + i]
      <4>1. i + 1 \in 2..6 /\ Len(h) - 6 + (i + 1) \in 1..Len(h)
        BY <1>2, <2>1
      <4>2. p[i + 1] = h[Len(h) - 6 + (i + 1)]
        BY <1>2, <2>1, <4>1
      <4>3. Len(h) - 6 + (i + 1) = Len(g) - 6 + i
        BY <1>1
      <4>4. QED
        BY <1>1, <2>3, <4>1, <4>2, <4>3
    <3>2. e[6] = g[Len(g) - 6 + 6]
      BY <1>1, <2>3
    <3>3. QED
      BY <3>1, <3>2
  <2>5. Heard(e, g)
    BY <1>1, <1>2, <2>1, <2>3, <2>4 DEF Heard
  <2>6. ASSUME NEW i \in 1..Len(p), i # 1 PROVE \E j \in 1..Len(e) : e[j] = p[i]
    <3>1. i - 1 \in 1..5 /\ i - 1 + 1 = i /\ i - 1 \in 1..Len(e)
      BY <2>1, <2>3, <2>6
    <3>2. e[i - 1] = p[i]
      BY <2>3, <3>1
    <3>3. QED
      BY <3>1, <3>2
  <2>7. QED
    BY <2>1, <2>5, <2>6 DEF e, g
<1>5. CASE ~(Len(p) >= 6)
  <2>1. e = Append(p, w)
    BY <1>3, <1>5
  <2>2. /\ Len(e) = Len(p) + 1 /\ e[Len(p) + 1] = w
        /\ \A i \in 1..Len(p) : e[i] = p[i]
    BY <1>2, <2>1
  <2>3. ASSUME NEW i \in 1..Len(p), p[i] = h[Len(h) - Len(p) + i]
        PROVE  e[i] = g[Len(g) - Len(e) + i]
    <3>1. /\ Len(h) - Len(p) + i \in 1..Len(h)
          /\ Len(g) - Len(e) + i = Len(h) - Len(p) + i
      BY <1>1, <1>2, <2>2
    <3>2. QED
      BY <1>1, <2>2, <2>3, <3>1
  <2>4. e[Len(e)] = g[Len(g) - Len(e) + Len(e)]
    BY <1>1, <1>2, <2>2
  <2>5. \A i \in 2..Len(e) : e[i] = g[Len(g) - Len(e) + i]
    <3> SUFFICES ASSUME NEW i \in 2..Len(e) PROVE e[i] = g[Len(g) - Len(e) + i]
      OBVIOUS
    <3>1. CASE i = Len(e)
      BY <2>4, <3>1
    <3>2. CASE i # Len(e)
      <4>1. i \in 2..Len(p) /\ i \in 1..Len(p)
        BY <1>2, <2>2, <3>2
      <4>2. QED
        BY <1>2, <2>3, <4>1
    <3>3. QED
      BY <3>1, <3>2
  <2>6. Kept(e) \/ e[1] = g[Len(g) - Len(e) + 1]
    <3>1. CASE p = <<>>
      <4>1. Len(e) = 1
        BY <2>2, <3>1
      <4>2. QED
        BY <2>4, <4>1
    <3>2. CASE Kept(p)
      <4>1. e[1] = p[1] /\ e[2] = p[2] /\ Len(e) >= 2
        BY <1>2, <2>2, <3>2 DEF Kept
      <4>2. QED
        BY <3>2, <4>1 DEF Kept
    <3>3. CASE p # <<>> /\ p[1] = h[Len(h) - Len(p) + 1]
      <4>1. 1 \in 1..Len(p)
        BY <1>2, <3>3
      <4>2. QED
        BY <2>3, <3>3, <4>1
    <3>4. QED
      BY <1>2, <3>1, <3>2, <3>3
  <2>7. Len(e) <= Len(g)
    BY <1>1, <1>2, <2>2
  <2>8. Heard(e, g)
    BY <2>5, <2>6, <2>7 DEF Heard
  <2>9. \A i \in 1..Len(p) : \E j \in 1..Len(e) : e[j] = p[i]
    BY <1>2, <2>2
  <2>10. QED
    BY <2>8, <2>9 DEF e, g
<1>6. QED
  BY <1>4, <1>5

\* The protocol holds of the stream with one more word of a lawful burst.
LEMMA StreamGrows ==
  ASSUME NEW g \in Seq(Word), NEW b \in Seq(Template), b # <<>>, Lawful(b),
         NEW m \in Nat, m < Len(g), Len(g) <= m + Len(b), Closed(g, m), NEW s \in Systems,
         \A j \in 1..(Len(g) - m) : Stamped(g[m + j], b[j], s),
         \A i \in 1..(Len(g) - 2) :
           Opens(g[i]) /\ Talk(g[i + 1]) => SameMessage(g[i], g[i + 1]),
         \A i \in 1..(Len(g) - 4) : IdleAround(g, i) =>
           g[i + 3].cmd # "308" /\ (Talk(g[i + 3]) => SameMessage(g[i + 1], g[i + 3])),
         \A i \in 1..(Len(g) - 3) : g[i].cmd = "320" /\ Idle(g[i + 1]) => ~Talk(g[i + 2])
  PROVE  Stream(g)
<1> DEFINE n == Len(b)
           l == Len(g)
<1>1. n \in Nat /\ l \in Nat /\ m \in Nat /\ m < l /\ l <= m + n
  OBVIOUS
\* A word sent in this burst.
<1>2. ASSUME NEW i \in (m + 1)..l
      PROVE  i - m \in 1..n /\ Stamped(g[i], b[i - m], s)
  <2>1. i - m \in 1..(l - m) /\ m + (i - m) = i
    BY <1>1
  <2>2. i - m \in 1..n
    BY <1>1, <2>1
  <2>3. QED
    BY <2>1, <2>2
<1> HIDE DEF n, l
<1>3. ASSUME NEW i \in 1..(l - 1), Opens(g[i]), Talk(g[i + 1])
      PROVE  SameMessage(g[i], g[i + 1])
  <2>1. CASE i \in 1..(l - 2)
    BY <1>3, <2>1 DEF l
  <2>2. CASE i = l - 1 /\ i = m
    BY <1>1, <1>3, <2>2 DEF Closed
  <2>3. CASE i = l - 1 /\ i # m
    <3>1. i \in (m + 1)..l /\ i + 1 \in (m + 1)..l
      BY <1>1, <2>3
    <3> DEFINE a == i - m
    <3>2. /\ a \in 1..(n - 1) /\ i + 1 - m = a + 1
          /\ Stamped(g[i], b[a], s) /\ Stamped(g[i + 1], b[a + 1], s)
      <4>1. /\ i - m \in 1..n /\ Stamped(g[i], b[i - m], s)
            /\ i + 1 - m \in 1..n /\ Stamped(g[i + 1], b[i + 1 - m], s)
        BY <1>2, <3>1
      <4>2. i + 1 - m = a + 1 /\ a \in 1..(n - 1)
        BY <1>1, <4>1
      <4>3. QED
        BY <4>1, <4>2
    <3> HIDE DEF a
    <3>3. Opens(b[a]) /\ Talk(b[a + 1])
      BY <1>3, <3>2 DEF Stamped, Opens, Talk, Given
    <3>4. b[a + 1].part = b[a].part
      BY <3>2, <3>3 DEF Lawful, n
    <3>5. QED
      BY <3>2, <3>4 DEF Stamped, SameMessage
  <2>4. QED
    BY <1>1, <2>1, <2>2, <2>3
<1>4. ASSUME NEW i \in 1..(l - 3), IdleAround(g, i)
      PROVE  g[i + 3].cmd # "308" /\ (Talk(g[i + 3]) => SameMessage(g[i + 1], g[i + 3]))
  <2>1. CASE i \in 1..(l - 4)
    BY <1>4, <2>1 DEF l
  <2>2. CASE i = l - 3 /\ i <= m
    <3>1. i = m \/ i + 1 = m \/ (i + 2 = m /\ m >= 3 /\ i = m - 2)
      BY <1>1, <2>2
    <3>2. m >= 1 /\ g[i].cmd = "308" /\ g[i + 1].cmd = "308"
      BY <1>1, <2>2, <1>4 DEF IdleAround
    <3>3. QED
      BY <1>4, <3>1, <3>2 DEF Closed, Opens
  <2>3. CASE i = l - 3 /\ i > m
    <3>1. /\ i \in (m + 1)..l /\ i + 1 \in (m + 1)..l /\ i + 2 \in (m + 1)..l
          /\ i + 3 \in (m + 1)..l
      BY <1>1, <2>3
    <3> DEFINE a == i - m
    <3>2. /\ a \in 1..(n - 3) /\ a \in 1..(n - 2)
          /\ Stamped(g[i], b[a], s) /\ Stamped(g[i + 1], b[a + 1], s)
          /\ Stamped(g[i + 2], b[a + 2], s) /\ Stamped(g[i + 3], b[a + 3], s)
      <4>1. /\ i - m \in 1..n /\ Stamped(g[i], b[i - m], s)
            /\ i + 1 - m \in 1..n /\ Stamped(g[i + 1], b[i + 1 - m], s)
            /\ i + 2 - m \in 1..n /\ Stamped(g[i + 2], b[i + 2 - m], s)
            /\ i + 3 - m \in 1..n /\ Stamped(g[i + 3], b[i + 3 - m], s)
        BY <1>2, <3>1
      <4>2. /\ i + 1 - m = a + 1 /\ i + 2 - m = a + 2 /\ i + 3 - m = a + 3
            /\ a \in 1..(n - 3) /\ a \in 1..(n - 2)
        BY <1>1, <4>1
      <4>3. QED
        BY <4>1, <4>2
    <3> HIDE DEF a
    <3>3. IdleAround(b, a)
      BY <1>4, <3>2 DEF Stamped, IdleAround
    <3>4. /\ b[a + 3].cmd # "308"
          /\ Talk(b[a + 3]) => b[a + 3].part = b[a + 1].part
      BY <3>2, <3>3 DEF Lawful, n
    <3>5. Talk(g[i + 3]) => Talk(b[a + 3])
      BY <3>2 DEF Stamped, Talk, Given
    <3>6. QED
      BY <3>2, <3>4, <3>5 DEF Stamped, SameMessage
  <2>4. QED
    BY <1>1, <2>1, <2>2, <2>3
<1>5. ASSUME NEW i \in 1..(l - 2), g[i].cmd = "320", Idle(g[i + 1]), Talk(g[i + 2])
      PROVE  FALSE
  <2>1. CASE i \in 1..(l - 3)
    BY <1>5, <2>1 DEF l
  <2>2. CASE i = l - 2 /\ i <= m
    <3>1. i = m \/ (i + 1 = m /\ m >= 2 /\ i = m - 1)
      BY <1>1, <2>2
    <3>2. m >= 1
      BY <1>1, <2>2
    <3>3. QED
      BY <1>5, <3>1, <3>2 DEF Closed
  <2>3. CASE i = l - 2 /\ i > m
    <3>1. i \in (m + 1)..l /\ i + 1 \in (m + 1)..l /\ i + 2 \in (m + 1)..l
      BY <1>1, <2>3
    <3> DEFINE a == i - m
    <3>2. /\ a \in 1..(n - 2) /\ a \in 1..(n - 1)
          /\ Stamped(g[i], b[a], s) /\ Stamped(g[i + 1], b[a + 1], s)
          /\ Stamped(g[i + 2], b[a + 2], s)
      <4>1. i - m \in 1..n /\ Stamped(g[i], b[i - m], s)
        BY <1>2, <3>1, SMTT(30)
      <4>2. /\ i + 1 - m \in 1..n /\ Stamped(g[i + 1], b[i + 1 - m], s)
            /\ i + 2 - m \in 1..n /\ Stamped(g[i + 2], b[i + 2 - m], s)
        BY <1>2, <3>1, SMTT(30)
      <4>3. /\ i + 1 - m = a + 1 /\ i + 2 - m = a + 2
            /\ a \in 1..(n - 2) /\ a \in 1..(n - 1)
        BY <1>1, <4>1, <4>2
      <4>4. QED
        BY <4>1, <4>2, <4>3
    <3> HIDE DEF a
    <3>3. b[a].cmd = "320" /\ Idle(b[a + 1]) /\ Talk(b[a + 2])
      BY <1>5, <3>2 DEF Stamped, Idle, Talk, Given
    <3>4. QED
      BY <3>2, <3>3 DEF Lawful, n
  <2>4. QED
    BY <1>1, <2>1, <2>2, <2>3
<1>6. QED
  BY <1>3, <1>4, <1>5 DEF Stream, l

\* A burst that has been sent leaves no message open.
LEMMA BurstCloses ==
  ASSUME NEW h \in Seq(Word), NEW b \in Seq(Template), b = <<>> \/ Lawful(b), NEW s \in Systems,
         OnAir(h, s, b, Len(b))
  PROVE  Closed(h, Len(h))
<1> DEFINE n == Len(b)
           l == Len(h)
           m == l - n
<1>1. n \in Nat /\ l \in Nat /\ m \in Nat /\ l = m + n
  BY DEF OnAir
<1>2. Closed(h, m) /\ \A j \in 1..n : Stamped(h[m + j], b[j], s)
  BY DEF OnAir
<1>3. CASE n = 0
  <2>1. m = l
    BY <1>1, <1>3
  <2>2. QED
    BY <1>2, <2>1
<1>4. CASE n # 0
  <2>1. Lawful(b)
    BY <1>4
  <2> HIDE DEF n, l, m
  <2>2. n \in 1..n /\ m + n = l /\ Stamped(h[l], b[n], s)
    BY <1>1, <1>2, <1>4
  <2>3. ~Opens(h[l]) /\ h[l].cmd # "320"
    BY <2>1, <2>2 DEF Lawful, Stamped, Opens, n
  <2>4. ASSUME l >= 2, h[l - 1].cmd = "320", Idle(h[l]) PROVE FALSE
    <3>1. CASE n = 1
      <4>1. m = l - 1 /\ m >= 1
        BY <1>1, <2>4, <3>1
      <4>2. QED
        BY <1>2, <2>4, <4>1 DEF Closed
    <3>2. CASE n # 1
      <4> DEFINE a == n - 1
      <4>1. a \in 1..(n - 1) /\ a \in 1..n /\ m + a = l - 1 /\ a + 1 = n /\ ~(a + 2 <= n)
        BY <1>1, <1>4, <3>2
      <4> HIDE DEF a
      <4>2. Stamped(h[l - 1], b[a], s)
        BY <1>2, <4>1
      <4>3. b[a].cmd = "320" /\ Idle(b[a + 1])
        BY <2>2, <2>4, <4>1, <4>2 DEF Stamped, Idle
      <4>4. a + 2 <= n
        BY <2>1, <4>1, <4>3 DEF Lawful, n
      <4>5. QED
        BY <4>1, <4>4
    <3>3. QED
      BY <3>1, <3>2
  <2>5. ASSUME l >= 3, IdleAround(h, l - 2) PROVE FALSE
    <3>1. h[l - 2].cmd = "308" /\ h[l - 1].cmd = "308" /\ h[l].cmd = "2f8"
      <4>1. l - 2 + 1 = l - 1 /\ l - 2 + 2 = l
        BY <1>1
      <4>2. QED
        BY <2>5, <4>1 DEF IdleAround
    <3>2. CASE n = 1 \/ n = 2
      <4>1. (m = l - 1 \/ m = l - 2) /\ m >= 1
        BY <1>1, <2>5, <3>2
      <4>2. QED
        BY <1>2, <3>1, <4>1 DEF Closed, Opens
    <3>3. CASE n # 1 /\ n # 2
      <4> DEFINE a == n - 2
      <4>1. /\ a \in 1..(n - 2) /\ a \in 1..n /\ a + 1 \in 1..n /\ a + 2 = n
            /\ m + a = l - 2 /\ m + (a + 1) = l - 1 /\ ~(a + 3 <= n)
        BY <1>1, <1>4, <3>3
      <4> HIDE DEF a
      <4>2. Stamped(h[l - 2], b[a], s) /\ Stamped(h[l - 1], b[a + 1], s)
        BY <1>2, <4>1
      <4>3. IdleAround(b, a)
        BY <2>2, <3>1, <4>1, <4>2 DEF Stamped, IdleAround
      <4>4. a + 3 <= n
        BY <2>1, <4>1, <4>3 DEF Lawful, n
      <4>5. QED
        BY <4>1, <4>4
    <3>4. QED
      BY <3>2, <3>3
  <2>6. QED
    BY <2>3, <2>4, <2>5 DEF Closed, l
<1>5. QED
  BY <1>3, <1>4

\* What is on the air is the rest of a burst of the radio system's.
LEMMA BurstNext ==
  ASSUME NEW b \in Seq(Template), NEW k \in 0..Len(b), NEW a, a = SubSeq(b, k + 1, Len(b))
  PROVE  /\ a = <<>> => k = Len(b)
         /\ a # <<>> => /\ k + 1 \in 1..Len(b) /\ Head(a) = b[k + 1]
                        /\ Tail(a) = SubSeq(b, k + 2, Len(b))
<1>1. Len(b) \in Nat /\ k \in Nat /\ k <= Len(b)
  OBVIOUS
<1>2. CASE k = Len(b)
  <2>1. Len(b) < k + 1 /\ k + 1 \in Int /\ Len(b) \in Int
    BY <1>1, <1>2
  <2>2. SubSeq(b, k + 1, Len(b)) = <<>>
    BY <2>1, SubSeqEmpty
  <2>3. QED
    BY <1>2, <2>2
<1>3. CASE k # Len(b)
  <2>1. k + 1 \in 1..Len(b) /\ Len(b) \in (k + 1)..Len(b)
    BY <1>1, <1>3
  <2>2. Head(a) = b[k + 1] /\ Tail(a) = SubSeq(b, k + 1 + 1, Len(b))
    BY <2>1, HeadTailOfSubSeq
  <2>3. k + 1 + 1 = k + 2
    BY <1>1
  <2>4. a # <<>>
    <3>1. k + 1 \in Int /\ Len(b) \in Int /\ \A i \in (k + 1)..Len(b) : b[i] \in Template
      BY <1>1
    <3>2. Len(a) = IF k + 1 <= Len(b) THEN Len(b) - (k + 1) + 1 ELSE 0
      BY <3>1, SubSeqProperties
    <3>3. Len(a) # 0
      BY <1>1, <2>1, <3>2
    <3>4. QED
      BY <3>3, EmptySeq
  <2>5. QED
    BY <2>1, <2>2, <2>3, <2>4
<1>4. QED
  BY <1>2, <1>3

\* The next word of a lawful burst.
LEMMA SendingHeard ==
  ASSUME TypeOK, LawfulRadios, NEW s \in Systems, air[s] # <<>>,
         NEW h \in Seq(Word), Stream(h), Bursts(h, s), NextWord(s) \in Word
  PROVE  /\ Append(h, NextWord(s)) \in Seq(Word) /\ Stream(Append(h, NextWord(s)))
         /\ \E b \in radio : \E k \in 0..Len(b) :
              /\ Tail(air[s]) = SubSeq(b, k + 1, Len(b))
              /\ k <= Len(Append(h, NextWord(s)))
              /\ \A j \in 1..k :
                   Stamped(Append(h, NextWord(s))[Len(h) + 1 - k + j], b[j], s)
              /\ Closed(Append(h, NextWord(s)), Len(h) + 1 - k)
<1> DEFINE w == NextWord(s)
           g == Append(h, w)
<1>1. PICK b \in radio \cup {<<>>} : \E k \in 0..Len(b) : OnAir(h, s, b, k)
  BY DEF Bursts
<1>2. PICK k \in 0..Len(b) : OnAir(h, s, b, k)
  BY <1>1
<1>3. b \in Seq(Template)
  <2>1. radio \in Radios /\ <<>> \in Seq(Template)
    BY EmptySeq DEF TypeOK
  <2>2. radio \subseteq Seq(Template)
    BY <2>1, SmartnetAssumption
  <2>3. QED
    BY <2>1, <2>2
<1>4. k + 1 \in 1..Len(b) /\ Head(air[s]) = b[k + 1] /\ Tail(air[s]) = SubSeq(b, k + 2, Len(b))
  BY <1>2, <1>3, BurstNext DEF OnAir
<1>5. b # <<>> /\ b \in radio
  <2>1. Len(b) # 0
    BY <1>3, <1>4
  <2>2. QED
    BY <2>1, EmptySeq
<1>6. Lawful(b)
  BY <1>5 DEF TypeOK, LawfulRadios
<1>7. /\ g \in Seq(Word) /\ Len(h) \in Nat /\ Len(g) = Len(h) + 1 /\ g[Len(h) + 1] = w
      /\ \A i \in 1..Len(h) : g[i] = h[i]
  OBVIOUS
<1>8. Stamped(w, b[k + 1], s)
  BY <1>4 DEF Stamped, NextWord
<1> DEFINE m == Len(h) - k
<1>9. /\ m \in Nat /\ k \in Nat /\ Len(g) = m + (k + 1) /\ Len(h) = m + k
      /\ Len(b) \in Nat /\ k + 1 <= Len(b)
      /\ Closed(h, m) /\ \A j \in 1..k : Stamped(h[m + j], b[j], s)
  <2>1. k \in Nat /\ Len(b) \in Nat /\ k + 1 <= Len(b) /\ k <= Len(h)
    BY <1>2, <1>3, <1>4 DEF OnAir
  <2>2. Closed(h, m) /\ \A j \in 1..k : Stamped(h[m + j], b[j], s)
    BY <1>2 DEF OnAir
  <2>3. m \in Nat /\ Len(g) = m + (k + 1) /\ Len(h) = m + k
    BY <1>7, <2>1
  <2>4. QED
    BY <2>1, <2>2, <2>3
<1> HIDE DEF w, g, m
<1>10. \A j \in 1..(k + 1) : Stamped(g[m + j], b[j], s)
  <2>1. ASSUME NEW j \in 1..k PROVE Stamped(g[m + j], b[j], s)
    <3>1. m + j \in 1..Len(h)
      BY <1>9
    <3>2. QED
      BY <1>7, <1>9, <3>1
  <2>2. g[m + (k + 1)] = w
    BY <1>7, <1>9
  <2>3. \A j \in 1..(k + 1) : j \in 1..k \/ j = k + 1
    BY <1>9
  <2>4. QED
    BY <1>8, <2>1, <2>2, <2>3
<1>11. Closed(g, m)
  <2>1. m >= 1 => g[m] = h[m]
    BY <1>7, <1>9
  <2>2. m >= 2 => g[m - 1] = h[m - 1]
    BY <1>7, <1>9
  <2>3. m >= 3 => g[m - 2] = h[m - 2] /\ m - 2 + 1 = m - 1 /\ m - 2 + 2 = m
    BY <1>7, <1>9
  <2>4. m >= 3 => m >= 2 /\ m >= 1
    BY <1>9
  <2>5. m >= 2 => m >= 1
    BY <1>9
  <2>6. m >= 1 => ~Opens(g[m]) /\ g[m].cmd # "320"
    BY <1>9, <2>1 DEF Closed
  <2>7. m >= 2 => ~(g[m - 1].cmd = "320" /\ Idle(g[m]))
    BY <1>9, <2>1, <2>2, <2>5 DEF Closed
  <2>8. m >= 3 => ~IdleAround(g, m - 2)
    BY <1>9, <2>1, <2>2, <2>3, <2>4 DEF Closed, IdleAround
  <2>9. QED
    BY <2>6, <2>7, <2>8 DEF Closed
<1>12. /\ \A i \in 1..(Len(g) - 2) :
            Opens(g[i]) /\ Talk(g[i + 1]) => SameMessage(g[i], g[i + 1])
       /\ \A i \in 1..(Len(g) - 4) : IdleAround(g, i) =>
            g[i + 3].cmd # "308" /\ (Talk(g[i + 3]) => SameMessage(g[i + 1], g[i + 3]))
       /\ \A i \in 1..(Len(g) - 3) : g[i].cmd = "320" /\ Idle(g[i + 1]) => ~Talk(g[i + 2])
  <2>1. ASSUME NEW i \in 1..(Len(g) - 2), Opens(g[i]), Talk(g[i + 1])
        PROVE  SameMessage(g[i], g[i + 1])
    <3>1. i \in 1..(Len(h) - 1) /\ i \in 1..Len(h) /\ i + 1 \in 1..Len(h)
      BY <1>7
    <3>2. g[i] = h[i] /\ g[i + 1] = h[i + 1]
      BY <1>7, <3>1
    <3>3. QED
      BY <2>1, <3>1, <3>2 DEF Stream
  <2>2. ASSUME NEW i \in 1..(Len(g) - 4), IdleAround(g, i)
        PROVE  g[i + 3].cmd # "308" /\ (Talk(g[i + 3]) => SameMessage(g[i + 1], g[i + 3]))
    <3>1. /\ i \in 1..(Len(h) - 3) /\ g[i] = h[i] /\ g[i + 1] = h[i + 1]
          /\ g[i + 2] = h[i + 2] /\ g[i + 3] = h[i + 3]
      <4>1. /\ i \in 1..(Len(h) - 3) /\ i \in 1..Len(h) /\ i + 1 \in 1..Len(h)
            /\ i + 2 \in 1..Len(h) /\ i + 3 \in 1..Len(h)
        BY <1>7
      <4>2. QED
        BY <1>7, <4>1
    <3>2. IdleAround(h, i)
      BY <2>2, <3>1 DEF IdleAround
    <3>3. QED
      BY <3>1, <3>2 DEF Stream
  <2>3. ASSUME NEW i \in 1..(Len(g) - 3), g[i].cmd = "320", Idle(g[i + 1])
        PROVE  ~Talk(g[i + 2])
    <3>1. /\ i \in 1..(Len(h) - 2) /\ g[i] = h[i] /\ g[i + 1] = h[i + 1]
          /\ g[i + 2] = h[i + 2]
      BY <1>7
    <3>2. QED
      BY <2>3, <3>1 DEF Stream
  <2>4. QED
    BY <2>1, <2>2, <2>3
<1>13. Stream(g)
  <2>1. m < Len(g) /\ Len(g) <= m + Len(b) /\ Len(g) - m = k + 1
    BY <1>9
  <2>2. \A j \in 1..(Len(g) - m) : Stamped(g[m + j], b[j], s)
    BY <1>10, <2>1
  <2>3. QED
    BY <1>3, <1>5, <1>6, <1>7, <1>9, <1>11, <1>12, <2>1, <2>2, StreamGrows
<1>14. \E c \in radio : \E i \in 0..Len(c) :
         /\ Tail(air[s]) = SubSeq(c, i + 1, Len(c))
         /\ i <= Len(g)
         /\ \A j \in 1..i : Stamped(g[Len(h) + 1 - i + j], c[j], s)
         /\ Closed(g, Len(h) + 1 - i)
  <2>1. /\ k + 1 \in 0..Len(b) /\ k + 1 + 1 = k + 2 /\ k + 1 <= Len(g)
        /\ Len(h) + 1 - (k + 1) = m
    BY <1>9
  <2>2. \A j \in 1..(k + 1) : Stamped(g[Len(h) + 1 - (k + 1) + j], b[j], s)
    BY <1>10, <2>1
  <2>3. QED
    BY <1>4, <1>5, <1>11, <2>1, <2>2
<1>15. QED
  BY <1>7, <1>13, <1>14 DEF g, w

\* process_osws hears every word of a stream without losses; the words told of
\* are from one message, and a word that assigns a channel is told or stays.
LEMMA ReceiveHeeds ==
  ASSUME IInv, Heeded, OneSystem, LawfulRadios, lost = {}, NEW s \in Systems, Receive(s)
  PROVE  /\ Heeded'
         /\ \A i \in 1..Len(osw_q) : Talk(osw_q[i]) =>
              \/ \E j \in 1..Len(osw_q') : osw_q'[j] = osw_q[i]
              \/ \E m \in told' : Last(m.words) = osw_q[i]
<1> DEFINE w == NextWord(s)
<1>1. TypeOK /\ osw_q \in Seq(Word) /\ Len(osw_q) <= 6 /\ Queue(osw_q, sent) /\ sent \in Nat
  BY DEF IInv, TypeOK, OSW_QUEUE_SIZE
<1>2. /\ air[s] # <<>> /\ air' = [air EXCEPT ![s] = Tail(@)]
      /\ radio' = radio /\ began' = began /\ lost' = lost
  BY DEF Receive, Sending
<1>3. w \in Word /\ w.no = sent + 1
  BY NextWordTyped DEF Receive, IInv
<1>4. PICK h \in Seq(Word) : Stream(h) /\ Heard(osw_q, h) /\ Bursts(h, s)
  BY DEF Heeded
<1>5. PICK g \in Seq(Word) :
        /\ g = Append(h, w) /\ Stream(g)
        /\ \E b \in radio : \E k \in 0..Len(b) :
             /\ Tail(air[s]) = SubSeq(b, k + 1, Len(b))
             /\ k <= Len(g)
             /\ \A j \in 1..k : Stamped(g[Len(h) + 1 - k + j], b[j], s)
             /\ Closed(g, Len(h) + 1 - k)
  <2> DEFINE a == Append(h, w)
  <2>1. /\ a \in Seq(Word) /\ Stream(a)
        /\ \E b \in radio : \E k \in 0..Len(b) :
             /\ Tail(air[s]) = SubSeq(b, k + 1, Len(b))
             /\ k <= Len(a)
             /\ \A j \in 1..k : Stamped(a[Len(h) + 1 - k + j], b[j], s)
             /\ Closed(a, Len(h) + 1 - k)
    BY <1>1, <1>2, <1>3, <1>4, SendingHeard, Zenon
  <2> HIDE DEF a
  <2>2. QED
    BY <2>1 DEF a
<1> DEFINE q == Enqueued(w)
<1>6. /\ Heard(q, g)
      /\ \A i \in 1..Len(osw_q) :
           (Len(osw_q) = 6 /\ i = 1) \/ \E j \in 1..Len(q) : q[j] = osw_q[i]
  BY <1>1, <1>3, <1>4, <1>5, EnqueueHeard
<1>7. q \in Seq(Word) /\ Len(q) <= 6
  BY <1>1, <1>3, EnqueueKeepsOrder DEF Queue, OSW_QUEUE_SIZE
<1>8. Process(q, s)
  BY DEF Receive
<1>9. Len(g) = Len(h) + 1
  BY <1>3, <1>5
<1> HIDE DEF w, q
<1>10. Understood(q, g)
  BY <1>5, <1>6, <1>7, <1>8, ProcessUnderstood
<1>11. Bursts(g, s)'
  <2>1. PICK b \in radio : \E k \in 0..Len(b) :
          /\ Tail(air[s]) = SubSeq(b, k + 1, Len(b))
          /\ k <= Len(g)
          /\ \A j \in 1..k : Stamped(g[Len(h) + 1 - k + j], b[j], s)
          /\ Closed(g, Len(h) + 1 - k)
    BY <1>5
  <2>2. PICK k \in 0..Len(b) :
          /\ Tail(air[s]) = SubSeq(b, k + 1, Len(b))
          /\ k <= Len(g)
          /\ \A j \in 1..k : Stamped(g[Len(h) + 1 - k + j], b[j], s)
          /\ Closed(g, Len(h) + 1 - k)
    BY <2>1
  <2>3. air'[s] = Tail(air[s])
    BY <1>1, <1>2 DEF TypeOK
  <2>4. \A v, t : Stamped(v, t, s) => Stamped(v, t, s)'
    BY <1>2 DEF Stamped
  <2>5. OnAir(g, s, b, k)'
    BY <1>9, <2>2, <2>3, <2>4 DEF OnAir
  <2>6. QED
    BY <1>2, <2>5 DEF Bursts
<1>12. Heeded'
  <2>1. \A t \in Systems : Bursts(g, t)'
    BY <1>11 DEF OneSystem
  <2>2. Heard(osw_q', g) /\ Spare(osw_q') /\ Matched'
    BY <1>10 DEF Understood
  <2>3. QED
    BY <1>5, <2>1, <2>2 DEF Heeded
<1>13. ASSUME NEW i \in 1..Len(osw_q), Talk(osw_q[i])
       PROVE  \/ \E j \in 1..Len(osw_q') : osw_q'[j] = osw_q[i]
              \/ \E m \in told' : Last(m.words) = osw_q[i]
  <2>1. ~(Len(osw_q) = 6 /\ i = 1)
    BY <1>13 DEF Heeded, Spare
  <2>2. PICK j \in 1..Len(q) : q[j] = osw_q[i]
    BY <1>6, <2>1
  <2>3. QED
    BY <1>10, <1>13, <2>2 DEF Understood, Reported
<1>14. QED
  BY <1>12, <1>13

\* A second without a word.
LEMMA TimeoutHeeds ==
  ASSUME IInv, Heeded, lost = {}, NEW s \in Systems, Timeout(s)
  PROVE  /\ Heeded'
         /\ \A i \in 1..Len(osw_q) : Talk(osw_q[i]) =>
              \/ \E j \in 1..Len(osw_q') : osw_q'[j] = osw_q[i]
              \/ \E m \in told' : Last(m.words) = osw_q[i]
<1>1. osw_q \in Seq(Word) /\ Len(osw_q) <= 6
  BY DEF IInv, TypeOK, OSW_QUEUE_SIZE
<1>2. Process(osw_q, s) /\ UNCHANGED <<radio, air, began, sent, lost>>
  BY DEF Timeout, sky
<1>3. PICK h \in Seq(Word) :
        Stream(h) /\ Heard(osw_q, h) /\ \A t \in Systems : Bursts(h, t)
  BY DEF Heeded
<1>4. Understood(osw_q, h)
  BY <1>1, <1>2, <1>3, ProcessUnderstood
<1>5. \A t \in Systems : Bursts(h, t)'
  <2> SUFFICES ASSUME NEW t \in Systems PROVE Bursts(h, t)'
    OBVIOUS
  <2>1. PICK b \in radio \cup {<<>>} : \E k \in 0..Len(b) : OnAir(h, t, b, k)
    BY <1>3 DEF Bursts
  <2>2. PICK k \in 0..Len(b) : OnAir(h, t, b, k)
    BY <2>1
  <2>3. OnAir(h, t, b, k)'
    BY <1>2, <2>2 DEF OnAir, Stamped
  <2>4. QED
    BY <1>2, <2>3 DEF Bursts
<1>6. Heeded'
  BY <1>3, <1>4, <1>5 DEF Heeded, Understood
<1>7. QED
  BY <1>4, <1>6 DEF Understood, Reported

\* The radio system begins its next burst when the last was sent.
LEMMA BeginHeeds ==
  ASSUME IInv, Heeded, OneSystem, LawfulRadios, NEW s \in Systems, Begin(s)
  PROVE  Heeded'
<1> SUFFICES ASSUME lost = {} PROVE Heeded'
  BY DEF Heeded, Begin
<1>1. TypeOK
  BY DEF IInv
<1>2. PICK h \in Seq(Word) : Stream(h) /\ Heard(osw_q, h) /\ Bursts(h, s)
  BY DEF Heeded
<1>3. PICK c \in radio \cup {<<>>} : \E k \in 0..Len(c) : OnAir(h, s, c, k)
  BY <1>2 DEF Bursts
<1>4. PICK k \in 0..Len(c) : OnAir(h, s, c, k)
  BY <1>3
<1>5. /\ c \in Seq(Template)
      /\ c = <<>> \/ Lawful(c)
      /\ \A b \in radio : b \in Seq(Template)
  <2>1. radio \in Radios /\ <<>> \in Seq(Template)
    BY <1>1, EmptySeq DEF TypeOK
  <2>2. radio \subseteq Seq(Template)
    BY <2>1, SmartnetAssumption
  <2>3. QED
    BY <2>1, <2>2 DEF LawfulRadios
<1>6. air[s] = <<>>
  BY DEF Begin
<1>7. k = Len(c)
  BY <1>4, <1>5, <1>6, BurstNext DEF OnAir
<1>8. Closed(h, Len(h))
  <2>1. OnAir(h, s, c, Len(c))
    BY <1>4, <1>7
  <2>2. QED
    BY <1>5, <2>1, BurstCloses
<1>9. PICK b \in radio : air' = [air EXCEPT ![s] = b]
  BY DEF Begin
<1>10. OnAir(h, s, b, 0)'
  <2>1. b \in Seq(Template) /\ Len(b) \in Nat /\ Len(h) \in Nat /\ Len(h) - 0 = Len(h)
    BY <1>5
  <2>2. SubSeq(b, 0 + 1, Len(b)) = b
    BY <2>1, SubSeqFull
  <2>3. air'[s] = b
    BY <1>1, <1>9 DEF TypeOK
  <2>4. QED
    BY <1>8, <2>1, <2>2, <2>3 DEF OnAir
<1>11. \A t \in Systems : Bursts(h, t)'
  <2>1. 0 \in 0..Len(b) /\ b \in radio'
    BY <1>5 DEF Begin
  <2>2. Bursts(h, s)'
    BY <1>10, <2>1 DEF Bursts
  <2>3. QED
    BY <2>2 DEF OneSystem
<1>12. osw_q' = osw_q /\ told' = told
  BY DEF Begin
<1>13. QED
  BY <1>2, <1>11, <1>12 DEF Heeded, Matched

LEMMA InitHeeded == Init => Heeded
<1> SUFFICES ASSUME Init PROVE Heeded
  OBVIOUS
<1>1. osw_q = <<>> /\ told = {} /\ air = [s \in Systems |-> <<>>]
  BY DEF Init
<1> DEFINE h == <<>>
<1>2. h \in Seq(Word) /\ Len(h) = 0
  BY EmptySeq
<1>3. Stream(h)
  BY <1>2 DEF Stream
<1>4. Heard(osw_q, h)
  BY <1>1, <1>2 DEF Heard
<1>5. ASSUME NEW s \in Systems PROVE Bursts(h, s)
  <2>1. SubSeq(<<>>, 0 + 1, Len(<<>>)) = <<>>
    BY EmptySeq, SubSeqEmpty
  <2>2. OnAir(h, s, <<>>, 0)
    BY <1>1, <1>2, <2>1 DEF OnAir, Closed
  <2>3. <<>> \in radio \cup {<<>>} /\ 0 \in 0..Len(<<>>)
    OBVIOUS
  <2>4. QED
    BY <2>2, <2>3 DEF Bursts
<1> HIDE DEF h
<1>6. Spare(osw_q) /\ Matched
  BY <1>1 DEF Spare, Matched
<1>7. QED
  BY <1>2, <1>3, <1>4, <1>5, <1>6 DEF Heeded

LEMMA StepHeeded ==
  ASSUME OneSystem, LawfulRadios
  PROVE  IInv /\ Heeded /\ [Next]_vars => Heeded'
<1> SUFFICES ASSUME IInv, Heeded, [Next]_vars PROVE Heeded'
  OBVIOUS
<1>1. ASSUME NEW s \in Systems, Begin(s) PROVE Heeded'
  BY <1>1, BeginHeeds
<1>2. ASSUME NEW s \in Systems, Receive(s) PROVE Heeded'
  <2>1. CASE lost = {}
    BY <1>2, <2>1, ReceiveHeeds
  <2>2. CASE lost # {}
    BY <1>2, <2>2 DEF Receive, Heeded
  <2>3. QED
    BY <2>1, <2>2
<1>3. ASSUME NEW s \in Systems, Lose(s) PROVE Heeded'
  BY <1>3 DEF Lose, Heeded
<1>4. ASSUME NEW s \in Systems, Timeout(s) PROVE Heeded'
  <2>1. CASE lost = {}
    BY <1>4, <2>1, TimeoutHeeds
  <2>2. CASE lost # {}
    BY <1>4, <2>2 DEF Timeout, sky, Heeded
  <2>3. QED
    BY <2>1, <2>2
<1>5. CASE UNCHANGED vars
  <2>1. UNCHANGED <<osw_q, told, radio, air, began, lost>>
    BY <1>5 DEF vars, sky
  <2>2. ASSUME NEW h, NEW s PROVE Bursts(h, s)' = Bursts(h, s)
    BY <2>1 DEF Bursts, OnAir, Stamped
  <2>3. Matched' = Matched
    BY <2>1 DEF Matched
  <2>4. QED
    BY <2>1, <2>2, <2>3 DEF Heeded
<1>6. QED
  BY <1>1, <1>2, <1>3, <1>4, <1>5 DEF Next

(***************************************************************************)
(* The theorems                                                            *)
(***************************************************************************)

\* The invariant holds whatever the radio system sends and the receiver loses.
THEOREM Invariant == Spec => []IInv
<1>1. QED
  BY InitInv, StepInv, PTL DEF Spec

\* The types of the variables; the queue never holds more than six words.
THEOREM TypeCorrect == Spec => []TypeOK
<1>1. IInv => TypeOK
  BY DEF IInv
<1>2. QED
  BY <1>1, Invariant, PTL

\* The queue of process_osws is in the order of the air, for every burst of words
\* and every loss.
THEOREM KeepsOrder == Spec => []InOrder
<1>1. IInv => InOrder
  <2> SUFFICES ASSUME IInv PROVE InOrder
    OBVIOUS
  <2>1. osw_q \in Seq(Word) /\ Ordered(osw_q)
    BY DEF IInv, Queue
  <2>2. DOMAIN osw_q = 1..Len(osw_q)
    BY <2>1
  <2>3. QED
    BY <2>1, <2>2 DEF Ordered, InOrder
<1>2. QED
  BY <1>1, Invariant, PTL

\* No word that a grant or an update was made of is in the queue again.
THEOREM NeverTwice == Spec => []ToldOnce
<1>1. IInv => ToldOnce
  BY DEF IInv
<1>2. QED
  BY <1>1, Invariant, PTL

\* With one system whose bursts keep to the protocol and no word lost, the source
\* and the talkgroup of a grant are from one message, however idles were delayed
\* into it, and for any number of words.
THEOREM GrantsAsSent ==
  ASSUME OneSystem, LawfulRadios
  PROVE  Spec => []GrantAsSent
<1>1. Heeded => GrantAsSent
  BY DEF Heeded, Matched, GrantAsSent
<1>2. IInv /\ Heeded /\ [Next]_vars => (IInv /\ Heeded)'
  BY StepInv, StepHeeded
<1>3. Init => IInv /\ Heeded
  BY InitInv, InitHeeded
<1>4. QED
  BY <1>1, <1>2, <1>3, PTL DEF Spec

\* Under the same conditions no word that assigns a talkgroup to a channel leaves
\* the queue but as part of a grant or an update.
THEOREM EveryAssignmentHeard ==
  ASSUME OneSystem, LawfulRadios
  PROVE  Spec => NothingUnheard
<1> DEFINE Heed ==
      lost' = {} =>
        \A i \in DOMAIN osw_q :
          Talk(osw_q[i]) /\ osw_q[i] \notin Range(osw_q')
            => \E m \in told' : Last(m.words) = osw_q[i]
<1>1. IInv /\ Heeded /\ Next => Heed
  <2> SUFFICES ASSUME IInv, Heeded, Next, lost' = {},
                      NEW i \in DOMAIN osw_q, Talk(osw_q[i]), osw_q[i] \notin Range(osw_q')
               PROVE  \E m \in told' : Last(m.words) = osw_q[i]
    OBVIOUS
  <2>1. i \in 1..Len(osw_q)
    BY DEF IInv, TypeOK
  <2>2. osw_q' \in Seq(Word)
    BY StepInv DEF IInv, TypeOK
  <2>3. ~\E j \in 1..Len(osw_q') : osw_q'[j] = osw_q[i]
    BY <2>2 DEF Range
  <2>4. osw_q' # osw_q
    BY <2>1, <2>3
  <2>5. ASSUME NEW s \in Systems, Begin(s) \/ Lose(s) PROVE FALSE
    BY <2>4, <2>5 DEF Begin, Lose
  <2>6. ASSUME NEW s \in Systems, Receive(s)
        PROVE  \E m \in told' : Last(m.words) = osw_q[i]
    <3>1. lost = {}
      BY <2>6 DEF Receive
    <3>2. QED
      BY <2>1, <2>3, <2>6, <3>1, ReceiveHeeds
  <2>7. ASSUME NEW s \in Systems, Timeout(s)
        PROVE  \E m \in told' : Last(m.words) = osw_q[i]
    <3>1. lost = {}
      BY <2>7 DEF Timeout, sky
    <3>2. QED
      BY <2>1, <2>3, <2>7, <3>1, TimeoutHeeds
  <2>8. QED
    BY <2>5, <2>6, <2>7 DEF Next
<1>2. IInv /\ Heeded /\ [Next]_vars => (IInv /\ Heeded)'
  BY StepInv, StepHeeded
<1>3. Init => IInv /\ Heeded
  BY InitInv, InitHeeded
<1>4. IInv /\ Heeded /\ [Next]_vars => [Heed]_vars
  BY <1>1
<1> HIDE DEF Heed
<1>5. Spec => [][Heed]_vars
  BY <1>2, <1>3, <1>4, PTL DEF Spec
<1>6. QED
  BY <1>5 DEF NothingUnheard, Heed
=============================================================================
