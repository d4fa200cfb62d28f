-------------------------- MODULE ContextWindowProofs --------------------------
(***************************************************************************)
(* Proofs about conversations, for windows, thresholds, limits and         *)
(* message lengths of any size and for histories of any length.            *)
(***************************************************************************)
EXTENDS ContextWindow, Sums

Messages == [at : Nat, size : Sizes]

\* Whether a history is summarised, and how many of its messages are kept.
Summarises(strategy, h) ==
    strategy = "summarized" /\ Len(h) > SUMMARIZATION_THRESHOLD

InFull(strategy, h) ==
    \/ strategy = "full"
    \/ strategy = "summarized" /\ Len(h) <= SUMMARIZATION_THRESHOLD
    \/ Len(h) <= SLIDING_WINDOW_SIZE

Kept(strategy, h) == IF InFull(strategy, h) THEN Len(h) ELSE SLIDING_WINDOW_SIZE

\* The lines the summary takes at the head of the prompt.
SummaryLength(strategy, h) == IF Summarises(strategy, h) THEN 1 ELSE 0

\* What a prompt looks like: the summary of what is not kept, then the last
\* messages of the history and the current one.
Shaped(prompt, strategy, h, message) ==
    LET s == SummaryLength(strategy, h)
        k == Kept(strategy, h)
    IN  /\ DOMAIN prompt = 1 .. s + k + 1
        /\ \A i \in 1 .. s : prompt[i].line = "Summary" /\ prompt[i].label = Len(h) - k
        /\ \A i \in s + 1 .. s + k + 1 :
             /\ prompt[i].line # "Summary"
             /\ prompt[i].message = Append(h, message)[Len(h) - k + (i - s)]

\* The messages of a history are numbered in order.
Numbered(h) == h \in Seq(Messages) /\ \A i \in 1 .. Len(h) : h[i].at = i

\* The inductive invariant: the last turn was a turn over a beginning of what
\* the client holds, and its prompt is the one its strategy makes of that.
TurnInv ==
    /\ Numbered(history)
    /\ Taken =>
         /\ turn.strategy \in Strategies
         /\ Numbered(turn.sent) /\ Len(turn.sent) <= Len(history)
         /\ turn.message \in Messages /\ turn.message.at = Len(turn.sent) + 1
         /\ turn.prompt = Prepared(turn.strategy, turn.sent, turn.message)
         /\ turn.status = 400 => ~(CountTokens(turn.prompt) <= MAX_CONTEXT_TOKENS)
-----------------------------------------------------------------------------
(* Prompts.                                                                *)

LEMMA RecentType ==
    ASSUME NEW h \in Seq(Messages)
    PROVE  LET k == IF Len(h) <= SLIDING_WINDOW_SIZE THEN Len(h) ELSE SLIDING_WINDOW_SIZE
           IN  /\ Recent(h) \in Seq(Messages) /\ Len(Recent(h)) = k
               /\ \A i \in 1 .. k : Recent(h)[i] = h[Len(h) - k + i]
<1>1. SLIDING_WINDOW_SIZE \in Nat /\ SLIDING_WINDOW_SIZE >= 1 /\ Len(h) \in Nat
  BY WindowAssumption
<1>2. CASE Len(h) <= SLIDING_WINDOW_SIZE
  BY <1>1, <1>2 DEF Recent
<1>3. CASE ~(Len(h) <= SLIDING_WINDOW_SIZE)
  <2>1. PICK a \in Nat : a = Len(h) - SLIDING_WINDOW_SIZE + 1
    BY <1>1, <1>3
  <2>2. a >= 1 /\ a <= Len(h) + 1 /\ Len(h) - a + 1 = SLIDING_WINDOW_SIZE
    BY <1>1, <1>3, <2>1
  <2>3. PICK r : r = SubSeq(h, a, Len(h))
    OBVIOUS
  <2>4. a \in 1 .. Len(h) + 1 /\ Len(h) \in a - 1 .. Len(h)
    BY <1>1, <2>1, <2>2
  <2>5. /\ r \in Seq(Messages) /\ Len(r) = SLIDING_WINDOW_SIZE
        /\ \A i \in 1 .. SLIDING_WINDOW_SIZE : r[i] = h[a + i - 1]
    BY <2>2, <2>3, <2>4, SubSeqProperties
  <2>6. \A i \in 1 .. SLIDING_WINDOW_SIZE : a + i - 1 = Len(h) - SLIDING_WINDOW_SIZE + i
    BY <1>1, <2>1
  <2>7. r = Recent(h)
    BY <1>3, <2>1, <2>3 DEF Recent
  <2>8. QED
    BY <1>3, <2>5, <2>6, <2>7
<1>4. QED
  BY <1>2, <1>3

\* A block of labelled lines: one line for each message.
LEMMA FormatType ==
    ASSUME NEW w \in Seq(Messages), NEW m \in Messages
    PROVE  LET p == FormatMessages(Append(w, m)) IN
           /\ DOMAIN p = 1 .. Len(w) + 1
           /\ \A i \in 1 .. Len(w) + 1 :
                p[i].line # "Summary" /\ p[i].message = Append(w, m)[i]
<1>1. Len(w) \in Nat /\ DOMAIN Append(w, m) = 1 .. Len(w) + 1
  OBVIOUS
<1>2. QED
  BY <1>1 DEF FormatMessages

LEMMA KeptType ==
    ASSUME NEW strategy \in Strategies, NEW h \in Seq(Messages)
    PROVE  /\ Kept(strategy, h) \in Nat /\ Kept(strategy, h) <= Len(h)
           /\ SummaryLength(strategy, h) \in {0, 1}
BY WindowAssumption DEF Kept, InFull, SummaryLength

LEMMA FullShape ==
    ASSUME NEW strategy \in Strategies, NEW h \in Seq(Messages), NEW m \in Messages,
           InFull(strategy, h), ~Summarises(strategy, h)
    PROVE  Shaped(FullContext(h, m), strategy, h, m)
<1>1. PICK p : p = FullContext(h, m)
  OBVIOUS
<1>2. /\ DOMAIN p = 1 .. Len(h) + 1
      /\ \A i \in 1 .. Len(h) + 1 :
           p[i].line # "Summary" /\ p[i].message = Append(h, m)[i]
  BY <1>1, FormatType DEF FullContext
<1>3. PICK k, s : k = Kept(strategy, h) /\ s = SummaryLength(strategy, h)
  OBVIOUS
<1>4. k = Len(h) /\ s = 0 /\ Len(h) \in Nat
  BY <1>3 DEF Kept, SummaryLength
<1>5. \A i \in 1 .. Len(h) + 1 : Len(h) - k + (i - s) = i
  BY <1>4
<1>6. s + k + 1 = Len(h) + 1 /\ s + 1 = 1 /\ 1 .. s = {}
  BY <1>4
<1>7. QED
  BY <1>1, <1>2, <1>3, <1>5, <1>6 DEF Shaped

LEMMA WindowShape ==
    ASSUME NEW h \in Seq(Messages), NEW m \in Messages
    PROVE  Shaped(SlidingWindowContext(h, m), "sliding_window", h, m)
<1>1. PICK p, w : p = SlidingWindowContext(h, m) /\ w = Recent(h)
  OBVIOUS
<1>2. PICK k : k = Kept("sliding_window", h)
  OBVIOUS
<1>3. /\ w \in Seq(Messages) /\ Len(w) = k
      /\ \A i \in 1 .. k : w[i] = h[Len(h) - k + i]
  BY <1>1, <1>2, RecentType DEF Kept, InFull
<1>4. /\ DOMAIN p = 1 .. k + 1
      /\ \A i \in 1 .. k + 1 : p[i].line # "Summary" /\ p[i].message = Append(w, m)[i]
  BY <1>1, <1>3, FormatType DEF SlidingWindowContext
<1>5. k \in Nat /\ k <= Len(h) /\ Len(h) \in Nat
  BY <1>2, KeptType DEF Strategies
<1>6. ASSUME NEW i \in 1 .. k + 1 PROVE Append(w, m)[i] = Append(h, m)[Len(h) - k + i]
  <2>1. CASE i = k + 1
    <3>1. Append(w, m)[i] = m
      BY <1>3, <2>1
    <3>2. Len(h) - k + i = Len(h) + 1
      BY <1>5, <2>1
    <3>3. QED
      BY <3>1, <3>2
  <2>2. CASE i # k + 1
    <3>1. i \in 1 .. k /\ Len(h) - k + i \in 1 .. Len(h)
      BY <1>5, <2>2
    <3>2. Append(w, m)[i] = w[i]
      BY <1>3, <3>1
    <3>3. QED
      BY <1>3, <3>1, <3>2
  <2>3. QED
    BY <2>1, <2>2
<1>7. PICK s : s = SummaryLength("sliding_window", h)
  OBVIOUS
<1>8. s = 0
  BY <1>7 DEF SummaryLength, Summarises
<1>9. s + k + 1 = k + 1 /\ s + 1 = 1 /\ 1 .. s = {} /\ \A i \in 1 .. k + 1 : i - s = i
  BY <1>5, <1>8
<1>10. /\ DOMAIN p = 1 .. s + k + 1
       /\ \A i \in 1 .. s : p[i].line = "Summary" /\ p[i].label = Len(h) - k
       /\ \A i \in s + 1 .. s + k + 1 :
             /\ p[i].line # "Summary"
             /\ p[i].message = Append(h, m)[Len(h) - k + (i - s)]
  BY <1>4, <1>6, <1>9
<1>11. QED
  BY <1>1, <1>2, <1>7, <1>10 DEF Shaped

LEMMA SummarisedShape ==
    ASSUME NEW h \in Seq(Messages), NEW m \in Messages, Summarises("summarized", h)
    PROVE  Shaped(SummarizedContext(h, m), "summarized", h, m)
<1>1. PICK p, w, k : /\ p = SummarizedContext(h, m) /\ w = Recent(h)
                     /\ k = Kept("summarized", h)
  OBVIOUS
<1>2. /\ k = SLIDING_WINDOW_SIZE /\ k \in Nat /\ k <= Len(h) /\ Len(h) \in Nat
      /\ ~(Len(h) <= SUMMARIZATION_THRESHOLD)
      /\ Len(h) <= SLIDING_WINDOW_SIZE => Len(h) = k
  <2>1. Len(h) \in Nat
    OBVIOUS
  <2>2. ~(Len(h) <= SUMMARIZATION_THRESHOLD) /\ ~(Len(h) <= SLIDING_WINDOW_SIZE)
    BY <2>1, WindowAssumption DEF Summarises
  <2>3. k = SLIDING_WINDOW_SIZE
    BY <1>1, <2>2 DEF Kept, InFull
  <2>4. QED
    BY <2>1, <2>2, <2>3, WindowAssumption
<1>3. /\ w \in Seq(Messages) /\ Len(w) = k
      /\ \A i \in 1 .. k : w[i] = h[Len(h) - k + i]
  BY <1>1, <1>2, RecentType
<1>4. PICK a, b, c : a = Summary(Older(h)) /\ b = FormatMessages(w) /\ c = Current(m)
  OBVIOUS
<1>5. p = a \o b \o c
  BY <1>1, <1>2, <1>4 DEF SummarizedContext
<1>6. /\ Len(a) = 1 /\ a[1].line = "Summary" /\ a[1].label = Len(h) - k
      /\ a \in Seq({a[1]})
  <2>1. Len(Older(h)) = Len(h) - k
    <3>1. PICK n \in Nat : n = Len(h) - SLIDING_WINDOW_SIZE
      BY <1>2
    <3>2. 1 \in 1 .. Len(h) + 1 /\ n \in 1 - 1 .. Len(h)
      BY <1>2, <3>1
    <3>3. Len(SubSeq(h, 1, n)) = IF 1 <= n THEN n - 1 + 1 ELSE 0
      BY <3>2, SubSeqProperties
    <3>4. Len(SubSeq(h, 1, n)) = n
      BY <3>1, <3>3
    <3>5. QED
      BY <1>2, <3>1, <3>4 DEF Older
  <2>2. QED
    BY <1>4, <2>1 DEF Summary
<1>7. /\ Len(b) = k /\ b \in Seq({b[i] : i \in 1 .. k})
      /\ \A i \in 1 .. k : b[i].line # "Summary" /\ b[i].message = w[i]
  <2>1. DOMAIN w = 1 .. k
    BY <1>3
  <2>2. b = [i \in 1 .. k |-> [line |-> "Turn", label |-> i - 1, message |-> w[i]]]
    BY <1>4, <2>1 DEF FormatMessages
  <2>3. \A i \in 1 .. k : b[i].line # "Summary" /\ b[i].message = w[i]
    BY <2>2
  <2>4. b \in [1 .. k -> {b[i] : i \in 1 .. k}]
    BY <2>2
  <2>5. QED
    BY <1>2, <2>3, <2>4
<1>8. Len(c) = 1 /\ c[1].line # "Summary" /\ c[1].message = m /\ c \in Seq({c[1]})
  BY <1>4 DEF Current
<1>9. PICK A : A = {a[1]} \cup {c[1]} \cup {b[i] : i \in 1 .. k}
  OBVIOUS
<1>10. a \in Seq(A) /\ b \in Seq(A) /\ c \in Seq(A)
  BY <1>2, <1>6, <1>7, <1>8, <1>9
<1>11. /\ DOMAIN p = 1 .. k + 2
       /\ p[1] = a[1] /\ p[k + 2] = c[1]
       /\ \A i \in 2 .. k + 1 : p[i] = b[i - 1]
  <2>1. PICK d : d = a \o b
    OBVIOUS
  <2>2. /\ d \in Seq(A) /\ Len(d) = k + 1 /\ d[1] = a[1]
        /\ \A i \in 2 .. k + 1 : d[i] = b[i - 1]
    <3>1. /\ d \in Seq(A) /\ Len(d) = Len(a) + Len(b)
          /\ \A i \in 1 .. Len(a) + Len(b) :
               d[i] = IF i <= Len(a) THEN a[i] ELSE b[i - Len(a)]
      BY <1>10, <2>1, ConcatProperties
    <3>2. QED
      BY <1>2, <1>6, <1>7, <3>1
  <2>3. /\ p \in Seq(A) /\ Len(p) = k + 2 /\ p[k + 2] = c[1]
        /\ \A i \in 1 .. k + 1 : p[i] = d[i]
    <3>1. p = d \o c
      BY <1>5, <2>1
    <3>2. /\ p \in Seq(A) /\ Len(p) = Len(d) + Len(c)
          /\ \A i \in 1 .. Len(d) + Len(c) :
               p[i] = IF i <= Len(d) THEN d[i] ELSE c[i - Len(d)]
      BY <1>10, <2>2, <3>1, ConcatProperties
    <3>3. QED
      BY <1>2, <1>8, <2>2, <3>2
  <2>4. QED
    BY <1>2, <2>2, <2>3
<1>12. ASSUME NEW i \in 2 .. k + 2
       PROVE  p[i].line # "Summary" /\ p[i].message = Append(h, m)[Len(h) - k + (i - 1)]
  <2>1. CASE i = k + 2
    <3>1. Len(h) - k + (i - 1) = Len(h) + 1
      BY <1>2, <2>1
    <3>2. QED
      BY <1>8, <1>11, <2>1, <3>1
  <2>2. CASE i # k + 2
    <3>1. i \in 2 .. k + 1 /\ i - 1 \in 1 .. k /\ Len(h) - k + (i - 1) \in 1 .. Len(h)
      BY <1>2, <2>2
    <3>2. p[i].line # "Summary" /\ p[i].message = h[Len(h) - k + (i - 1)]
      BY <1>3, <1>7, <1>11, <3>1
    <3>3. QED
      BY <3>1, <3>2
  <2>3. QED
    BY <2>1, <2>2
<1>13. PICK s : s = SummaryLength("summarized", h)
  OBVIOUS
<1>14. s = 1
  BY <1>13 DEF SummaryLength
<1>15. s + k + 1 = k + 2 /\ s + 1 = 2 /\ \A i \in 1 .. s : i = 1
  BY <1>2, <1>14
<1>16. /\ DOMAIN p = 1 .. s + k + 1
       /\ \A i \in 1 .. s : p[i].line = "Summary" /\ p[i].label = Len(h) - k
       /\ \A i \in s + 1 .. s + k + 1 :
             /\ p[i].line # "Summary"
             /\ p[i].message = Append(h, m)[Len(h) - k + (i - s)]
  BY <1>6, <1>11, <1>12, <1>14, <1>15
<1>17. QED
  BY <1>1, <1>13, <1>16 DEF Shaped

\* Every strategy makes a prompt of that shape, whatever the history.
LEMMA PromptShape ==
    ASSUME NEW strategy \in Strategies, NEW h \in Seq(Messages), NEW m \in Messages
    PROVE  Shaped(Prepared(strategy, h, m), strategy, h, m)
<1>1. CASE strategy = "full"
  <2>1. InFull(strategy, h) /\ ~Summarises(strategy, h)
    BY <1>1 DEF InFull, Summarises
  <2>2. Shaped(FullContext(h, m), strategy, h, m)
    BY <2>1, FullShape
  <2>3. QED
    BY <1>1, <2>2 DEF Prepared
<1>2. CASE strategy = "sliding_window"
  BY <1>2, WindowShape DEF Prepared
<1>3. CASE strategy = "summarized" /\ Summarises(strategy, h)
  BY <1>3, SummarisedShape DEF Prepared
<1>4. CASE strategy = "summarized" /\ ~Summarises(strategy, h)
  <2>1. Len(h) \in Nat /\ Len(h) <= SUMMARIZATION_THRESHOLD
    BY <1>4, WindowAssumption DEF Summarises
  <2>2. InFull(strategy, h)
    BY <1>4, <2>1 DEF InFull
  <2>3. Shaped(FullContext(h, m), strategy, h, m)
    BY <1>4, <2>2, FullShape
  <2>4. QED
    BY <1>4, <2>1, <2>3 DEF Prepared, SummarizedContext
<1>5. QED
  BY <1>1, <1>2, <1>3, <1>4 DEF Strategies

\* The lines of a prompt of that shape.
LEMMA LinesOfShape ==
    ASSUME NEW p, NEW strategy \in Strategies, NEW h \in Seq(Messages), NEW m \in Messages,
           Shaped(p, strategy, h, m)
    PROVE  LET s == SummaryLength(strategy, h)
               k == Kept(strategy, h)
           IN  /\ SummaryLines(p) = 1 .. s
               /\ VerbatimLines(p) = s + 1 .. s + k + 1
<1>1. PICK s, k : s = SummaryLength(strategy, h) /\ k = Kept(strategy, h)
  OBVIOUS
<1>2. s \in {0, 1} /\ k \in Nat
  BY <1>1, KeptType
<1>3. /\ DOMAIN p = 1 .. s + k + 1
      /\ \A i \in 1 .. s : p[i].line = "Summary"
      /\ \A i \in s + 1 .. s + k + 1 : p[i].line # "Summary"
  BY <1>1 DEF Shaped
<1>4. 1 .. s + k + 1 = (1 .. s) \cup (s + 1 .. s + k + 1)
  BY <1>2
<1>5. SummaryLines(p) = 1 .. s
  BY <1>3, <1>4 DEF SummaryLines
<1>6. (1 .. s + k + 1) \ (1 .. s) = s + 1 .. s + k + 1
  BY <1>2
<1>7. QED
  BY <1>1, <1>3, <1>5, <1>6 DEF VerbatimLines
-----------------------------------------------------------------------------
(* The invariant.                                                          *)

LEMMA TurnStep ==
    ASSUME TurnInv, NEW strategy \in Strategies, NEW size \in Sizes, NEW status,
           Turn(strategy, Message(Len(history) + 1, size), status),
           status = 400 => ~Fits(strategy, Message(Len(history) + 1, size)),
           Numbered(history'), Len(history) <= Len(history')
    PROVE  TurnInv'
<1>1. PICK m : m = Message(Len(history) + 1, size)
  OBVIOUS
<1>2. Len(history) \in Nat
  BY DEF TurnInv, Numbered
<1>3. m \in Messages /\ m.at = Len(history) + 1
  BY <1>1, <1>2 DEF Message, Messages
<1>4. PICK prompt : prompt = Prepared(strategy, history, m)
  OBVIOUS
<1>5. /\ turn'.strategy = strategy /\ turn'.sent = history /\ turn'.message = m
      /\ turn'.prompt = prompt /\ turn'.status = status
  BY <1>1, <1>4 DEF Turn
<1>6. turn'.status = 400 => ~(CountTokens(prompt) <= MAX_CONTEXT_TOKENS)
  BY <1>1, <1>4, <1>5 DEF Fits
<1>7. QED
  BY <1>3, <1>4, <1>5, <1>6 DEF TurnInv

LEMMA InvStart == Init => TurnInv
BY DEF Init, TurnInv, Taken, Numbered

LEMMA InvStep == TurnInv /\ [Next]_vars => TurnInv'
<1>1. SUFFICES ASSUME TurnInv, [Next]_vars PROVE TurnInv'
  OBVIOUS
<1>2. CASE UNCHANGED vars
  <2>1. history' = history /\ turn' = turn
    BY <1>2 DEF vars
  <2>2. QED
    BY <1>1, <2>1 DEF TurnInv, Taken, Numbered
<1>3. history \in Seq(Messages) /\ Len(history) \in Nat
  BY <1>1 DEF TurnInv, Numbered
<1>4. CASE Next
  <2>1. PICK strategy \in Strategies, size \in Sizes :
          LET message == Message(Len(history) + 1, size) IN
          \/ \E answer \in Sizes :
                Answer(strategy, message, Message(Len(history) + 2, answer))
          \/ TooLarge(strategy, message)
          \/ Fail(strategy, message)
    BY <1>4 DEF Next
  <2>2. PICK message : message = Message(Len(history) + 1, size)
    OBVIOUS
  <2>3. ASSUME NEW answer \in Sizes,
               Answer(strategy, message, Message(Len(history) + 2, answer))
        PROVE  TurnInv'
    <3>1. PICK reply : reply = Message(Len(history) + 2, answer)
      OBVIOUS
    <3>2. message \in Messages /\ reply \in Messages
      BY <1>3, <2>2, <3>1 DEF Message, Messages
    <3>3. message.at = Len(history) + 1 /\ reply.at = Len(history) + 2
      BY <2>2, <3>1 DEF Message
    <3>4. history' = history \o <<message, reply>>
      BY <2>3, <3>1 DEF Answer
    <3>5. /\ history' \in Seq(Messages) /\ Len(history') = Len(history) + 2
          /\ \A i \in 1 .. Len(history) + 2 :
               history'[i] = IF i <= Len(history) THEN history[i]
                             ELSE <<message, reply>>[i - Len(history)]
      BY <1>3, <3>2, <3>4
    <3>6. \A i \in 1 .. Len(history) + 2 : history'[i].at = i
      <4>1. ASSUME NEW i \in 1 .. Len(history) + 2 PROVE history'[i].at = i
        <5>1. CASE i <= Len(history)
          BY <1>1, <1>3, <3>5, <5>1 DEF TurnInv, Numbered
        <5>2. CASE i = Len(history) + 1
          BY <1>3, <3>3, <3>5, <5>2
        <5>3. CASE i = Len(history) + 2
          BY <1>3, <3>3, <3>5, <5>3
        <5>4. QED
          BY <1>3, <5>1, <5>2, <5>3
      <4>2. QED
        BY <4>1
    <3>7. Numbered(history')
      BY <3>5, <3>6 DEF Numbered
    <3>8. Turn(strategy, message, 200)
      BY <2>3 DEF Answer
    <3>9. Len(history) <= Len(history')
      BY <1>3, <3>5
    <3>10. QED
      BY <1>1, <2>2, <3>7, <3>8, <3>9, TurnStep
  <2>4. ASSUME UNCHANGED history PROVE Numbered(history') /\ Len(history) <= Len(history')
    BY <1>1, <1>3, <2>4 DEF TurnInv
  <2>5. CASE TooLarge(strategy, message)
    <3>1. Turn(strategy, message, 400) /\ ~Fits(strategy, message) /\ UNCHANGED history
      BY <2>5 DEF TooLarge
    <3>2. QED
      BY <1>1, <2>2, <2>4, <3>1, TurnStep
  <2>6. CASE Fail(strategy, message)
    <3>1. Turn(strategy, message, 500) /\ UNCHANGED history
      BY <2>6 DEF Fail
    <3>2. QED
      BY <1>1, <2>2, <2>4, <3>1, TurnStep
  <2>7. QED
    BY <2>1, <2>2, <2>3, <2>5, <2>6
<1>5. QED
  BY <1>1, <1>2, <1>4

LEMMA InvAlways == Spec => []TurnInv
BY InvStart, InvStep, PTL DEF Spec
-----------------------------------------------------------------------------
(* No message is lost around the split, and none is there twice.           *)

LEMMA Accounted == TurnInv => HistoryAccounted
<1>1. SUFFICES ASSUME TurnInv, Taken PROVE HistoryAccounted
  BY DEF HistoryAccounted
<1>2. PICK p, h, m, strategy : /\ p = turn.prompt /\ h = turn.sent /\ m = turn.message
                               /\ strategy = turn.strategy
  OBVIOUS
<1>3. /\ strategy \in Strategies /\ h \in Seq(Messages) /\ m \in Messages
      /\ p = Prepared(strategy, h, m)
  BY <1>1, <1>2 DEF TurnInv, Numbered
<1>4. PICK s, k : s = SummaryLength(strategy, h) /\ k = Kept(strategy, h)
  OBVIOUS
<1>5. s \in {0, 1} /\ k \in Nat /\ k <= Len(h) /\ Len(h) \in Nat
  BY <1>3, <1>4, KeptType
<1>6. Shaped(p, strategy, h, m)
  BY <1>3, PromptShape
<1>7. SummaryLines(p) = 1 .. s /\ VerbatimLines(p) = s + 1 .. s + k + 1
  BY <1>3, <1>4, <1>6, LinesOfShape
<1>8. /\ DOMAIN p = 1 .. s + k + 1
      /\ \A i \in 1 .. s : p[i].label = Len(h) - k
      /\ \A i \in s + 1 .. s + k + 1 : p[i].message = Append(h, m)[Len(h) - k + (i - s)]
  BY <1>4, <1>6 DEF Shaped
<1>9. PICK lines : lines = Listed(s + 1 .. s + k + 1)
  OBVIOUS
<1>10. DOMAIN lines = 1 .. k + 1 /\ \A n \in 1 .. k + 1 : lines[n] = s + n
  <2>1. PICK a, b \in Int : a = s + 1 /\ b = s + k + 1
    BY <1>5
  <2>2. a <= b + 1 /\ b - a + 1 = k + 1 /\ \A n \in Int : a + n - 1 = s + n
    BY <1>5, <2>1
  <2>3. /\ DOMAIN Listed(a..b) = 1..(b - a + 1)
        /\ \A n \in 1..(b - a + 1) : Listed(a..b)[n] = a + n - 1
    BY <2>2, ListedInterval
  <2>4. lines = Listed(a..b)
    BY <1>9, <2>1
  <2>5. b - a + 1 = k + 1
    BY <2>2
  <2>6. \A n \in 1 .. k + 1 : a + n - 1 = s + n
    BY <1>5, <2>2
  <2>7. QED
    BY <2>3, <2>4, <2>5, <2>6
<1>11. Verbatim = [n \in 1 .. k + 1 |-> p[lines[n]].message]
  BY <1>2, <1>7, <1>9, <1>10 DEF Verbatim
<1>12. /\ Len(Verbatim) - 1 = k
       /\ \A n \in 1 .. k + 1 : Verbatim[n] = Append(h, m)[Len(h) - k + n]
  <2>1. Len(Verbatim) = k + 1
    <3>1. PICK N \in Nat : N = k + 1
      BY <1>5
    <3>2. PICK f : f = [n \in 1 .. N |-> p[lines[n]].message]
      OBVIOUS
    <3>3. Len(f) = N
      BY <3>2
    <3>4. QED
      BY <1>11, <3>1, <3>2, <3>3
  <2>2. ASSUME NEW n \in 1 .. k + 1 PROVE Verbatim[n] = Append(h, m)[Len(h) - k + n]
    <3>1. s + n \in s + 1 .. s + k + 1 /\ (s + n) - s = n
      BY <1>5
    <3>2. p[s + n].message = Append(h, m)[Len(h) - k + ((s + n) - s)]
      BY <1>8, <3>1
    <3>3. QED
      BY <1>10, <1>11, <3>1, <3>2
  <2>3. QED
    BY <1>5, <2>1, <2>2
<1>13. strategy # "sliding_window" => Summarised + k = Len(h)
  <2>1. PICK f : f = [i \in DOMAIN p |-> p[i].label]
    OBVIOUS
  <2>2. Summarised = SumFunctionOnSet(f, 1 .. s)
    BY <1>2, <1>7, <2>1 DEF Summarised
  <2>3. CASE s = 0
    <3>1. 1 .. s = {}
      BY <2>3
    <3>2. Summarised = 0
      BY <2>2, <3>1, SumEmpty
    <3>3. strategy # "sliding_window" => k = Len(h)
      <4>1. ~Summarises(strategy, h)
        BY <1>4, <2>3 DEF SummaryLength
      <4>2. ASSUME strategy # "sliding_window" PROVE InFull(strategy, h)
        BY <1>3, <1>5, <4>1, <4>2, WindowAssumption DEF Strategies, Summarises, InFull
      <4>3. QED
        BY <1>4, <4>2 DEF Kept
    <3>4. QED
      BY <1>5, <3>2, <3>3
  <2>4. CASE s = 1
    <3>1. 1 .. s = {1} /\ 1 \in DOMAIN p
      BY <1>5, <1>8, <2>4
    <3>2. PICK c \in Nat : c = Len(h) - k
      BY <1>5
    <3>3. f[1] = c
      BY <1>8, <2>1, <2>4, <3>1, <3>2
    <3>4. IsFiniteSet({1}) /\ Cardinality({1}) = 1
      BY FS_Singleton
    <3>5. \A x \in {1} : f[x] = c
      BY <3>3
    <3>6. SumFunctionOnSet(f, {1}) = c * Cardinality({1})
      BY <3>4, <3>5, SumConstant
    <3>7. Summarised = c
      <4>1. c * 1 = c
        OBVIOUS
      <4>2. QED
        BY <2>2, <3>1, <3>4, <3>6, <4>1
    <3>8. QED
      BY <1>5, <3>2, <3>7
  <2>5. QED
    BY <1>5, <2>3, <2>4
<1>14. strategy = "sliding_window" =>
         k = IF Len(h) < SLIDING_WINDOW_SIZE THEN Len(h) ELSE SLIDING_WINDOW_SIZE
  BY <1>4, <1>5, WindowAssumption DEF Kept, InFull
<1>15. QED
  BY <1>2, <1>12, <1>13, <1>14 DEF HistoryAccounted

\* HistoryAccounted: around the split of history[:-n] and history[-n:] no
\* message is lost and none is sent twice, for every window, threshold and
\* length of the history.
THEOREM NoMessageLost == Spec => []HistoryAccounted
BY InvAlways, Accounted, PTL
-----------------------------------------------------------------------------
(* The bounded strategies.                                                 *)

\* Lengths that leave room in the limit are bounded: one of them is the
\* longest.
LEMMA LongestSize ==
    ASSUME WindowFits, NEW some \in Sizes
    PROVE  \E longest \in Sizes : \A size \in Sizes : size <= longest
<1> DEFINE Bounds == {n \in Nat : \A size \in Sizes : size <= n}
<1>1. Sizes \subseteq Nat /\ MAX_CONTEXT_TOKENS \in Nat /\ LabelTokens \in Nat
      /\ SummaryTokens \in Nat
  BY TokenAssumption
<1>2. ASSUME NEW size \in Sizes PROVE size <= MAX_CONTEXT_TOKENS
  <2>1. PICK w \in Nat : w = SLIDING_WINDOW_SIZE
    BY WindowAssumption
  <2>2. SummaryTokens + (w + 1) * (LabelTokens + size) <= MAX_CONTEXT_TOKENS
    BY <2>1 DEF WindowFits
  <2>3. PICK l \in Nat : l = LabelTokens + size
    BY <1>1
  <2>4. (w + 1) * l = w * l + l /\ w * l \in Nat
    OBVIOUS
  <2>5. QED
    BY <1>1, <2>2, <2>3, <2>4
<1>3. MAX_CONTEXT_TOKENS \in Bounds
  BY <1>1, <1>2
<1>4. PICK n \in Bounds : \A j \in Bounds : n <= j
  <2>1. Bounds \subseteq Nat /\ Bounds # {}
    BY <1>3
  <2> HIDE DEF Bounds
  <2>2. QED
    BY <2>1, LeastNumber
<1>5. n \in Sizes
  <2>1. SUFFICES ASSUME n \notin Sizes PROVE FALSE
    OBVIOUS
  <2>2. \A size \in Sizes : size <= n /\ size # n /\ size \in Nat
    BY <1>1, <1>4, <2>1
  <2>3. \A size \in Sizes : size <= n - 1
    BY <1>4, <2>2
  <2>4. n - 1 \in Nat
    BY <1>4, <2>2
  <2>5. n - 1 \in Bounds
    BY <2>3, <2>4
  <2>6. QED
    BY <1>4, <2>4, <2>5
<1>6. QED
  BY <1>4, <1>5

\* A prompt that keeps no more than a window costs no more than the limit
\* leaves room for.
LEMMA BoundedPromptFits ==
    ASSUME WindowFits, NEW strategy \in Strategies, NEW h \in Seq(Messages),
           NEW m \in Messages, Kept(strategy, h) <= SLIDING_WINDOW_SIZE
    PROVE  CountTokens(Prepared(strategy, h, m)) <= MAX_CONTEXT_TOKENS
<1>1. PICK p, s, k : /\ p = Prepared(strategy, h, m)
                     /\ s = SummaryLength(strategy, h) /\ k = Kept(strategy, h)
  OBVIOUS
<1>2. s \in {0, 1} /\ k \in Nat /\ k <= Len(h) /\ Len(h) \in Nat
  BY <1>1, KeptType
<1>3. PICK w \in Nat : w = SLIDING_WINDOW_SIZE
  BY WindowAssumption
<1>4. k <= w
  BY <1>1, <1>3
<1>5. PICK longest \in Sizes : \A size \in Sizes : size <= longest
  <2>1. m.size \in Sizes
    BY DEF Messages
  <2>2. QED
    BY <2>1, LongestSize
<1>6. PICK l \in Nat : l = LabelTokens + longest
  BY TokenAssumption
<1>7. SummaryTokens + (w + 1) * l <= MAX_CONTEXT_TOKENS
  BY <1>3, <1>6 DEF WindowFits
<1>8. Shaped(p, strategy, h, m)
  BY <1>1, PromptShape
<1>9. /\ DOMAIN p = 1 .. s + k + 1
      /\ \A i \in 1 .. s : p[i].line = "Summary"
      /\ \A i \in s + 1 .. s + k + 1 :
           /\ p[i].line # "Summary"
           /\ p[i].message = Append(h, m)[Len(h) - k + (i - s)]
  BY <1>1, <1>8 DEF Shaped
<1>10. PICK f : f = [i \in DOMAIN p |-> LineTokens(p[i])]
  OBVIOUS
<1>11. ASSUME NEW i \in 1 .. s PROVE i \in DOMAIN p /\ f[i] = SummaryTokens
  <2>1. i \in DOMAIN p
    BY <1>2, <1>9
  <2>2. QED
    BY <1>9, <1>10, <2>1 DEF LineTokens
<1>12. ASSUME NEW i \in s + 1 .. s + k + 1
       PROVE  i \in DOMAIN p /\ f[i] \in Nat /\ f[i] <= l
  <2>1. i \in DOMAIN p
    BY <1>2, <1>9
  <2>2. Append(h, m) \in Seq(Messages) /\ Len(Append(h, m)) = Len(h) + 1
    OBVIOUS
  <2>3. Len(h) - k + (i - s) \in 1 .. Len(h) + 1
    BY <1>2
  <2>4. p[i].message \in Messages
    BY <1>9, <2>2, <2>3
  <2>5. p[i].message.size \in Sizes
    BY <2>4 DEF Messages
  <2>6. f[i] = LabelTokens + p[i].message.size
    BY <1>9, <1>10, <2>1 DEF LineTokens
  <2>7. PICK z \in Sizes : z = p[i].message.size
    BY <2>5
  <2>8. z \in Nat /\ longest \in Nat /\ z <= longest /\ LabelTokens \in Nat
    BY <1>5, TokenAssumption
  <2>9. LabelTokens + z \in Nat /\ LabelTokens + z <= l
    BY <1>6, <2>8
  <2>10. QED
    BY <2>1, <2>6, <2>7, <2>9
<1>13. PICK V : V = s + 1 .. s + k + 1
  OBVIOUS
<1>14. IsFiniteSet(V) /\ Cardinality(V) = k + 1
  <2>1. PICK a, b \in Int : a = s + 1 /\ b = s + k + 1
    BY <1>2
  <2>2. IsFiniteSet(a..b) /\ Cardinality(a..b) = IF a > b THEN 0 ELSE b - a + 1
    BY FS_Interval
  <2>3. ~(a > b) /\ b - a + 1 = k + 1
    BY <1>2, <2>1
  <2>4. QED
    BY <1>13, <2>1, <2>2, <2>3
<1>15. PICK total : total = SumFunctionOnSet(f, V)
  OBVIOUS
<1>16. total \in Nat /\ total <= l * (k + 1)
  <2>1. \A x \in V : f[x] \in Nat /\ f[x] <= l
    BY <1>12, <1>13
  <2>2. SumFunctionOnSet(f, V) \in Nat /\ SumFunctionOnSet(f, V) <= l * Cardinality(V)
    BY <1>14, <2>1, SumBounded
  <2>3. QED
    BY <1>14, <1>15, <2>2
<1>17. l * (k + 1) <= (w + 1) * l
  <2>1. PICK d \in Nat : w = k + d
    BY <1>2, <1>4
  <2>2. (w + 1) * l = l * (k + 1) + d * l /\ d * l \in Nat /\ l * (k + 1) \in Nat
    BY <1>2, <2>1
  <2>3. QED
    BY <2>2
<1>18. CountTokens(p) <= SummaryTokens + total
  <2>1. CountTokens(p) = SumFunctionOnSet(f, 1 .. s + k + 1)
    BY <1>9, <1>10 DEF CountTokens
  <2>2. CASE s = 0
    <3>1. V = 1 .. s + k + 1
      BY <1>13, <2>2
    <3>2. QED
      BY <1>15, <1>16, <2>1, <3>1, TokenAssumption
  <2>3. CASE s = 1
    <3>1. 1 .. s + k + 1 = V \cup {1} /\ 1 \notin V
      BY <1>2, <1>13, <2>3
    <3>2. f[1] = SummaryTokens
      BY <1>11, <2>3
    <3>3. \A y \in V \cup {1} : f[y] \in Int
      BY <1>12, <1>13, <3>2, TokenAssumption
    <3>4. SumFunctionOnSet(f, V \cup {1}) = SumFunctionOnSet(f, V) + f[1]
      BY <1>14, <3>1, <3>3, SumInsert
    <3>5. CountTokens(p) = total + SummaryTokens
      BY <1>15, <2>1, <3>1, <3>2, <3>4
    <3>6. QED
      BY <1>16, <3>5, TokenAssumption
  <2>4. QED
    BY <1>2, <2>2, <2>3
<1>19. CountTokens(p) \in Nat
  <2>1. CountTokens(p) = SumFunctionOnSet(f, DOMAIN p)
    BY <1>10 DEF CountTokens
  <2>2. PICK n \in Nat : n = s + k + 1
    BY <1>2
  <2>3. 1 \in Int /\ n \in Int
    OBVIOUS
  <2>4. IsFiniteSet(1 .. n)
    BY <2>3, FS_Interval
  <2>5. \A i \in DOMAIN p : i \in 1 .. s \/ i \in s + 1 .. s + k + 1
    BY <1>2, <1>9
  <2>6. \A i \in DOMAIN p : f[i] \in Nat
    BY <1>11, <1>12, <2>5, TokenAssumption
  <2>7. QED
    BY <1>9, <2>1, <2>2, <2>4, <2>6, SumType
<1>20. QED
  <2>1. PICK A, B, C \in Int : A = CountTokens(p) /\ B = l * (k + 1) /\ C = (w + 1) * l
    BY <1>2, <1>19
  <2>2. A <= SummaryTokens + total /\ total <= B /\ B <= C
        /\ SummaryTokens + C <= MAX_CONTEXT_TOKENS
    BY <1>7, <1>16, <1>17, <1>18, <2>1
  <2>3. A <= MAX_CONTEXT_TOKENS
    BY <1>16, <2>2, TokenAssumption
  <2>4. QED
    BY <1>1, <2>1, <2>3

LEMMA BoundedServe == TurnInv => BoundedStrategiesServe
<1>1. SUFFICES ASSUME TurnInv, WindowFits, Taken, turn.status = 400
               PROVE  /\ turn.strategy # "sliding_window"
                      /\ turn.strategy = "summarized"
                           => Len(turn.sent) <= SUMMARIZATION_THRESHOLD
  BY DEF BoundedStrategiesServe
<1>2. PICK h, m, strategy : h = turn.sent /\ m = turn.message /\ strategy = turn.strategy
  OBVIOUS
<1>3. /\ strategy \in Strategies /\ h \in Seq(Messages) /\ m \in Messages
      /\ ~(CountTokens(Prepared(strategy, h, m)) <= MAX_CONTEXT_TOKENS)
  BY <1>1, <1>2 DEF TurnInv, Numbered
<1>4. ~(Kept(strategy, h) <= SLIDING_WINDOW_SIZE)
  BY <1>1, <1>3, BoundedPromptFits
<1>5. InFull(strategy, h) /\ Kept(strategy, h) = Len(h)
  BY <1>4, WindowAssumption DEF Kept
<1>6. Len(h) \in Nat /\ ~(Len(h) <= SLIDING_WINDOW_SIZE)
  BY <1>3, <1>4, <1>5
<1>7. QED
  BY <1>2, <1>5, <1>6 DEF InFull

\* BoundedStrategiesServe: when the limit leaves room for one window of
\* messages and a summary, no history, however long, is refused under
\* sliding_window, nor under summarized past the threshold.
THEOREM BoundedAlwaysServe == Spec => []BoundedStrategiesServe
BY InvAlways, BoundedServe, PTL
-----------------------------------------------------------------------------
(* Forgetting.                                                             *)

\* The first message a prompt quotes, by its place in the conversation.
LEMMA FirstQuoted ==
    ASSUME NEW strategy \in Strategies, NEW h, Numbered(h),
           NEW m \in Messages, m.at = Len(h) + 1
    PROVE  LET p == Prepared(strategy, h, m) IN
           Min({p[i].message.at : i \in VerbatimLines(p)}) = Len(h) - Kept(strategy, h) + 1
<1>1. h \in Seq(Messages) /\ Len(h) \in Nat /\ \A i \in 1 .. Len(h) : h[i].at = i
  BY DEF Numbered
<1>2. PICK p, s, k : /\ p = Prepared(strategy, h, m)
                     /\ s = SummaryLength(strategy, h) /\ k = Kept(strategy, h)
  OBVIOUS
<1>3. s \in {0, 1} /\ k \in Nat /\ k <= Len(h)
  BY <1>1, <1>2, KeptType
<1>4. Shaped(p, strategy, h, m)
  BY <1>1, <1>2, PromptShape
<1>5. VerbatimLines(p) = s + 1 .. s + k + 1
  BY <1>1, <1>2, <1>4, LinesOfShape
<1>6. ASSUME NEW i \in s + 1 .. s + k + 1
      PROVE  p[i].message.at = Len(h) - k + (i - s)
  <2>1. p[i].message = Append(h, m)[Len(h) - k + (i - s)]
    BY <1>2, <1>4 DEF Shaped
  <2>2. PICK j : j = Len(h) - k + (i - s)
    OBVIOUS
  <2>3. j \in 1 .. Len(h) + 1
    BY <1>1, <1>3, <2>2
  <2>4. Append(h, m)[j].at = j
    BY <1>1, <2>3
  <2>5. QED
    BY <2>1, <2>2, <2>4
<1>7. PICK first, S : /\ first = Len(h) - k + 1
                      /\ S = {p[i].message.at : i \in VerbatimLines(p)}
  OBVIOUS
<1>8. first \in Nat /\ S \subseteq Nat /\ first \in S /\ \A x \in S : first <= x
  <2>1. s + 1 \in s + 1 .. s + k + 1 /\ first = Len(h) - k + ((s + 1) - s) /\ first \in Nat
    BY <1>1, <1>3, <1>7
  <2>2. first \in S
    BY <1>5, <1>6, <1>7, <2>1
  <2>3. ASSUME NEW x \in S PROVE x \in Nat /\ first <= x
    <3>1. PICK i \in s + 1 .. s + k + 1 : x = Len(h) - k + (i - s)
      BY <1>5, <1>6, <1>7
    <3>2. QED
      BY <1>1, <1>3, <1>7, <3>1
  <2>4. QED
    BY <2>1, <2>2, <2>3
<1>9. Min(S) = first
  <2>1. PICK x : x = Min(S)
    OBVIOUS
  <2>2. x \in S /\ \A y \in S : x <= y
    BY <1>8, <2>1 DEF Min
  <2>3. x <= first /\ first <= x /\ x \in Nat
    BY <1>8, <2>2
  <2>4. QED
    BY <1>8, <2>1, <2>3
<1>10. QED
  BY <1>2, <1>7, <1>9

\* A longer history starts no earlier.
LEMMA StartsLater ==
    ASSUME NEW strategy \in Strategies, NEW h \in Seq(Messages), NEW g \in Seq(Messages),
           Len(h) <= Len(g)
    PROVE  Len(g) - Kept(strategy, g) >= Len(h) - Kept(strategy, h)
<1>1. Len(h) \in Nat /\ Len(g) \in Nat
  OBVIOUS
<1>2. QED
  BY <1>1, WindowAssumption DEF Kept, InFull, Strategies

\* ForgottenStaysForgotten: what a turn leaves out or summarises, the next
\* turn does not quote if it has the same strategy.
THEOREM NothingRemembered == Spec => ForgottenStaysForgotten
<1> DEFINE First(t) == Min({t.prompt[i].message.at : i \in VerbatimLines(t.prompt)})
<1>1. ASSUME TurnInv, TurnInv', [Next]_vars, Taken, turn'.strategy = turn.strategy
      PROVE  First(turn') >= First(turn)
  <2>1. PICK h, strategy : h = turn.sent /\ strategy = turn.strategy
    OBVIOUS
  <2>2. /\ strategy \in Strategies /\ Numbered(h) /\ Len(h) <= Len(history)
        /\ First(turn) = Len(h) - Kept(strategy, h) + 1
    <3>1. /\ strategy \in Strategies /\ Numbered(h) /\ Len(h) <= Len(history)
          /\ turn.message \in Messages /\ turn.message.at = Len(h) + 1
          /\ turn.prompt = Prepared(strategy, h, turn.message)
      BY <1>1, <2>1 DEF TurnInv
    <3>2. QED
      BY <3>1, FirstQuoted
  <2>3. h \in Seq(Messages) /\ Len(h) \in Nat /\ Kept(strategy, h) \in Nat
    BY <2>2, KeptType DEF Numbered
  <2>4. CASE UNCHANGED vars
    <3>1. First(turn') = First(turn)
      BY <2>4 DEF vars
    <3>2. QED
      BY <2>2, <2>3, <3>1
  <2>5. CASE Next
    <3>1. PICK message, status : Turn(strategy, message, status)
      <4>1. PICK s, message, status : Turn(s, message, status)
        <5>1. PICK s \in Strategies, size \in Sizes :
                LET message == Message(Len(history) + 1, size) IN
                \/ \E answer \in Sizes :
                      Answer(s, message, Message(Len(history) + 2, answer))
                \/ TooLarge(s, message)
                \/ Fail(s, message)
          BY <2>5 DEF Next
        <5>2. PICK message : message = Message(Len(history) + 1, size)
          OBVIOUS
        <5>3. \E status : Turn(s, message, status)
          BY <5>1, <5>2 DEF Answer, TooLarge, Fail
        <5>4. QED
          BY <5>3
      <4>2. s = strategy
        BY <1>1, <2>1, <4>1 DEF Turn
      <4>3. QED
        BY <4>1, <4>2
    <3>2. PICK g : g = history
      OBVIOUS
    <3>3. /\ turn'.sent = g /\ turn'.message = message
          /\ turn'.prompt = Prepared(strategy, g, message)
      BY <3>1, <3>2 DEF Turn
    <3>4. Numbered(g)
      BY <1>1, <3>2 DEF TurnInv
    <3>5. Taken'
      BY <3>1 DEF Turn, Taken, NoTurn
    <3>6. message \in Messages /\ message.at = Len(g) + 1
      BY <1>1, <3>3, <3>5 DEF TurnInv
    <3>7. First(turn') = Len(g) - Kept(strategy, g) + 1
      BY <2>2, <3>3, <3>4, <3>6, FirstQuoted
    <3>8. g \in Seq(Messages) /\ Len(g) \in Nat /\ Kept(strategy, g) \in Nat
      BY <2>2, <3>4, KeptType DEF Numbered
    <3>9. Len(g) - Kept(strategy, g) >= Len(h) - Kept(strategy, h)
      BY <2>2, <2>3, <3>2, <3>8, StartsLater
    <3>10. QED
      BY <2>2, <2>3, <3>7, <3>8, <3>9
  <2>6. QED
    BY <1>1, <2>4, <2>5
<1>2. TurnInv /\ TurnInv' /\ [Next]_vars =>
        [Taken /\ turn'.strategy = turn.strategy => First(turn') >= First(turn)]_vars
  BY <1>1
<1>3. QED
  BY <1>2, InvAlways, PTL DEF Spec, ForgottenStaysForgotten
=============================================================================
