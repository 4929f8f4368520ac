-------------------------- MODULE StreamFramesProofs --------------------------
(***************************************************************************)
(* What holds of every stream of frames, however long, with whatever       *)
(* events and usage and wherever the host stops accepting it: its state    *)
(* keeps its shape, a client of the Responses format gets numbered events  *)
(* in which each item has its full life, the usage a stream ends with is   *)
(* the last that was reported, and a stream that ended says what the       *)
(* answer in one piece would.                                              *)
(***************************************************************************)
EXTENDS StreamFrames, TLAPS, WellFoundedInduction

(* Sequences, whatever their elements are.                                 *)
IsSeq(s) == \E S : s \in Seq(S)

LEMMA Joined ==
    ASSUME NEW s, NEW t, IsSeq(s), IsSeq(t)
    PROVE  /\ IsSeq(s \o t) /\ Len(s \o t) = Len(s) + Len(t)
           /\ Len(s) \in Nat /\ Len(t) \in Nat
           /\ \A i \in 1..Len(s) : (s \o t)[i] = s[i]
           /\ \A i \in 1..Len(t) : (s \o t)[Len(s) + i] = t[i]
           /\ \A i \in 1..Len(s \o t) : i \in 1..Len(s) \/ \E k \in 1..Len(t) : i = Len(s) + k
<1>1. PICK S : s \in Seq(S)
  BY DEF IsSeq
<1>2. PICK T : t \in Seq(T)
  BY DEF IsSeq
<1>3. s \in Seq(S \cup T) /\ t \in Seq(S \cup T)
  BY <1>1, <1>2
<1>4. s \o t \in Seq(S \cup T) /\ Len(s \o t) = Len(s) + Len(t) /\ Len(s) \in Nat /\ Len(t) \in Nat
  BY <1>3
<1>5. \A i \in 1..Len(s) : (s \o t)[i] = s[i]
  BY <1>3
<1>6. \A i \in 1..Len(t) : (s \o t)[Len(s) + i] = t[i]
  BY <1>3
<1>7. ASSUME NEW i \in 1..Len(s \o t), i \notin 1..Len(s)
      PROVE  \E k \in 1..Len(t) : i = Len(s) + k
  <2>1. i - Len(s) \in 1..Len(t) /\ i = Len(s) + (i - Len(s))
    BY <1>4, <1>7
  <2> QED
    BY <2>1
<1> QED
  BY <1>4, <1>5, <1>6, <1>7 DEF IsSeq

LEMMA Single ==
    ASSUME NEW x
    PROVE  IsSeq(<<x>>) /\ Len(<<x>>) = 1 /\ <<x>>[1] = x
<1>1. <<x>> \in Seq({x})
  OBVIOUS
<1> QED
  BY <1>1 DEF IsSeq

LEMMA Nothing == IsSeq(<<>>) /\ Len(<<>>) = 0
<1>1. <<>> \in Seq({})
  OBVIOUS
<1> QED
  BY <1>1 DEF IsSeq

LEMMA Listed ==
    ASSUME NEW n \in Nat, NEW f, f = [i \in 1..n |-> f[i]]
    PROVE  IsSeq(f) /\ Len(f) = n
<1> DEFINE S == {f[i] : i \in 1..n}
<1>1. f \in [1..n -> S] /\ DOMAIN f = 1..n
  OBVIOUS
<1> HIDE DEF S
<1>2. f \in Seq(S)
  BY <1>1
<1>3. Len(f) = n
  BY <1>1, <1>2
<1> QED
  BY <1>2, <1>3 DEF IsSeq

-----------------------------------------------------------------------------
(* Induction over the positions of a sequence, by the least one that is    *)
(* missing from a set.                                                     *)
LEMMA LeastNumber ==
    ASSUME NEW T \in SUBSET Nat, T # {}
    PROVE  \E m \in T : \A n \in T : m <= n
<1> DEFINE R == OpToRel(<, Nat)
<1>1. IsWellFoundedOn(R, Nat)
  BY NatLessThanWellFounded
<1>2. \A x, y \in Nat : x < y => <<x, y>> \in R
  BY DEF OpToRel
<1> HIDE DEF R
<1>3. PICK m \in T : \A n \in T : ~ (<<n, m>> \in R)
  BY <1>1, WFMin
<1>4. ASSUME NEW n \in T
      PROVE  m <= n
  <2>1. m \in Nat /\ n \in Nat
    OBVIOUS
  <2>2. ~ (n < m)
    BY <1>2, <1>3, <2>1
  <2> QED
    BY <2>1, <2>2
<1> QED
  BY <1>4

LEMMA EachPosition ==
    ASSUME NEW n \in Nat, NEW T, 0 \in T, \A k \in 1..n : k - 1 \in T => k \in T
    PROVE  \A k \in 0..n : k \in T
<1> DEFINE U == {k \in 0..n : k \notin T}
<1> SUFFICES ASSUME U # {} PROVE FALSE
  OBVIOUS
<1>0. U \in SUBSET Nat
  OBVIOUS
<1> HIDE DEF U
<1>1. PICK m \in U : \A k \in U : m <= k
  BY <1>0, LeastNumber
<1>2. m \in 0..n /\ m \notin T
  BY DEF U
<1>3. m \in 1..n /\ m - 1 \in 0..n
  BY <1>2
<1>4. m - 1 \notin U
  BY <1>1, <1>3
<1> QED
  BY <1>2, <1>3, <1>4 DEF U

-----------------------------------------------------------------------------
(* A recursive function exists, whatever its steps on a set of values.     *)
Follows(g, n, V, first, step) ==
    g \in [0..n -> V] /\ g[0] = first /\ \A k \in 1..n : g[k] = step[k][g[k - 1]]

LEMMA Recursion ==
    ASSUME NEW n \in Nat, NEW V, NEW first \in V, NEW step, step \in [1..n -> [V -> V]]
    PROVE  \E g : Follows(g, n, V, first, step)
<1> DEFINE Reached == {m \in 0..n : \E g : Follows(g, m, V, first, step)}
<1>1. 0 \in Reached
  <2>1. Follows([k \in 0..0 |-> first], 0, V, first, step)
    BY DEF Follows
  <2> QED
    BY <2>1
<1>2. ASSUME NEW m \in 1..n, m - 1 \in Reached
      PROVE  m \in Reached
  <2>1. PICK g : Follows(g, m - 1, V, first, step)
    BY <1>2
  <2> DEFINE h == [k \in 0..m |-> IF k = m THEN step[m][g[m - 1]] ELSE g[k]]
  <2>2. g[m - 1] \in V /\ step[m][g[m - 1]] \in V
    BY <2>1 DEF Follows
  <2>3. h \in [0..m -> V] /\ h[0] = first
    BY <2>1, <2>2 DEF Follows
  <2>4. ASSUME NEW k \in 1..m
        PROVE  h[k] = step[k][h[k - 1]]
    <3>1. CASE k = m
      BY <3>1
    <3>2. CASE k # m
      <4>1. k \in 1..(m - 1) /\ h[k] = g[k] /\ h[k - 1] = g[k - 1]
        BY <3>2
      <4> QED
        BY <2>1, <4>1 DEF Follows
    <3> QED
      BY <3>1, <3>2
  <2> HIDE DEF h
  <2>5. Follows(h, m, V, first, step)
    BY <2>3, <2>4 DEF Follows
  <2> QED
    BY <2>5
<1>3. n \in Reached
  <2>1. n \in 0..n
    OBVIOUS
  <2> HIDE DEF Reached
  <2> QED
    BY <1>1, <1>2, <2>1, EachPosition
<1> QED
  BY <1>3

Usages == [count : [1..5 -> Int], reported : BOOLEAN]

(* usageFromTurnEnded reads one field after the other.                     *)
ReadField(before, field) ==
    IF field.number \notin 1 .. 5 THEN before
    ELSE [count |-> [before.count EXCEPT ![field.number] = field.value], reported |-> TRUE]

ReportSteps(c, fields) ==
    /\ c[0] = NoUsage
    /\ \A k \in 1..Len(fields) : c[k] = ReadField(c[k - 1], fields[k]) /\ c[k - 1] \in Usages
    /\ c[Len(fields)] \in Usages

LEMMA ReportFold ==
    ASSUME NEW fields \in Seq(Field)
    PROVE  \E c : ReportSteps(c, fields) /\ UsageFromTurnEnded(fields) = c[Len(fields)]
<1> DEFINE n == Len(fields)
           Computes(g) == g = [k \in 0..n |-> IF k = 0 THEN NoUsage ELSE ReadField(g[k - 1], fields[k])]
           step == [k \in 1..n |-> [u \in Usages |-> ReadField(u, fields[k])]]
           c == CHOOSE g : Computes(g)
<1>1. n \in Nat
  OBVIOUS
<1>2. ASSUME NEW k \in 1..n, NEW before \in Usages
      PROVE  ReadField(before, fields[k]) \in Usages
  <2>1. fields[k] \in Field
    BY <1>2
  <2>2. fields[k].number \in Nat /\ fields[k].value \in Int
    BY <2>1 DEF Field
  <2>3. before.count \in [1..5 -> Int]
    BY DEF Usages
  <2>4. [before.count EXCEPT ![fields[k].number] = fields[k].value] \in [1..5 -> Int]
    BY <2>2, <2>3
  <2> QED
    BY <2>4 DEF Usages, ReadField
<1>3. NoUsage \in Usages
  BY DEF NoUsage, Usages
<1>4. UsageFromTurnEnded(fields) = c[n]
  BY DEF UsageFromTurnEnded, ReadField
<1> HIDE DEF n
<1>5. \E g : Computes(g)
  <2>1. step \in [1..n -> [Usages -> Usages]]
    BY <1>2
  <2>2. \A k \in 1..n, u \in Usages : step[k][u] = ReadField(u, fields[k])
    OBVIOUS
  <2> HIDE DEF step
  <2>3. PICK g : Follows(g, n, Usages, NoUsage, step)
    BY <1>1, <1>3, <2>1, Recursion
  <2>4. ASSUME NEW k \in 0..n
        PROVE  g[k] = IF k = 0 THEN NoUsage ELSE ReadField(g[k - 1], fields[k])
    <3>1. CASE k = 0
      BY <2>3, <3>1 DEF Follows
    <3>2. CASE k # 0
      <4>1. k \in 1..n /\ k - 1 \in 0..n
        BY <1>1, <3>2
      <4>2. g[k] = step[k][g[k - 1]] /\ g[k - 1] \in Usages
        BY <2>3, <3>2, <4>1 DEF Follows
      <4> QED
        BY <2>2, <3>2, <4>1, <4>2
    <3> QED
      BY <3>1, <3>2
  <2>5. g = [k \in 0..n |-> g[k]]
    BY <2>3 DEF Follows
  <2>6. Computes(g)
    BY <2>4, <2>5
  <2> HIDE DEF Computes
  <2> QED
    BY <2>6
<1>6. Computes(c)
  <2> HIDE DEF Computes
  <2> QED
    BY <1>5
<1> HIDE DEF c
<1>7. c[0] = NoUsage /\ \A k \in 1..n : c[k] = ReadField(c[k - 1], fields[k])
  <2>1. \A k \in 0..n : c[k] = IF k = 0 THEN NoUsage ELSE ReadField(c[k - 1], fields[k])
    BY <1>6
  <2>2. 0 \in 0..n /\ \A k \in 1..n : k \in 0..n /\ k # 0
    BY <1>1
  <2> QED
    BY <2>1, <2>2
<1> DEFINE Typed == {k \in 0..n : c[k] \in Usages}
<1>8. 0 \in Typed
  BY <1>1, <1>3, <1>7
<1>9. ASSUME NEW k \in 1..n, k - 1 \in Typed
      PROVE  k \in Typed
  BY <1>2, <1>7, <1>9
<1> HIDE DEF Typed
<1>10. \A k \in 0..n : k \in Typed
  BY <1>1, <1>8, <1>9, EachPosition
<1>11. \A k \in 0..n : c[k] \in Usages
  BY <1>10 DEF Typed
<1>12. n \in 0..n /\ \A k \in 1..n : k - 1 \in 0..n
  BY <1>1
<1>13. ReportSteps(c, fields)
  BY <1>7, <1>11, <1>12 DEF ReportSteps, n
<1> QED
  BY <1>4, <1>13 DEF n

(* The report of a turn that ended has a count for each field, whatever    *)
(* fields it holds and in whatever order.                                  *)
LEMMA ReportTyped ==
    ASSUME NEW fields \in Seq(Field)
    PROVE  UsageFromTurnEnded(fields) \in Usages
<1>1. PICK c : ReportSteps(c, fields) /\ UsageFromTurnEnded(fields) = c[Len(fields)]
  BY ReportFold
<1> QED
  BY <1>1 DEF ReportSteps

-----------------------------------------------------------------------------
(* A frame that has not been numbered, about an index up to n.             *)
IsFrame(f, n) == f = Frame(f.name, f.index, f.content) /\ f.index \in 0..n

IsFrames(fs, n) == IsSeq(fs) /\ \A i \in 1..Len(fs) : IsFrame(fs[i], n)

(* The frame as it is sent at a position of the stream.                    *)
AsSent(f, at) == IF format = "openai-response" THEN [f EXCEPT !.seq = at] ELSE f

(* What Emit adds to the stream: of the opening, if there is still one to  *)
(* send, and the frames of the event, those the host accepted.             *)
LEMMA Emitted ==
    ASSUME NEW fs, NEW next, IsSeq(out), IsSeq(fs), seq \in Nat, Emit(fs, next)
    PROVE  LET all == Opening \o fs IN
           /\ opened' = TRUE
           /\ seq' = IF format = "openai-response" THEN seq + Len(all) ELSE seq
           /\ IsSeq(out') /\ IsSeq(all)
           /\ \E k \in 0..Len(all) :
                 /\ Len(out') = Len(out) + k
                 /\ \A i \in 1..Len(out) : out'[i] = out[i]
                 /\ \A i \in 1..k : out'[Len(out) + i] = AsSent(all[i], seq + i - 1)
                 /\ phase' = IF k = Len(all) THEN next ELSE "refused"
<1> DEFINE all == Opening \o fs
           sent == Numbered(all)
<1>1. IsSeq(Opening)
  <2>1. CASE opened
    BY <2>1, Nothing DEF Opening
  <2>2. CASE ~ opened /\ format = "openai-response"
    <3> DEFINE a == Frame("response.created", 0, <<>>)
               b == Frame("item.added", 0, "message")
               d == Frame("part.added", 0, <<>>)
    <3>1. Opening = <<a, b, d>>
      BY <2>2 DEF Opening
    <3> HIDE DEF a, b, d
    <3>2. <<a, b, d>> \in Seq({a, b, d})
      OBVIOUS
    <3> QED
      BY <3>1, <3>2 DEF IsSeq
  <2>3. CASE ~ opened /\ format # "openai-response"
    BY <2>3, Single DEF Opening
  <2> QED
    BY <2>1, <2>2, <2>3
<1>2. IsSeq(all) /\ Len(all) \in Nat
  BY <1>1, Joined, Nothing
<1>3. PICK k \in 0..Len(sent) :
         /\ out' = out \o SubSeq(sent, 1, k)
         /\ phase' = IF k = Len(sent) THEN next ELSE "refused"
  BY DEF Emit
<1>4. opened' = TRUE /\ seq' = IF format = "openai-response" THEN seq + Len(sent) ELSE seq
  BY DEF Emit
<1> HIDE DEF all
<1>5. /\ IsSeq(sent) /\ Len(sent) = Len(all)
      /\ \A i \in 1..Len(all) : sent[i] = AsSent(all[i], seq + i - 1)
  <2>1. CASE format # "openai-response"
    BY <1>2, <2>1 DEF Numbered, AsSent
  <2>2. CASE format = "openai-response"
    <3>1. PICK S : all \in Seq(S)
      BY <1>2 DEF IsSeq
    <3>2. DOMAIN all = 1..Len(all)
      BY <3>1
    <3>3. sent = [i \in 1..Len(all) |-> [all[i] EXCEPT !.seq = seq + i - 1]]
      BY <2>2, <3>2 DEF Numbered
    <3>4. sent = [i \in 1..Len(all) |-> sent[i]] /\ \A i \in 1..Len(all) : sent[i] = [all[i] EXCEPT !.seq = seq + i - 1]
      BY <3>3
    <3>5. IsSeq(sent) /\ Len(sent) = Len(all)
      <4> HIDE DEF sent
      <4> QED
        BY <1>2, <3>4, Listed
    <3> QED
      BY <2>2, <3>4, <3>5 DEF AsSent
  <2> QED
    BY <2>1, <2>2
<1> HIDE DEF sent
<1>6. PICK S : sent \in Seq(S)
  BY <1>5 DEF IsSeq
<1>7. /\ SubSeq(sent, 1, k) \in Seq(S) /\ Len(SubSeq(sent, 1, k)) = k
      /\ \A i \in 1..k : SubSeq(sent, 1, k)[i] = sent[i]
  BY <1>2, <1>3, <1>5, <1>6
<1> DEFINE told == SubSeq(sent, 1, k)
<1>8. IsSeq(told)
  BY <1>7 DEF IsSeq
<1>9. IsSeq(out') /\ Len(out') = Len(out) + k
  <2> HIDE DEF told
  <2>1. IsSeq(out \o told) /\ Len(out \o told) = Len(out) + Len(told)
    BY <1>8, Joined
  <2> QED
    BY <1>3, <1>7, <2>1 DEF told
<1>10. \A i \in 1..Len(out) : out'[i] = out[i]
  <2> HIDE DEF told
  <2>1. \A i \in 1..Len(out) : (out \o told)[i] = out[i]
    BY <1>8, Joined
  <2> QED
    BY <1>3, <2>1 DEF told
<1>11. \A i \in 1..k : out'[Len(out) + i] = AsSent(all[i], seq + i - 1)
  <2>1. \A i \in 1..k : told[i] = AsSent(all[i], seq + i - 1)
    BY <1>2, <1>3, <1>5, <1>7
  <2>2. Len(told) = k
    BY <1>7
  <2> HIDE DEF told
  <2>3. \A i \in 1..Len(told) : (out \o told)[Len(out) + i] = told[i]
    BY <1>8, Joined
  <2> QED
    BY <1>3, <2>1, <2>2, <2>3 DEF told
<1>12. k \in 0..Len(all) /\ phase' = IF k = Len(all) THEN next ELSE "refused"
  BY <1>3, <1>5
<1>13. seq' = IF format = "openai-response" THEN seq + Len(all) ELSE seq
  BY <1>4, <1>5
<1> QED
  BY <1>2, <1>4, <1>9, <1>10, <1>11, <1>12, <1>13 DEF all

(* The type invariant, with the types of what the prover needs to know.    *)
FramesOK(frames, n) ==
    IsSeq(frames) /\ \A i \in 1..Len(frames) : frames[i].index \in 0..n /\ frames[i].seq \in Nat

PiecesOK ==
    /\ text \in Seq(1..Len(events)) /\ reasoning \in Seq(1..Len(events))
    /\ toolCalls \in Seq(1..Len(events)) /\ Len(toolCalls) <= Len(events)
    /\ toolIdx \in 0..Len(events)

TypeInv ==
    /\ format \in Formats /\ phase \in {"open", "done", "broken", "refused"}
    /\ IsSeq(events) /\ Len(events) <= MaxEvents
    /\ opened \in BOOLEAN /\ seq \in Nat
    /\ FramesOK(out, Len(events)) /\ PiecesOK
    /\ usage \in Usages

LEMMA OneMore ==
    ASSUME NEW n \in Nat, NEW s \in Seq(1..n)
    PROVE  s \in Seq(1..(n + 1)) /\ Append(s, n + 1) \in Seq(1..(n + 1))
<1>1. 1..n \subseteq 1..(n + 1)
  OBVIOUS
<1>2. s \in Seq(1..(n + 1))
  BY <1>1
<1> QED
  BY <1>2

LEMMA PiecesGrow ==
    ASSUME TypeInv, Len(events) \in Nat
    PROVE  LET n == Len(events) + 1 IN
           /\ text \in Seq(1..n) /\ reasoning \in Seq(1..n) /\ toolCalls \in Seq(1..n)
           /\ Append(text, n) \in Seq(1..n) /\ Append(reasoning, n) \in Seq(1..n)
           /\ Append(toolCalls, n) \in Seq(1..n) /\ Len(Append(toolCalls, n)) <= n
           /\ toolIdx \in 0..n /\ toolIdx + 1 \in 0..n /\ Len(toolCalls) <= n
<1>1. text \in Seq(1..Len(events)) /\ reasoning \in Seq(1..Len(events))
  BY DEF TypeInv, PiecesOK
<1>2. toolCalls \in Seq(1..Len(events)) /\ Len(toolCalls) <= Len(events) /\ toolIdx \in 0..Len(events)
  BY DEF TypeInv, PiecesOK
<1>3. Len(Append(toolCalls, Len(events) + 1)) = Len(toolCalls) + 1 /\ Len(toolCalls) \in Nat
  BY <1>2
<1> QED
  BY <1>1, <1>2, <1>3, OneMore

LEMMA Consumed ==
    ASSUME TypeInv, NEW e, Consume(e)
    PROVE  /\ format' = format /\ phase = "open"
           /\ IsSeq(events') /\ Len(events) \in Nat
           /\ Len(events') = Len(events) + 1 /\ Len(events') <= MaxEvents
<1>1. PICK S : events \in Seq(S)
  BY DEF TypeInv, IsSeq
<1>2. events \in Seq(S \cup {e}) /\ Len(events) \in Nat
  BY <1>1
<1>3. events' = Append(events, e) /\ Len(events) < MaxEvents /\ format' = format /\ phase = "open"
  BY DEF Consume
<1>4. Append(events, e) \in Seq(S \cup {e}) /\ Len(Append(events, e)) = Len(events) + 1
  BY <1>2
<1> QED
  BY <1>2, <1>3, <1>4, StreamFramesAssumption DEF IsSeq

LEMMA OpeningFrames == IsFrames(Opening, 0)
<1>1. CASE opened
  BY <1>1, Nothing DEF Opening, IsFrames
<1>2. CASE ~ opened /\ format = "openai-response"
  <2> DEFINE a == Frame("response.created", 0, <<>>)
             b == Frame("item.added", 0, "message")
             d == Frame("part.added", 0, <<>>)
  <2>1. IsFrame(a, 0) /\ IsFrame(b, 0) /\ IsFrame(d, 0)
    BY DEF IsFrame, Frame
  <2>2. Opening = <<a, b, d>>
    BY <1>2 DEF Opening
  <2> HIDE DEF a, b, d
  <2>3. <<a, b, d>> \in Seq({a, b, d})
    OBVIOUS
  <2>4. \A i \in 1..Len(<<a, b, d>>) : <<a, b, d>>[i] \in {a, b, d}
    BY <2>3
  <2> QED
    BY <2>1, <2>2, <2>3, <2>4 DEF IsSeq, IsFrames
<1>3. CASE ~ opened /\ format # "openai-response"
  <2>1. Opening = <<Frame("start", 0, <<>>)>>
    BY <1>3 DEF Opening
  <2>2. IsFrame(Frame("start", 0, <<>>), 0)
    BY DEF IsFrame, Frame
  <2>3. \A i \in 1..1 : i = 1
    OBVIOUS
  <2> QED
    BY <2>1, <2>2, <2>3, Single DEF IsFrames
<1> QED
  BY <1>1, <1>2, <1>3

(* Emitting frames about indices that exist keeps the stream in shape.     *)
LEMMA EmitTyped ==
    ASSUME TypeInv, NEW e, Consume(e), NEW fs, IsFrames(fs, Len(events) + 1),
           NEW next \in {"open", "done"}, Emit(fs, next)
    PROVE  /\ opened' \in BOOLEAN /\ seq' \in Nat
           /\ phase' \in {"open", "done", "broken", "refused"}
           /\ FramesOK(out', Len(events'))
<1> DEFINE all == Opening \o fs
           n == Len(events) + 1
<1>1. IsSeq(out) /\ IsSeq(fs) /\ seq \in Nat /\ Len(events) \in Nat /\ Len(events') = n
  BY Consumed DEF TypeInv, FramesOK, IsFrames
<1>2. IsSeq(Opening)
  BY OpeningFrames DEF IsFrames
<1>3. /\ opened' = TRUE
      /\ seq' = IF format = "openai-response" THEN seq + Len(all) ELSE seq
      /\ IsSeq(out') /\ IsSeq(all)
  BY <1>1, Emitted
<1>4. PICK k \in 0..Len(all) :
         /\ Len(out') = Len(out) + k
         /\ \A i \in 1..Len(out) : out'[i] = out[i]
         /\ \A i \in 1..k : out'[Len(out) + i] = AsSent(all[i], seq + i - 1)
         /\ phase' = IF k = Len(all) THEN next ELSE "refused"
  BY <1>1, Emitted
<1>5. Len(all) \in Nat /\ Len(out) \in Nat
  BY <1>1, <1>2, Joined
<1>6. ASSUME NEW i \in 1..Len(all)
      PROVE  IsFrame(all[i], n)
  <2>1. CASE i \in 1..Len(Opening)
    <3>1. all[i] = Opening[i]
      BY <1>1, <1>2, <2>1, Joined
    <3>2. IsFrame(Opening[i], 0)
      BY <2>1, OpeningFrames DEF IsFrames
    <3> HIDE DEF all
    <3>3. 0..0 \subseteq 0..n
      BY <1>1
    <3>4. IsFrame(Opening[i], n)
      BY <3>2, <3>3 DEF IsFrame
    <3> HIDE DEF n
    <3> QED
      BY <3>1, <3>4
  <2>2. CASE i \notin 1..Len(Opening)
    <3>1. PICK j \in 1..Len(fs) : i = Len(Opening) + j
      <4>1. Len(all) = Len(Opening) + Len(fs) /\ Len(Opening) \in Nat /\ Len(fs) \in Nat
        BY <1>1, <1>2, Joined
      <4> HIDE DEF all
      <4>2. i - Len(Opening) \in 1..Len(fs) /\ i = Len(Opening) + (i - Len(Opening))
        BY <2>2, <4>1
      <4> QED
        BY <4>2
    <3>2. all[i] = fs[j]
      <4>1. \A l \in 1..Len(fs) : all[Len(Opening) + l] = fs[l]
        BY <1>1, <1>2, Joined
      <4> HIDE DEF all
      <4> QED
        BY <3>1, <4>1
    <3> QED
      BY <3>2 DEF IsFrames
  <2> QED
    BY <2>1, <2>2
<1> HIDE DEF all
<1>7. ASSUME NEW i \in 1..Len(out')
      PROVE  out'[i].index \in 0..n /\ out'[i].seq \in Nat
  <2>1. CASE i \in 1..Len(out)
    <3>1. out[i].index \in 0..Len(events) /\ out[i].seq \in Nat
      BY <2>1 DEF TypeInv, FramesOK
    <3>2. out'[i] = out[i]
      BY <1>4, <2>1
    <3> QED
      BY <1>1, <3>1, <3>2
  <2>2. CASE i \notin 1..Len(out)
    <3> DEFINE j == i - Len(out)
    <3>1. j \in 1..k /\ i = Len(out) + j
      BY <1>4, <1>5, <2>2
    <3>2. out'[i] = AsSent(all[j], seq + j - 1) /\ IsFrame(all[j], n)
      BY <1>4, <1>5, <1>6, <3>1
    <3>3. seq + j - 1 \in Nat
      BY <1>1, <3>1
    <3> HIDE DEF j
    <3> QED
      BY <1>1, <3>2, <3>3 DEF IsFrame, AsSent, Frame
  <2> QED
    BY <2>1, <2>2
<1>8. FramesOK(out', n)
  BY <1>3, <1>7 DEF FramesOK
<1> QED
  BY <1>1, <1>3, <1>4, <1>5, <1>8

LEMMA TypeInit == Init => TypeInv
<1> SUFFICES ASSUME Init PROVE TypeInv
  OBVIOUS
<1>1. FramesOK(out, Len(events)) /\ IsSeq(events) /\ Len(events) = 0
  BY Nothing DEF Init, FramesOK
<1>2. PiecesOK
  BY DEF Init, PiecesOK
<1>3. usage \in Usages
  BY DEF Init, NoUsage, Usages
<1>4. Len(events) <= MaxEvents
  BY <1>1, StreamFramesAssumption
<1>5. format \in Formats /\ phase = "open" /\ opened \in BOOLEAN /\ seq \in Nat
  BY DEF Init
<1> QED
  BY <1>1, <1>2, <1>3, <1>4, <1>5 DEF TypeInv

LEMMA OneFrame ==
    ASSUME NEW f, NEW n, IsFrame(f, n)
    PROVE  IsFrames(<<f>>, n)
<1>1. \A i \in 1..1 : i = 1
  OBVIOUS
<1> QED
  BY <1>1, Single DEF IsFrames

LEMMA FourFrames ==
    ASSUME NEW a, NEW b, NEW c, NEW d, NEW n,
           IsFrame(a, n), IsFrame(b, n), IsFrame(c, n), IsFrame(d, n)
    PROVE  IsFrames(<<a, b, c, d>>, n)
<1>1. <<a, b, c, d>> \in Seq({a, b, c, d})
  OBVIOUS
<1>2. \A i \in 1..Len(<<a, b, c, d>>) : <<a, b, c, d>>[i] \in {a, b, c, d}
  BY <1>1
<1> QED
  BY <1>1, <1>2 DEF IsSeq, IsFrames

LEMMA Added ==
    ASSUME NEW count \in [1..5 -> Int], NEW tokens \in Int
    PROVE  [count EXCEPT ![Output] = @ + tokens] \in [1..5 -> Int]
<1>1. Output \in 1..5 /\ count[Output] + tokens \in Int
  BY DEF Output
<1> HIDE DEF Output
<1> QED
  BY <1>1

LEMMA ObserveTyped ==
    ASSUME NEW u \in Usages, NEW e \in UsageEvents
    PROVE  Observe(u, e) \in Usages
<1>1. ASSUME NEW n \in TokenDeltas, e = TokenDelta(n)
      PROVE  Observe(u, e) \in Usages
  <2>1. n \in Int /\ u.count \in [1..5 -> Int] /\ u.reported \in BOOLEAN
    BY StreamFramesAssumption DEF Usages
  <2>2. u.count[Output] \in Int
    BY <2>1 DEF Output
  <2>3. [u EXCEPT !.count[Output] = @ + n] = [count |-> [u.count EXCEPT ![Output] = @ + n], reported |-> u.reported]
    BY DEF Usages
  <2>4. [u.count EXCEPT ![Output] = @ + n] \in [1..5 -> Int]
    BY <2>1, <2>2, Added
  <2>5. [u EXCEPT !.count[Output] = @ + n] \in Usages
    BY <2>1, <2>3, <2>4 DEF Usages
  <2>6. e.tokens = n /\ e.usage = NoUsage
    BY <1>1 DEF TokenDelta
  <2> QED
    BY <2>5, <2>6 DEF Observe, NoUsage
<1>2. ASSUME NEW fields \in WellFormed, e = TurnEnded(fields)
      PROVE  Observe(u, e) \in Usages
  <2>1. fields \in Seq(Field)
    BY StreamFramesAssumption DEF WellFormed
  <2>2. UsageFromTurnEnded(fields) \in Usages
    BY <2>1, ReportTyped
  <2>3. e.usage = UsageFromTurnEnded(fields) /\ e.tokens = 0
    BY <1>2 DEF TurnEnded
  <2>4. u.count \in [1..5 -> Int] /\ u.reported \in BOOLEAN /\ u = [count |-> u.count, reported |-> u.reported]
    BY DEF Usages
  <2>5. [u EXCEPT !.count[Output] = @ + 0] \in Usages
    <3>1. u.count[Output] \in Int
      BY <2>4 DEF Output
    <3>2. [u EXCEPT !.count[Output] = @ + 0] = [count |-> [u.count EXCEPT ![Output] = @ + 0], reported |-> u.reported]
      BY <2>4
    <3>3. [u.count EXCEPT ![Output] = @ + 0] \in [1..5 -> Int]
      BY <2>4, <3>1, Added
    <3> QED
      BY <2>4, <3>2, <3>3 DEF Usages
  <2> QED
    BY <2>2, <2>3, <2>5 DEF Observe
<1> QED
  BY <1>1, <1>2 DEF UsageEvents

LEMMA TypeStep ==
    ASSUME TypeInv, [Next]_framesVars
    PROVE  TypeInv'
<1> DEFINE n == Len(events)
<1>0. n \in Nat
  <2>1. PICK S : events \in Seq(S)
    BY DEF TypeInv, IsSeq
  <2> QED
    BY <2>1
<1>1. ASSUME NEW e \in UsageEvents, Usage(e)
      PROVE  TypeInv'
  <2>1. Consume(e) /\ usage' = Observe(usage, e)
    BY <1>1 DEF Usage
  <2>2. usage' \in Usages
    BY <2>1, ObserveTyped DEF TypeInv
  <2>3. /\ format' = format /\ IsSeq(events')
        /\ Len(events') = n + 1 /\ Len(events') <= MaxEvents
    BY <2>1, Consumed
  <2>4. UNCHANGED <<phase, out, opened, toolIdx, seq, text, reasoning, toolCalls>>
    BY <1>1 DEF Usage
  <2>5. PiecesOK'
    BY <1>0, <2>3, <2>4, PiecesGrow DEF PiecesOK
  <2>6. FramesOK(out', n + 1)
    <3>1. \A m \in 0..n : m \in 0..(n + 1)
      BY <1>0
    <3> QED
      BY <2>4, <3>1 DEF TypeInv, FramesOK
  <2> QED
    BY <2>2, <2>3, <2>4, <2>5, <2>6 DEF TypeInv
<1>2. CASE TextDelta
  <2> DEFINE f == Frame("text", 0, This)
  <2>1. Consume([type |-> "text"]) /\ Emit(<<f>>, "open")
    BY <1>2 DEF TextDelta
  <2>2. /\ text' = IF format = "openai-response" THEN Append(text, n + 1) ELSE text
        /\ UNCHANGED <<toolIdx, reasoning, toolCalls, usage>>
    BY <1>2 DEF TextDelta, This
  <2>3. IsFrame(f, n + 1)
    BY <1>0 DEF IsFrame, Frame
  <2> HIDE DEF f
  <2>4. IsFrames(<<f>>, n + 1)
    BY <2>3, OneFrame
  <2>5. /\ opened' \in BOOLEAN /\ seq' \in Nat
        /\ phase' \in {"open", "done", "broken", "refused"} /\ FramesOK(out', Len(events'))
    BY <2>1, <2>4, EmitTyped
  <2>6. /\ format' = format /\ IsSeq(events')
        /\ Len(events') = n + 1 /\ Len(events') <= MaxEvents
    BY <2>1, Consumed
  <2>7. PiecesOK'
    BY <1>0, <2>2, <2>6, PiecesGrow DEF PiecesOK
  <2> QED
    BY <2>2, <2>5, <2>6, <2>7 DEF TypeInv
<1>3. CASE ThinkingDelta
  <2> DEFINE f == Frame("thinking", 0, This)
             fs == IF format = "openai-response" THEN <<>> ELSE <<f>>
  <2>1. Consume([type |-> "thinking"]) /\ Emit(fs, "open")
    BY <1>3 DEF ThinkingDelta
  <2>2. /\ reasoning' = IF format = "openai-response" THEN Append(reasoning, n + 1) ELSE reasoning
        /\ UNCHANGED <<toolIdx, text, toolCalls, usage>>
    BY <1>3 DEF ThinkingDelta, This
  <2>3. IsFrame(f, n + 1)
    BY <1>0 DEF IsFrame, Frame
  <2> HIDE DEF f
  <2>4. IsFrames(fs, n + 1)
    BY <2>3, OneFrame, Nothing DEF IsFrames
  <2> HIDE DEF fs
  <2>5. /\ opened' \in BOOLEAN /\ seq' \in Nat
        /\ phase' \in {"open", "done", "broken", "refused"} /\ FramesOK(out', Len(events'))
    BY <2>1, <2>4, EmitTyped
  <2>6. /\ format' = format /\ IsSeq(events')
        /\ Len(events') = n + 1 /\ Len(events') <= MaxEvents
    BY <2>1, Consumed
  <2>7. PiecesOK'
    BY <1>0, <2>2, <2>6, PiecesGrow DEF PiecesOK
  <2> QED
    BY <2>2, <2>5, <2>6, <2>7 DEF TypeInv
<1>4. CASE ToolCall
  <2> DEFINE f == Frame("tool", IF format = "claude" THEN toolIdx + 1 ELSE toolIdx, This)
  <2>1. Consume([type |-> "tool_call"]) /\ Emit(<<f>>, "open")
    BY <1>4 DEF ToolCall
  <2>2. toolIdx' = toolIdx + 1 /\ UNCHANGED <<text, reasoning, toolCalls, usage>>
    BY <1>4 DEF ToolCall
  <2>3. IsFrame(f, n + 1)
    BY <1>0 DEF IsFrame, Frame, TypeInv, PiecesOK
  <2> HIDE DEF f
  <2>4. IsFrames(<<f>>, n + 1)
    BY <2>3, OneFrame
  <2>5. /\ opened' \in BOOLEAN /\ seq' \in Nat
        /\ phase' \in {"open", "done", "broken", "refused"} /\ FramesOK(out', Len(events'))
    BY <2>1, <2>4, EmitTyped
  <2>6. /\ format' = format /\ IsSeq(events')
        /\ Len(events') = n + 1 /\ Len(events') <= MaxEvents
    BY <2>1, Consumed
  <2>7. PiecesOK'
    BY <1>0, <2>2, <2>6, PiecesGrow DEF PiecesOK
  <2> QED
    BY <2>2, <2>5, <2>6, <2>7 DEF TypeInv
<1>5. CASE ResponseToolCall
  <2> DEFINE fs == ToolItem(Len(toolCalls'), This)
  <2>1. Consume([type |-> "tool_call"]) /\ Emit(fs, "open")
    BY <1>5 DEF ResponseToolCall
  <2>2. toolCalls' = Append(toolCalls, n + 1) /\ UNCHANGED <<toolIdx, text, reasoning, usage>>
    BY <1>5 DEF ResponseToolCall, This
  <2>3. toolCalls \in Seq(1..n) /\ Len(toolCalls) \in 0..n
    BY <1>0 DEF TypeInv, PiecesOK
  <2>4. Len(toolCalls') = Len(toolCalls) + 1
    BY <2>2, <2>3
  <2>5. Len(toolCalls') \in 0..(n + 1)
    BY <1>0, <2>3, <2>4
  <2>6. ASSUME NEW at \in 0..(n + 1), NEW call
        PROVE  IsFrames(ToolItem(at, call), n + 1)
    <3>1. /\ IsFrame(Frame("item.added", at, "call"), n + 1)
          /\ IsFrame(Frame("input.delta", at, call), n + 1)
          /\ IsFrame(Frame("input.done", at, call), n + 1)
          /\ IsFrame(Frame("item.done", at, <<call>>), n + 1)
      BY DEF IsFrame, Frame
    <3> QED
      BY <3>1, FourFrames DEF ToolItem
  <2>7. IsFrames(fs, n + 1)
    BY <2>5, <2>6
  <2> HIDE DEF fs
  <2>8. /\ opened' \in BOOLEAN /\ seq' \in Nat
        /\ phase' \in {"open", "done", "broken", "refused"} /\ FramesOK(out', Len(events'))
    BY <2>1, <2>7, EmitTyped
  <2>9. /\ format' = format /\ IsSeq(events')
        /\ Len(events') = n + 1 /\ Len(events') <= MaxEvents
    BY <2>1, Consumed
  <2>10. PiecesOK'
    BY <1>0, <2>2, <2>9, PiecesGrow DEF PiecesOK
  <2> QED
    BY <2>2, <2>8, <2>9, <2>10 DEF TypeInv
<1>6. CASE Done
  <2> DEFINE answer == [outputs |-> <<text>> \o CallItems(toolCalls),
                        usage |-> UsageBlock(format, usage)]
             report == [tools |-> StopReason = "tool_calls", usage |-> UsageBlock(format, usage)]
             a == Frame("text.done", 0, text)
             b == Frame("part.done", 0, text)
             c == Frame("item.done", 0, text)
             d == Frame("completed", 0, answer)
             f == Frame("final", 0, report)
             fs == IF format = "openai-response" THEN <<a, b, c, d>> ELSE <<f>>
  <2>1. Consume([type |-> "done", reason |-> StopReason]) /\ UNCHANGED <<toolIdx, text, reasoning, toolCalls, usage>>
    BY <1>6 DEF Done
  <2>2. Emit(fs, "done")
    BY <1>6 DEF Done
  <2> HIDE DEF answer, report
  <2>3. /\ IsFrame(a, n + 1) /\ IsFrame(b, n + 1) /\ IsFrame(c, n + 1)
        /\ IsFrame(d, n + 1) /\ IsFrame(f, n + 1)
    BY <1>0 DEF IsFrame, Frame
  <2> HIDE DEF a, b, c, d, f
  <2>4. IsFrames(fs, n + 1)
    BY <2>3, OneFrame, FourFrames
  <2> HIDE DEF fs
  <2>5. /\ opened' \in BOOLEAN /\ seq' \in Nat
        /\ phase' \in {"open", "done", "broken", "refused"} /\ FramesOK(out', Len(events'))
    BY <2>2, <2>1, <2>4, EmitTyped
  <2>6. /\ format' = format /\ IsSeq(events')
        /\ Len(events') = n + 1 /\ Len(events') <= MaxEvents
    BY <2>1, Consumed
  <2>7. PiecesOK'
    BY <1>0, <2>1, <2>6, PiecesGrow DEF PiecesOK
  <2> QED
    BY <2>1, <2>5, <2>6, <2>7 DEF TypeInv
<1>7. CASE TurnBreaks
  BY <1>7 DEF TurnBreaks, stateVars, TypeInv, FramesOK, PiecesOK
<1>8. CASE UNCHANGED framesVars
  BY <1>8 DEF framesVars, stateVars, TypeInv, FramesOK, PiecesOK
<1> QED
  BY <1>1, <1>2, <1>3, <1>4, <1>5, <1>6, <1>7, <1>8 DEF Next

LEMMA TypeInvariance == Spec => []TypeInv
  BY TypeInit, TypeStep, PTL DEF Spec

(* The state of a stream keeps its shape, whatever the events: every frame *)
(* is about an output index there can be by then, and every piece that is  *)
(* kept was brought by an event (streamState).                             *)
THEOREM FramesTypeCorrect == Spec => []TypeOK
<1>1. TypeInv => TypeOK
  <2> SUFFICES ASSUME TypeInv PROVE TypeOK
    OBVIOUS
  <2>1. PICK S : events \in Seq(S)
    BY DEF TypeInv, IsSeq
  <2>2. PICK R : out \in Seq(R)
    BY DEF TypeInv, FramesOK, IsSeq
  <2>3. DOMAIN events = 1..Len(events) /\ DOMAIN out = 1..Len(out) /\ Len(events) \in Nat
    BY <2>1, <2>2
  <2>4. ToSet(text) \subseteq DOMAIN events /\ ToSet(reasoning) \subseteq DOMAIN events
        /\ ToSet(toolCalls) \subseteq DOMAIN events
    <3>1. text \in Seq(DOMAIN events) /\ reasoning \in Seq(DOMAIN events) /\ toolCalls \in Seq(DOMAIN events)
      BY <2>3 DEF TypeInv, PiecesOK
    <3>2. ASSUME NEW D, NEW s \in Seq(D)
          PROVE  ToSet(s) \subseteq D
      BY DEF ToSet
    <3> QED
      BY <3>1, <3>2
  <2>5. UNION {ToSet(text), ToSet(reasoning), ToSet(toolCalls)} \subseteq DOMAIN events
    BY <2>4
  <2> QED
    BY <2>3, <2>5 DEF TypeInv, FramesOK, PiecesOK, Usages, TypeOK
<1> QED
  BY <1>1, TypeInvariance, PTL

-----------------------------------------------------------------------------
(* The parts of ResponsesLifecycle for any stream of frames: what holds of *)
(* every beginning of a stream, and what the final event adds.             *)
ItemsOf(o) == {i \in 1..Len(o) : o[i].name \notin {"response.created", "completed"}}

Ordered(o) ==
    /\ \A i \in 1..Len(o) : o[i].seq = i - 1
    /\ \A i, j \in ItemsOf(o) : i < j /\ o[i].index = o[j].index =>
          o[i].name # "item.done" /\ o[j].name # "item.added"
    /\ \A j \in ItemsOf(o) : \E i \in ItemsOf(o) :
          i <= j /\ o[i].name = "item.added" /\ o[i].index = o[j].index
    /\ \A i, j \in 1..Len(o) : i < j /\ o[i].name = "text" /\ o[j].name = "text" =>
          o[i].content < o[j].content

Named(o, name) == {i \in 1..Len(o) : o[i].name = name}

Completed(o) == \A k \in 1..Len(o) : o[k].name = "completed" =>
    LET outputs == o[k].content.outputs
    IN /\ {<<o[i].index, o[i].content>> : i \in Named(o, "item.done")}
            = {<<i - 1, outputs[i]>> : i \in DOMAIN outputs}
       /\ {o[i].index : i \in Named(o, "item.added")} = {i - 1 : i \in DOMAIN outputs}
       /\ {o[i].content : i \in Named(o, "text")} = {outputs[1][i] : i \in DOMAIN outputs[1]}
       /\ \A i, j \in DOMAIN outputs[1] : i < j => outputs[1][i] < outputs[1][j]

(* A stream under way, with the calls and the text it has announced: the   *)
(* message is open at index 0, and each call is an item that is done.      *)
Underway(o, calls, said) ==
    /\ IsSeq(o) /\ Ordered(o)
    /\ \A i \in 1..Len(o) : o[i].name # "completed"
    /\ \A i \in ItemsOf(o) : o[i].index \in 0..Len(calls)
    /\ \A i \in ItemsOf(o) : o[i].name = "text" => o[i].index = 0
    /\ \E i \in ItemsOf(o) : o[i].name = "item.added" /\ o[i].index = 0
    /\ \A i \in ItemsOf(o) : o[i].name = "item.done" =>
          o[i].index # 0 /\ o[i].content = <<calls[o[i].index]>>
    /\ \A n \in 1..Len(calls) : \E i \in ItemsOf(o) : o[i].name = "item.done" /\ o[i].index = n
    /\ \A i \in Named(o, "text") : \E k \in 1..Len(said) : said[k] = o[i].content
    /\ \A k \in 1..Len(said) : \E i \in Named(o, "text") : o[i].content = said[k]
    /\ \A i, j \in 1..Len(said) : i < j => said[i] < said[j]

(* What a Responses client has got, and what is still to be kept.          *)
LifeInv == format = "openai-response" =>
    /\ Ordered(out) /\ Completed(out)
    /\ phase = "open" =>
          /\ seq = Len(out)
          /\ IF opened THEN Underway(out, toolCalls, text)
             ELSE out = <<>> /\ toolCalls = <<>> /\ text = <<>>

LEMMA BeginningOrdered ==
    ASSUME NEW o, NEW w, Len(o) \in Nat, Len(w) \in Nat, Len(o) <= Len(w),
           \A i \in 1..Len(o) : o[i] = w[i], Ordered(w)
    PROVE  Ordered(o)
<1>1. ItemsOf(o) = {i \in ItemsOf(w) : i <= Len(o)}
  BY DEF ItemsOf
<1>2. \A i \in 1..Len(o) : i \in 1..Len(w)
  OBVIOUS
<1>3. \A i \in 1..Len(o) : o[i].seq = i - 1
  BY <1>2 DEF Ordered
<1>4. ASSUME NEW i \in ItemsOf(o), NEW j \in ItemsOf(o), i < j, o[i].index = o[j].index
      PROVE  o[i].name # "item.done" /\ o[j].name # "item.added"
  <2>1. i \in ItemsOf(w) /\ j \in ItemsOf(w) /\ o[i] = w[i] /\ o[j] = w[j]
    BY <1>1 DEF ItemsOf
  <2> QED
    BY <1>4, <2>1 DEF Ordered
<1>5. ASSUME NEW j \in ItemsOf(o)
      PROVE  \E i \in ItemsOf(o) : i <= j /\ o[i].name = "item.added" /\ o[i].index = o[j].index
  <2>1. j \in ItemsOf(w) /\ o[j] = w[j] /\ j <= Len(o) /\ j \in Nat
    BY <1>1 DEF ItemsOf
  <2>2. PICK i \in ItemsOf(w) : i <= j /\ w[i].name = "item.added" /\ w[i].index = w[j].index
    BY <2>1 DEF Ordered
  <2>3. i \in 1..Len(w)
    BY DEF ItemsOf
  <2>4. i \in ItemsOf(o) /\ o[i] = w[i]
    BY <1>1, <2>1, <2>2, <2>3
  <2> QED
    BY <2>1, <2>2, <2>4
<1>6. ASSUME NEW i \in 1..Len(o), NEW j \in 1..Len(o), i < j, o[i].name = "text", o[j].name = "text"
      PROVE  o[i].content < o[j].content
  BY <1>2, <1>6 DEF Ordered
<1> QED
  BY <1>3, <1>4, <1>5, <1>6 DEF Ordered

(* A stream of the Responses format with further frames, and a stream the  *)
(* host has accepted a beginning of.                                       *)
Grows(base, fs, w) ==
    /\ IsSeq(base) /\ IsSeq(w) /\ Len(w) = Len(base) + Len(fs)
    /\ \A i \in 1..Len(base) : w[i] = base[i]
    /\ \A i \in 1..Len(fs) : w[Len(base) + i] = [fs[i] EXCEPT !.seq = Len(base) + i - 1]

Begins(o, w) == IsSeq(o) /\ Len(o) <= Len(w) /\ \A i \in 1..Len(o) : o[i] = w[i]

LEMMA SameSequence ==
    ASSUME NEW o, NEW w, Begins(o, w), IsSeq(w), Len(o) = Len(w)
    PROVE  o = w
<1>1. PICK S : o \in Seq(S)
  BY DEF Begins, IsSeq
<1>2. PICK T : w \in Seq(T)
  BY DEF IsSeq
<1>3. DOMAIN o = 1..Len(o) /\ DOMAIN w = 1..Len(w)
  BY <1>1, <1>2
<1>4. o = [i \in 1..Len(o) |-> o[i]] /\ w = [i \in 1..Len(w) |-> w[i]]
  BY <1>1, <1>2, <1>3
<1> QED
  BY <1>4 DEF Begins

(* The opening is a stream under way that has announced nothing yet.       *)
LEMMA OpeningUnderway ==
    ASSUME NEW w, IsSeq(w), Len(w) = 3,
           w[1].name = "response.created", w[1].seq = 0,
           w[2].name = "item.added", w[2].index = 0, w[2].seq = 1,
           w[3].name = "part.added", w[3].index = 0, w[3].seq = 2
    PROVE  Underway(w, <<>>, <<>>)
<1>1. \A i \in 1..Len(w) : i = 1 \/ i = 2 \/ i = 3
  OBVIOUS
<1>2. 1 \in 1..Len(w) /\ 2 \in 1..Len(w) /\ 3 \in 1..Len(w)
  OBVIOUS
<1>3. \A i \in 1..Len(w) : w[i].name # "text" /\ w[i].name # "completed" /\ w[i].name # "item.done"
  BY <1>1
<1>4. \A i \in ItemsOf(w) : i \in 1..Len(w) /\ (i = 2 \/ i = 3)
  BY <1>1 DEF ItemsOf
<1>5. 2 \in ItemsOf(w)
  BY <1>2 DEF ItemsOf
<1>6. \A i \in ItemsOf(w) : w[i].index = 0
  BY <1>4
<1>7. Ordered(w)
  <2>1. \A i \in 1..Len(w) : w[i].seq = i - 1
    BY <1>1
  <2>2. ASSUME NEW i \in ItemsOf(w), NEW j \in ItemsOf(w), i < j
        PROVE  w[i].name # "item.done" /\ w[j].name # "item.added"
    BY <1>4, <2>2
  <2>3. ASSUME NEW j \in ItemsOf(w)
        PROVE  \E i \in ItemsOf(w) : i <= j /\ w[i].name = "item.added" /\ w[i].index = w[j].index
    BY <1>4, <1>5
  <2> QED
    BY <1>3, <2>1, <2>2, <2>3 DEF Ordered
<1>8. Named(w, "text") = {}
  BY <1>3 DEF Named
<1>9. Len(<<>>) = 0 /\ 1..Len(<<>>) = {}
  OBVIOUS
<1>10. \E i \in ItemsOf(w) : w[i].name = "item.added" /\ w[i].index = 0
  BY <1>5
<1>11. \A i \in ItemsOf(w) : w[i].name # "item.done"
  BY <1>3, <1>4
<1> QED
  BY <1>3, <1>6, <1>7, <1>8, <1>9, <1>10, <1>11 DEF Underway

(* Emit in the Responses format: what the host has got begins a stream     *)
(* that is under way and goes on with the frames of the event.             *)
LEMMA EmitGrows ==
    ASSUME TypeInv, LifeInv, format = "openai-response", phase = "open",
           NEW fs, IsSeq(fs), NEW next, Emit(fs, next)
    PROVE  \E base, w :
              /\ Underway(base, toolCalls, text) /\ Grows(base, fs, w) /\ Begins(out', w)
              /\ opened' = TRUE /\ seq' = Len(w)
              /\ phase' = IF Len(out') = Len(w) THEN next ELSE "refused"
<1> DEFINE all == Opening \o fs
           m == Len(out) + Len(all)
           w == [i \in 1..m |-> IF i <= Len(out) THEN out[i]
                                ELSE [all[i - Len(out)] EXCEPT !.seq = i - 1]]
<1>1. IsSeq(out) /\ seq = Len(out) /\ seq \in Nat /\ Len(out) \in Nat
  <2>1. IsSeq(out) /\ seq = Len(out)
    BY DEF TypeInv, FramesOK, LifeInv
  <2> QED
    BY <2>1, Nothing, Joined
<1>2. IsSeq(all) /\ opened' = TRUE /\ seq' = seq + Len(all) /\ IsSeq(out')
  BY <1>1, Emitted
<1>3. PICK k \in 0..Len(all) :
         /\ Len(out') = Len(out) + k
         /\ \A i \in 1..Len(out) : out'[i] = out[i]
         /\ \A i \in 1..k : out'[Len(out) + i] = AsSent(all[i], seq + i - 1)
         /\ phase' = IF k = Len(all) THEN next ELSE "refused"
  BY <1>1, Emitted
<1>4. IsSeq(Opening) /\ Len(fs) \in Nat /\ Len(Opening) \in Nat
  BY Nothing, Joined, OpeningFrames DEF IsFrames
<1>5. /\ Len(all) = Len(Opening) + Len(fs)
      /\ \A i \in 1..Len(Opening) : all[i] = Opening[i]
      /\ \A i \in 1..Len(fs) : all[Len(Opening) + i] = fs[i]
  BY <1>4, Joined
<1> HIDE DEF all
<1>6. m \in Nat
  BY <1>1, <1>4, <1>5
<1>7. IsSeq(w) /\ Len(w) = m
  BY <1>6, Listed
<1>8. /\ \A i \in 1..Len(out) : w[i] = out[i]
      /\ \A i \in 1..Len(all) : w[Len(out) + i] = [all[i] EXCEPT !.seq = Len(out) + i - 1]
  <2>1. Len(all) \in Nat
    BY <1>4, <1>5
  <2>2. \A i \in 1..Len(out) : i \in 1..m /\ w[i] = out[i]
    BY <1>1, <2>1
  <2>3. ASSUME NEW i \in 1..Len(all)
        PROVE  w[Len(out) + i] = [all[i] EXCEPT !.seq = Len(out) + i - 1]
    <3>1. Len(out) + i \in 1..m /\ ~ (Len(out) + i <= Len(out)) /\ (Len(out) + i) - Len(out) = i
      BY <1>1, <2>1
    <3> QED
      BY <3>1
  <2> QED
    BY <2>2, <2>3
<1> HIDE DEF w
<1>9. Begins(out', w) /\ seq' = Len(w) /\ phase' = IF Len(out') = Len(w) THEN next ELSE "refused"
  <2>1. Len(all) \in Nat
    BY <1>4, <1>5
  <2>2. Len(out') <= Len(w) /\ (Len(out') = Len(w) <=> k = Len(all)) /\ seq' = Len(w)
    <3>1. Len(w) = Len(out) + Len(all)
      BY <1>7
    <3>2. seq' = Len(w)
      BY <1>1, <1>2, <3>1
    <3>3. Len(out') = Len(out) + k /\ k \in 0..Len(all)
      BY <1>3
    <3> QED
      BY <1>1, <2>1, <3>1, <3>2, <3>3
  <2>3. ASSUME NEW i \in 1..Len(out')
        PROVE  out'[i] = w[i]
    <3>1. CASE i \in 1..Len(out)
      BY <1>3, <1>8, <3>1
    <3>2. CASE i \notin 1..Len(out)
      <4> DEFINE j == i - Len(out)
      <4>1. j \in 1..k /\ j \in 1..Len(all) /\ i = Len(out) + j
        BY <1>1, <1>3, <2>1, <3>2
      <4>2. out'[i] = AsSent(all[j], seq + j - 1) /\ w[i] = [all[j] EXCEPT !.seq = Len(out) + j - 1]
        BY <1>3, <1>8, <4>1
      <4> QED
        BY <1>1, <4>2 DEF AsSent
    <3> QED
      BY <3>1, <3>2
  <2> QED
    BY <1>2, <1>3, <2>2, <2>3 DEF Begins
<1>10. CASE opened
  <2>1. Opening = <<>> /\ Len(Opening) = 0
    BY <1>10 DEF Opening
  <2>2. Len(all) = Len(fs) /\ \A i \in 1..Len(fs) : all[i] = fs[i]
    BY <1>4, <1>5, <2>1
  <2>3. Grows(out, fs, w)
    BY <1>1, <1>7, <1>8, <2>2 DEF Grows
  <2>4. Underway(out, toolCalls, text)
    BY <1>10 DEF LifeInv
  <2> QED
    BY <1>2, <1>9, <2>3, <2>4
<1>11. CASE ~ opened
  <2> DEFINE base == [i \in 1..3 |-> w[i]]
             a == Frame("response.created", 0, <<>>)
             b == Frame("item.added", 0, "message")
             d == Frame("part.added", 0, <<>>)
  <2>1. out = <<>> /\ toolCalls = <<>> /\ text = <<>> /\ Len(out) = 0
    BY <1>11 DEF LifeInv
  <2>2. Opening = <<a, b, d>>
    BY <1>11 DEF Opening
  <2>3. /\ a = [name |-> "response.created", index |-> 0, content |-> <<>>, seq |-> 0]
        /\ b = [name |-> "item.added", index |-> 0, content |-> "message", seq |-> 0]
        /\ d = [name |-> "part.added", index |-> 0, content |-> <<>>, seq |-> 0]
    BY DEF Frame
  <2> HIDE DEF a, b, d
  <2>4. Len(Opening) = 3 /\ Opening[1] = a /\ Opening[2] = b /\ Opening[3] = d
    BY <2>2
  <2>5. Len(all) = 3 + Len(fs) /\ Len(w) = 3 + Len(fs)
    BY <1>4, <1>5, <1>7, <2>1, <2>4
  <2>6. \A i \in 1..Len(all) : w[i] = [all[i] EXCEPT !.seq = i - 1]
    <3>1. \A i \in 1..Len(all) : Len(out) + i = i /\ Len(out) + i - 1 = i - 1
      BY <1>4, <2>1, <2>5
    <3> QED
      BY <1>8, <3>1
  <2>7. 1 \in 1..Len(all) /\ 2 \in 1..Len(all) /\ 3 \in 1..Len(all)
    BY <1>4, <2>5
  <2>8. all[1] = a /\ all[2] = b /\ all[3] = d
    BY <1>5, <2>4
  <2>9. w[1] = [a EXCEPT !.seq = 0] /\ w[2] = [b EXCEPT !.seq = 1] /\ w[3] = [d EXCEPT !.seq = 2]
    <3>1. /\ w[1] = [all[1] EXCEPT !.seq = 1 - 1]
          /\ w[2] = [all[2] EXCEPT !.seq = 2 - 1]
          /\ w[3] = [all[3] EXCEPT !.seq = 3 - 1]
      BY <2>6, <2>7
    <3>2. 1 - 1 = 0 /\ 2 - 1 = 1 /\ 3 - 1 = 2
      OBVIOUS
    <3> QED
      BY <2>8, <3>1, <3>2
  <2>10. /\ w[1].name = "response.created" /\ w[1].seq = 0
         /\ w[2].name = "item.added" /\ w[2].index = 0 /\ w[2].seq = 1
         /\ w[3].name = "part.added" /\ w[3].index = 0 /\ w[3].seq = 2
    BY <2>3, <2>9
  <2>11. \A i \in 1..3 : base[i] = w[i]
    OBVIOUS
  <2>12. IsSeq(base) /\ Len(base) = 3
    BY Listed
  <2> HIDE DEF base
  <2>13. base[1] = w[1] /\ base[2] = w[2] /\ base[3] = w[3]
    BY <2>11
  <2>14. Underway(base, toolCalls, text)
    BY <2>1, <2>10, <2>12, <2>13, OpeningUnderway
  <2>15. ASSUME NEW i \in 1..Len(fs)
         PROVE  w[Len(base) + i] = [fs[i] EXCEPT !.seq = Len(base) + i - 1]
    <3>1. 3 + i \in 1..Len(all) /\ all[3 + i] = fs[i]
      BY <1>4, <1>5, <2>4, <2>5
    <3>2. w[3 + i] = [all[3 + i] EXCEPT !.seq = 3 + i - 1]
      BY <2>6, <3>1
    <3> QED
      BY <2>12, <3>1, <3>2
  <2>16. Grows(base, fs, w)
    BY <1>7, <2>5, <2>11, <2>12, <2>15 DEF Grows
  <2> QED
    BY <1>2, <1>9, <2>14, <2>16
<1> QED
  BY <1>10, <1>11

(* A beginning of a stream that is in order, complete if it is the whole.  *)
LEMMA BeginningOfLife ==
    ASSUME NEW o, NEW w, IsSeq(w), Begins(o, w), Ordered(w), Completed(w),
           \A i \in 1..Len(w) : w[i].name = "completed" => i = Len(w)
    PROVE  Ordered(o) /\ Completed(o)
<1>1. Len(o) \in Nat /\ Len(w) \in Nat
  BY Joined DEF Begins
<1>2. Ordered(o)
  BY <1>1, BeginningOrdered DEF Begins
<1>3. CASE Len(o) = Len(w)
  BY <1>2, <1>3, SameSequence
<1>4. CASE Len(o) # Len(w)
  <2>1. \A i \in 1..Len(o) : o[i].name # "completed"
    BY <1>1, <1>4 DEF Begins
  <2> QED
    BY <1>2, <2>1 DEF Completed
<1> QED
  BY <1>3, <1>4

LEMMA UnderwayIsLife ==
    ASSUME NEW w, NEW calls, NEW said, Underway(w, calls, said)
    PROVE  /\ IsSeq(w) /\ Ordered(w) /\ Completed(w)
           /\ \A i \in 1..Len(w) : w[i].name = "completed" => i = Len(w)
<1>1. \A i \in 1..Len(w) : w[i].name # "completed"
  BY DEF Underway
<1> QED
  BY <1>1 DEF Underway, Completed

(* The items of a stream that grew by one frame.                           *)
LEMMA ItemsGrow ==
    ASSUME NEW base, NEW fs, NEW w, Grows(base, fs, w), IsSeq(fs)
    PROVE  /\ Len(base) \in Nat /\ Len(fs) \in Nat /\ Len(w) = Len(base) + Len(fs)
           /\ \A i \in ItemsOf(base) : i \in 1..Len(base) /\ i \in ItemsOf(w) /\ w[i] = base[i]
           /\ \A i \in ItemsOf(w) : i \in ItemsOf(base) \/ \E k \in 1..Len(fs) : i = Len(base) + k
           /\ \A i \in 1..Len(w) : i \in 1..Len(base) \/ \E k \in 1..Len(fs) : i = Len(base) + k
<1>1. Len(base) \in Nat /\ Len(fs) \in Nat /\ Len(w) = Len(base) + Len(fs)
  BY Joined DEF Grows
<1>2. ASSUME NEW i \in 1..Len(w), i \notin 1..Len(base)
      PROVE  \E k \in 1..Len(fs) : i = Len(base) + k
  <2>1. i - Len(base) \in 1..Len(fs) /\ i = Len(base) + (i - Len(base))
    BY <1>1, <1>2
  <2> QED
    BY <2>1
<1>3. \A i \in 1..Len(base) : i \in 1..Len(w) /\ w[i] = base[i]
  BY <1>1 DEF Grows
<1>4. \A i \in ItemsOf(base) : i \in 1..Len(base) /\ i \in ItemsOf(w) /\ w[i] = base[i]
  BY <1>3 DEF ItemsOf
<1>5. \A i \in ItemsOf(w) : i \in ItemsOf(base) \/ \E k \in 1..Len(fs) : i = Len(base) + k
  BY <1>2, <1>3 DEF ItemsOf
<1> QED
  BY <1>1, <1>2, <1>4, <1>5

(* A further piece of text is a delta of the message, which is not done.   *)
LEMMA TextGrows ==
    ASSUME NEW base, NEW w, NEW calls, NEW n \in Nat, NEW said \in Seq(1..n), Len(calls) \in Nat,
           Underway(base, calls, said), Grows(base, <<Frame("text", 0, n + 1)>>, w)
    PROVE  Underway(w, calls, Append(said, n + 1))
<1> DEFINE f == Frame("text", 0, n + 1)
           m == Len(base)
           more == Append(said, n + 1)
<1>1. IsSeq(<<f>>) /\ Len(<<f>>) = 1 /\ <<f>>[1] = f
  BY Single
<1>2. w[m + 1] = [f EXCEPT !.seq = m]
  <2>1. w[m + 1] = [f EXCEPT !.seq = m + 1 - 1]
    <3>1. 1 \in 1..Len(<<f>>)
      BY <1>1
    <3> QED
      BY <1>1, <3>1 DEF Grows
  <2>2. m + 1 - 1 = m
    BY <1>1, ItemsGrow
  <2> QED
    BY <2>1, <2>2
<1>3. w[m + 1].name = "text" /\ w[m + 1].index = 0 /\ w[m + 1].content = n + 1 /\ w[m + 1].seq = m
  BY <1>2 DEF Frame
<1>4. IsSeq(w)
  BY DEF Grows
<1>5. /\ m \in Nat /\ Len(w) = m + 1
      /\ \A i \in ItemsOf(base) : i \in 1..m /\ i \in ItemsOf(w) /\ w[i] = base[i]
      /\ \A i \in ItemsOf(w) : i \in ItemsOf(base) \/ i = m + 1
      /\ \A i \in 1..Len(w) : i \in 1..m \/ i = m + 1
  <2> DEFINE fs == <<f>>
  <2>1. IsSeq(fs) /\ Len(fs) = 1 /\ Grows(base, fs, w)
    BY <1>1
  <2> HIDE DEF fs
  <2>2. m \in Nat /\ Len(w) = m + Len(fs)
    <3>1. IsSeq(base) /\ Len(w) = m + Len(fs)
      BY <2>1 DEF Grows
    <3>2. m \in Nat
      BY <3>1, Nothing, Joined
    <3> QED
      BY <3>1, <3>2
  <2>3. \A i \in ItemsOf(base) : i \in 1..m /\ i \in ItemsOf(w) /\ w[i] = base[i]
    BY <2>1, ItemsGrow
  <2>4. \A i \in 1..Len(w) : i \in 1..m \/ i = m + 1
    BY <2>1, <2>2
  <2>5. ASSUME NEW i \in ItemsOf(w)
        PROVE  i \in ItemsOf(base) \/ i = m + 1
    <3>1. i \in 1..Len(w)
      BY DEF ItemsOf
    <3>2. CASE i \in 1..m
      BY <2>1, <3>2 DEF ItemsOf, Grows
    <3> QED
      BY <2>4, <3>1, <3>2
  <2> HIDE DEF m
  <2> QED
    BY <2>1, <2>2, <2>3, <2>4, <2>5
<1>6. \A i \in 1..m : i \in 1..Len(w) /\ w[i] = base[i]
  BY <1>5 DEF Grows
<1>7. m + 1 \in ItemsOf(w) /\ m + 1 \in 1..Len(w)
  BY <1>3, <1>5 DEF ItemsOf
<1>8. /\ Len(said) \in Nat /\ Len(more) = Len(said) + 1 /\ more[Len(said) + 1] = n + 1
      /\ \A k \in 1..Len(said) : more[k] = said[k] /\ said[k] \in 1..n
      /\ \A k \in 1..Len(more) : k \in 1..Len(said) \/ k = Len(said) + 1
  OBVIOUS
<1> HIDE DEF more, m, f
<1>9. Ordered(base)
  BY DEF Underway
<1>10. PICK first \in ItemsOf(base) : base[first].name = "item.added" /\ base[first].index = 0
  BY DEF Underway
<1>11. \A i \in 1..m : base[i].name = "text" => base[i].content \in 1..n
  <2>1. \A i \in Named(base, "text") : \E k \in 1..Len(said) : said[k] = base[i].content
    BY DEF Underway
  <2> QED
    BY <1>8, <2>1 DEF Named, m
<1>12. Ordered(w)
  <2>1. \A i \in 1..Len(w) : w[i].seq = i - 1
    <3>1. \A i \in 1..m : base[i].seq = i - 1
      BY <1>9 DEF Ordered, m
    <3>2. w[m + 1].seq = (m + 1) - 1
      BY <1>3, <1>5
    <3>3. \A i \in 1..m : w[i].seq = i - 1
      BY <1>6, <3>1
    <3> QED
      BY <1>5, <3>2, <3>3
  <2>2. ASSUME NEW i \in ItemsOf(w), NEW j \in ItemsOf(w), i < j, w[i].index = w[j].index
        PROVE  w[i].name # "item.done" /\ w[j].name # "item.added"
    <3>1. i \in ItemsOf(base)
      <4>1. i \in 1..Len(w) /\ j \in 1..Len(w)
        BY DEF ItemsOf
      <4> QED
        BY <1>5, <2>2, <4>1
    <3>2. CASE j \in ItemsOf(base)
      BY <1>5, <1>9, <2>2, <3>1, <3>2 DEF Ordered
    <3>3. CASE j = m + 1
      BY <1>3, <1>5, <2>2, <3>1, <3>3 DEF Underway
    <3> QED
      BY <1>5, <3>2, <3>3
  <2>3. ASSUME NEW j \in ItemsOf(w)
        PROVE  \E i \in ItemsOf(w) : i <= j /\ w[i].name = "item.added" /\ w[i].index = w[j].index
    <3>1. CASE j \in ItemsOf(base)
      <4>1. PICK i \in ItemsOf(base) : i <= j /\ base[i].name = "item.added" /\ base[i].index = base[j].index
        BY <1>9, <3>1 DEF Ordered
      <4> QED
        BY <1>5, <3>1, <4>1
    <3>2. CASE j = m + 1
      <4>1. first \in ItemsOf(w) /\ w[first] = base[first] /\ first <= m + 1
        BY <1>5, <1>10
      <4> QED
        BY <1>3, <1>10, <3>2, <4>1
    <3> QED
      BY <1>5, <3>1, <3>2
  <2>4. ASSUME NEW i \in 1..Len(w), NEW j \in 1..Len(w), i < j, w[i].name = "text", w[j].name = "text"
        PROVE  w[i].content < w[j].content
    <3>1. i \in 1..m
      BY <1>5, <2>4
    <3>2. CASE j \in 1..m
      BY <1>6, <1>9, <2>4, <3>1, <3>2 DEF Ordered, m
    <3>3. CASE j = m + 1
      <4>1. w[i].content \in 1..n
        BY <1>6, <1>11, <2>4, <3>1
      <4> QED
        BY <1>3, <3>3, <4>1
    <3> QED
      BY <1>5, <3>2, <3>3
  <2> QED
    BY <2>1, <2>2, <2>3, <2>4 DEF Ordered
<1>13. \A i \in 1..Len(w) : w[i].name # "completed"
  BY <1>3, <1>5, <1>6 DEF Underway, m
<1>14. \A i \in ItemsOf(w) : /\ w[i].index \in 0..Len(calls)
                             /\ w[i].name = "text" => w[i].index = 0
  <2>1. \A i \in ItemsOf(base) : base[i].index \in 0..Len(calls) /\ (base[i].name = "text" => base[i].index = 0)
    BY DEF Underway
  <2>2. w[m + 1].index = 0 /\ 0 \in 0..Len(calls)
    BY <1>3
  <2> QED
    BY <1>5, <2>1, <2>2
<1>15. first \in ItemsOf(w) /\ w[first].name = "item.added" /\ w[first].index = 0
  BY <1>5, <1>10
<1>16. \A i \in ItemsOf(w) : w[i].name = "item.done" =>
          w[i].index # 0 /\ w[i].content = <<calls[w[i].index]>>
  <2>1. \A i \in ItemsOf(base) : base[i].name = "item.done" =>
           base[i].index # 0 /\ base[i].content = <<calls[base[i].index]>>
    BY DEF Underway
  <2> QED
    BY <1>3, <1>5, <2>1
<1>17. \A k \in 1..Len(calls) : \E i \in ItemsOf(w) : w[i].name = "item.done" /\ w[i].index = k
  <2>1. \A k \in 1..Len(calls) : \E i \in ItemsOf(base) : base[i].name = "item.done" /\ base[i].index = k
    BY DEF Underway
  <2> QED
    BY <1>5, <2>1
<1>18. \A i \in Named(w, "text") : \E k \in 1..Len(more) : more[k] = w[i].content
  <2>1. \A k \in 1..Len(said) : k \in 1..Len(more)
    BY <1>8
  <2>2. Len(said) + 1 \in 1..Len(more)
    BY <1>8
  <2>3. ASSUME NEW i \in Named(w, "text")
        PROVE  \E k \in 1..Len(more) : more[k] = w[i].content
    <3>1. i \in 1..Len(w) /\ w[i].name = "text"
      BY DEF Named
    <3>2. CASE i \in 1..m
      <4>1. i \in Named(base, "text") /\ w[i] = base[i]
        BY <1>6, <3>1, <3>2 DEF Named, m
      <4>2. PICK k \in 1..Len(said) : said[k] = base[i].content
        BY <4>1 DEF Underway
      <4> QED
        BY <1>8, <2>1, <4>1, <4>2
    <3>3. CASE i = m + 1
      BY <1>3, <1>8, <2>2, <3>3
    <3> QED
      BY <1>5, <3>1, <3>2, <3>3
  <2> QED
    BY <2>3
<1>19. \A k \in 1..Len(more) : \E i \in Named(w, "text") : w[i].content = more[k]
  <2>1. ASSUME NEW k \in 1..Len(more)
        PROVE  \E i \in Named(w, "text") : w[i].content = more[k]
    <3>1. CASE k \in 1..Len(said)
      <4>1. PICK i \in Named(base, "text") : base[i].content = said[k]
        BY <3>1 DEF Underway
      <4>2. i \in Named(w, "text") /\ w[i] = base[i]
        BY <1>6 DEF Named, m
      <4> QED
        BY <1>8, <3>1, <4>1, <4>2
    <3>2. CASE k = Len(said) + 1
      <4>1. m + 1 \in Named(w, "text")
        BY <1>3, <1>7 DEF Named
      <4> QED
        BY <1>3, <1>8, <3>2, <4>1
    <3> QED
      BY <1>8, <3>1, <3>2
  <2> QED
    BY <2>1
<1>20. \A i, j \in 1..Len(more) : i < j => more[i] < more[j]
  <2>1. \A i, j \in 1..Len(said) : i < j => said[i] < said[j]
    BY DEF Underway
  <2>2. ASSUME NEW i \in 1..Len(more), NEW j \in 1..Len(more), i < j
        PROVE  more[i] < more[j]
    <3>1. i \in 1..Len(said)
      BY <1>8, <2>2
    <3>2. CASE j \in 1..Len(said)
      BY <1>8, <2>1, <2>2, <3>1, <3>2
    <3>3. CASE j = Len(said) + 1
      <4>1. more[i] \in 1..n /\ more[j] = n + 1
        BY <1>8, <3>1, <3>3
      <4> QED
        BY <4>1
    <3> QED
      BY <1>8, <3>2, <3>3
  <2> QED
    BY <2>2
<1>21. Underway(w, calls, more)
  BY <1>4, <1>12, <1>13, <1>14, <1>15, <1>16, <1>17, <1>18, <1>19, <1>20 DEF Underway
<1> QED
  BY <1>21 DEF more

(* Four further frames.                                                    *)
LEMMA FourGrow ==
    ASSUME NEW base, NEW w, NEW a, NEW b, NEW c, NEW d, Grows(base, <<a, b, c, d>>, w)
    PROVE  LET m == Len(base) IN
           /\ m \in Nat /\ Len(w) = m + 4
           /\ w[m + 1] = [a EXCEPT !.seq = m] /\ w[m + 2] = [b EXCEPT !.seq = m + 1]
           /\ w[m + 3] = [c EXCEPT !.seq = m + 2] /\ w[m + 4] = [d EXCEPT !.seq = m + 3]
           /\ \A i \in 1..m : i \in 1..Len(w) /\ w[i] = base[i]
           /\ \A i \in 1..Len(w) : i \in 1..m \/ i = m + 1 \/ i = m + 2 \/ i = m + 3 \/ i = m + 4
<1> DEFINE fs == <<a, b, c, d>>
           m == Len(base)
<1>1. fs \in Seq({a, b, c, d}) /\ Len(fs) = 4 /\ fs[1] = a /\ fs[2] = b /\ fs[3] = c /\ fs[4] = d
  OBVIOUS
<1>2. IsSeq(fs) /\ Grows(base, fs, w)
  BY <1>1 DEF IsSeq
<1> HIDE DEF fs
<1>3. m \in Nat /\ Len(w) = m + 4
  <2>1. m \in Nat
    BY <1>2, Nothing, Joined DEF Grows
  <2>2. Len(w) = m + Len(fs)
    BY <1>2 DEF Grows
  <2> QED
    BY <1>1, <2>1, <2>2
<1>4. \A i \in 1..4 : w[m + i] = [fs[i] EXCEPT !.seq = m + i - 1]
  BY <1>1, <1>2 DEF Grows
<1>5. /\ w[m + 1] = [a EXCEPT !.seq = m + 1 - 1] /\ w[m + 2] = [b EXCEPT !.seq = m + 2 - 1]
      /\ w[m + 3] = [c EXCEPT !.seq = m + 3 - 1] /\ w[m + 4] = [d EXCEPT !.seq = m + 4 - 1]
  <2>1. 1 \in 1..4 /\ 2 \in 1..4 /\ 3 \in 1..4 /\ 4 \in 1..4
    OBVIOUS
  <2> QED
    BY <1>1, <1>4, <2>1
<1>6. m + 1 - 1 = m /\ m + 2 - 1 = m + 1 /\ m + 3 - 1 = m + 2 /\ m + 4 - 1 = m + 3
  BY <1>3
<1>7. \A i \in 1..m : i \in 1..Len(w) /\ w[i] = base[i]
  BY <1>2, <1>3 DEF Grows
<1>8. \A i \in 1..Len(w) : i \in 1..m \/ i = m + 1 \/ i = m + 2 \/ i = m + 3 \/ i = m + 4
  BY <1>3
<1> QED
  BY <1>3, <1>5, <1>6, <1>7, <1>8

(* A call is an item of its own, with the next index: nothing was said     *)
(* about it before, and it is done with its last frame.                    *)
LEMMA CallGrows ==
    ASSUME NEW base, NEW w, NEW calls, NEW said, NEW call, IsSeq(calls),
           Underway(base, calls, said), Grows(base, ToolItem(Len(calls) + 1, call), w)
    PROVE  Underway(w, Append(calls, call), said)
<1> DEFINE at == Len(calls) + 1
           m == Len(base)
           more == Append(calls, call)
           a == Frame("item.added", at, "call")
           b == Frame("input.delta", at, call)
           c == Frame("input.done", at, call)
           d == Frame("item.done", at, <<call>>)
<1>1. /\ Len(calls) \in Nat /\ Len(more) = at /\ more[at] = call
      /\ \A k \in 1..Len(calls) : more[k] = calls[k]
  <2>1. PICK S : calls \in Seq(S)
    BY DEF IsSeq
  <2>2. calls \in Seq(S \cup {call})
    BY <2>1
  <2> QED
    BY <2>2
<1>2. Grows(base, <<a, b, c, d>>, w)
  BY DEF ToolItem
<1>3. /\ a = [name |-> "item.added", index |-> at, content |-> "call", seq |-> 0]
      /\ b = [name |-> "input.delta", index |-> at, content |-> call, seq |-> 0]
      /\ c = [name |-> "input.done", index |-> at, content |-> call, seq |-> 0]
      /\ d = [name |-> "item.done", index |-> at, content |-> <<call>>, seq |-> 0]
  BY DEF Frame
<1> HIDE DEF a, b, c, d, more
<1>4. /\ m \in Nat /\ Len(w) = m + 4
      /\ w[m + 1] = [a EXCEPT !.seq = m] /\ w[m + 2] = [b EXCEPT !.seq = m + 1]
      /\ w[m + 3] = [c EXCEPT !.seq = m + 2] /\ w[m + 4] = [d EXCEPT !.seq = m + 3]
  BY <1>2, FourGrow
<1>5. \A i \in 1..m : i \in 1..Len(w) /\ w[i] = base[i]
  BY <1>2, FourGrow
<1>6. \A i \in 1..Len(w) : i \in 1..m \/ i = m + 1 \/ i = m + 2 \/ i = m + 3 \/ i = m + 4
  BY <1>2, FourGrow
<1>7. IsSeq(w)
  BY DEF Grows
<1> HIDE DEF m
<1>8. /\ w[m + 1].name = "item.added" /\ w[m + 1].index = at /\ w[m + 1].seq = m
      /\ w[m + 2].name = "input.delta" /\ w[m + 2].index = at /\ w[m + 2].seq = m + 1
      /\ w[m + 3].name = "input.done" /\ w[m + 3].index = at /\ w[m + 3].seq = m + 2
      /\ w[m + 4].name = "item.done" /\ w[m + 4].index = at /\ w[m + 4].seq = m + 3
      /\ w[m + 4].content = <<call>>
  BY <1>3, <1>4
<1>9. \A i \in ItemsOf(base) : i \in 1..m /\ i \in ItemsOf(w) /\ w[i] = base[i] /\ w[i].index \in 0..Len(calls)
  BY <1>5 DEF ItemsOf, Underway, m
<1>10. /\ m + 1 \in 1..Len(w) /\ m + 2 \in 1..Len(w) /\ m + 3 \in 1..Len(w) /\ m + 4 \in 1..Len(w)
  BY <1>4
<1>11. ASSUME NEW i \in ItemsOf(w)
       PROVE  \/ i \in ItemsOf(base)
              \/ /\ i = m + 1 \/ i = m + 2 \/ i = m + 3 \/ i = m + 4
                 /\ w[i].index = at /\ w[i].name # "text"
  <2>1. i \in 1..Len(w)
    BY DEF ItemsOf
  <2>2. CASE i \in 1..m
    BY <1>5, <2>2 DEF ItemsOf, m
  <2> QED
    BY <1>6, <1>8, <2>1, <2>2
<1>12. m + 1 \in ItemsOf(w) /\ m + 4 \in ItemsOf(w)
  BY <1>8, <1>10 DEF ItemsOf
<1>13. at \notin 0..Len(calls) /\ at \in 0..Len(more) /\ \A k \in 0..Len(calls) : k \in 0..Len(more)
  BY <1>1
<1>14. Ordered(base)
  BY DEF Underway
<1> HIDE DEF at
<1>15. \A i \in 1..m : /\ base[i].seq = i - 1 /\ base[i].name # "completed"
  BY DEF Underway, Ordered, m
<1>16. \A i \in 1..Len(w) : w[i].seq = i - 1 /\ w[i].name # "completed"
  <2>1. \A i \in 1..m : w[i].seq = i - 1 /\ w[i].name # "completed"
    BY <1>5, <1>15
  <2>2. /\ w[m + 1].seq = (m + 1) - 1 /\ w[m + 2].seq = (m + 2) - 1
        /\ w[m + 3].seq = (m + 3) - 1 /\ w[m + 4].seq = (m + 4) - 1
    BY <1>4, <1>8
  <2> QED
    BY <1>6, <1>8, <2>1, <2>2
<1>17. ASSUME NEW i \in ItemsOf(w), NEW j \in ItemsOf(w), i < j, w[i].index = w[j].index
       PROVE  w[i].name # "item.done" /\ w[j].name # "item.added"
  <2>1. CASE i \in ItemsOf(base) /\ j \in ItemsOf(base)
    BY <1>9, <1>14, <1>17, <2>1 DEF Ordered
  <2>2. CASE i \in ItemsOf(base) /\ j \notin ItemsOf(base)
    BY <1>9, <1>11, <1>13, <1>17, <2>2
  <2>3. CASE i \notin ItemsOf(base) /\ j \in ItemsOf(base)
    BY <1>9, <1>11, <1>13, <1>17, <2>3
  <2>4. CASE i \notin ItemsOf(base) /\ j \notin ItemsOf(base)
    <3>1. i \in {m + 1, m + 2, m + 3, m + 4} /\ j \in {m + 1, m + 2, m + 3, m + 4}
      BY <1>11, <2>4
    <3>2. i # m + 4 /\ j # m + 1
      BY <1>4, <1>17, <3>1
    <3> QED
      BY <1>8, <3>1, <3>2
  <2> QED
    BY <2>1, <2>2, <2>3, <2>4
<1>18. ASSUME NEW j \in ItemsOf(w)
       PROVE  \E i \in ItemsOf(w) : i <= j /\ w[i].name = "item.added" /\ w[i].index = w[j].index
  <2>1. CASE j \in ItemsOf(base)
    <3>1. PICK i \in ItemsOf(base) : i <= j /\ base[i].name = "item.added" /\ base[i].index = base[j].index
      BY <1>14, <2>1 DEF Ordered
    <3> QED
      BY <1>9, <2>1, <3>1
  <2>2. CASE j \notin ItemsOf(base)
    <3>1. w[j].index = at /\ m + 1 <= j
      BY <1>4, <1>11, <2>2
    <3> QED
      BY <1>8, <1>12, <3>1
  <2> QED
    BY <2>1, <2>2
<1>19. \A i \in 1..Len(w) : w[i].name = "text" => i \in 1..m /\ w[i] = base[i]
  BY <1>5, <1>6, <1>8
<1>20. ASSUME NEW i \in 1..Len(w), NEW j \in 1..Len(w), i < j, w[i].name = "text", w[j].name = "text"
       PROVE  w[i].content < w[j].content
  BY <1>14, <1>19, <1>20 DEF Ordered, m
<1>21. Ordered(w)
  BY <1>16, <1>17, <1>18, <1>20 DEF Ordered
<1>22. \A i \in ItemsOf(w) : w[i].index \in 0..Len(more)
  BY <1>9, <1>11, <1>13
<1>23. \A i \in ItemsOf(w) : w[i].name = "text" => w[i].index = 0
  BY <1>9, <1>11 DEF Underway
<1>24. \E i \in ItemsOf(w) : w[i].name = "item.added" /\ w[i].index = 0
  BY <1>9 DEF Underway
<1>25. ASSUME NEW i \in ItemsOf(w), w[i].name = "item.done"
       PROVE  w[i].index # 0 /\ w[i].content = <<more[w[i].index]>>
  <2>1. CASE i \in ItemsOf(base)
    <3>1. base[i].index # 0 /\ base[i].content = <<calls[base[i].index]>> /\ base[i].index \in 0..Len(calls)
      BY <1>9, <1>25, <2>1 DEF Underway
    <3>2. base[i].index \in 1..Len(calls)
      BY <3>1
    <3> QED
      BY <1>1, <1>9, <2>1, <3>1, <3>2
  <2>2. CASE i \notin ItemsOf(base)
    <3>1. i = m + 4
      BY <1>8, <1>11, <1>25, <2>2
    <3>2. at # 0
      BY <1>1 DEF at
    <3> QED
      BY <1>1, <1>8, <3>1, <3>2
  <2> QED
    BY <2>1, <2>2
<1>26. ASSUME NEW k \in 1..Len(more)
       PROVE  \E i \in ItemsOf(w) : w[i].name = "item.done" /\ w[i].index = k
  <2>1. CASE k \in 1..Len(calls)
    <3>1. PICK i \in ItemsOf(base) : base[i].name = "item.done" /\ base[i].index = k
      BY <2>1 DEF Underway
    <3> QED
      BY <1>9, <3>1
  <2>2. CASE k \notin 1..Len(calls)
    <3>1. k = at
      BY <1>1, <2>2 DEF at
    <3> QED
      BY <1>8, <1>12, <3>1
  <2> QED
    BY <2>1, <2>2
<1>27. Named(w, "text") = Named(base, "text") /\ \A i \in Named(base, "text") : w[i] = base[i]
  BY <1>5, <1>19 DEF Named, m
<1>28. /\ \A i \in Named(w, "text") : \E k \in 1..Len(said) : said[k] = w[i].content
       /\ \A k \in 1..Len(said) : \E i \in Named(w, "text") : w[i].content = said[k]
       /\ \A i, j \in 1..Len(said) : i < j => said[i] < said[j]
  <2>1. /\ \A i \in Named(base, "text") : \E k \in 1..Len(said) : said[k] = base[i].content
        /\ \A k \in 1..Len(said) : \E i \in Named(base, "text") : base[i].content = said[k]
        /\ \A i, j \in 1..Len(said) : i < j => said[i] < said[j]
    BY DEF Underway
  <2>2. ASSUME NEW i \in Named(w, "text")
        PROVE  \E k \in 1..Len(said) : said[k] = w[i].content
    <3>1. PICK k \in 1..Len(said) : said[k] = base[i].content
      BY <1>27, <2>1
    <3> QED
      BY <1>27, <3>1
  <2>3. ASSUME NEW k \in 1..Len(said)
        PROVE  \E i \in Named(w, "text") : w[i].content = said[k]
    <3>1. PICK i \in Named(base, "text") : base[i].content = said[k]
      BY <2>1
    <3> QED
      BY <1>27, <3>1
  <2> QED
    BY <2>1, <2>2, <2>3
<1>29. Underway(w, more, said)
  BY <1>7, <1>16, <1>21, <1>22, <1>23, <1>24, <1>25, <1>26, <1>28 DEF Underway
<1> QED
  BY <1>29 DEF more

(* The outputs of the final event: the message, then the calls.            *)
LEMMA OutputsOf ==
    ASSUME NEW calls, NEW said, IsSeq(calls)
    PROVE  LET outputs == <<said>> \o CallItems(calls) IN
           /\ DOMAIN outputs = 1..(Len(calls) + 1) /\ Len(calls) \in Nat
           /\ outputs[1] = said
           /\ \A k \in 1..Len(calls) : outputs[k + 1] = <<calls[k]>>
<1> DEFINE each == CallItems(calls)
           outputs == <<said>> \o each
           n == Len(calls)
<1>1. DOMAIN calls = 1..n /\ n \in Nat
  <2>1. PICK S : calls \in Seq(S)
    BY DEF IsSeq
  <2> QED
    BY <2>1
<1>2. \A k \in 1..n : each[k] = <<calls[k]>>
  BY <1>1 DEF CallItems
<1>3. each = [k \in 1..n |-> each[k]]
  BY <1>1 DEF CallItems
<1> HIDE DEF each
<1>4. IsSeq(each) /\ Len(each) = n
  BY <1>1, <1>3, Listed
<1>5. IsSeq(<<said>>) /\ Len(<<said>>) = 1 /\ <<said>>[1] = said
  BY Single
<1> DEFINE first == <<said>>
<1>6. outputs = first \o each /\ Len(first) = 1 /\ first[1] = said
  BY <1>5
<1>7. IsSeq(first)
  BY <1>5
<1> HIDE DEF first, outputs
<1>8. IsSeq(outputs) /\ Len(outputs) = 1 + n
  <2>1. IsSeq(first \o each) /\ Len(first \o each) = Len(first) + Len(each)
    BY <1>4, <1>7, Joined
  <2> QED
    BY <1>4, <1>6, <2>1
<1>9. outputs[1] = said
  <2>1. \A i \in 1..Len(first) : (first \o each)[i] = first[i]
    BY <1>4, <1>7, Joined
  <2>2. 1 \in 1..Len(first)
    BY <1>6
  <2> QED
    BY <1>6, <2>1, <2>2
<1>10. \A k \in 1..n : outputs[k + 1] = <<calls[k]>>
  <2>1. \A k \in 1..Len(each) : (first \o each)[Len(first) + k] = each[k]
    BY <1>4, <1>7, Joined
  <2>2. \A k \in 1..n : Len(first) + k = k + 1
    BY <1>6
  <2> QED
    BY <1>2, <1>4, <1>6, <2>1, <2>2
<1>11. DOMAIN outputs = 1..(n + 1)
  <2>1. PICK T : outputs \in Seq(T)
    BY <1>8 DEF IsSeq
  <2> QED
    BY <1>1, <1>8, <2>1
<1> QED
  BY <1>1, <1>9, <1>10, <1>11 DEF outputs, first, each

(* The final event closes the message and sums up what was announced.      *)
LEMMA DoneGrows ==
    ASSUME NEW base, NEW w, NEW calls, NEW said, NEW answer, IsSeq(calls), IsSeq(said),
           Underway(base, calls, said),
           answer.outputs = <<said>> \o CallItems(calls),
           Grows(base, <<Frame("text.done", 0, said), Frame("part.done", 0, said),
                         Frame("item.done", 0, said), Frame("completed", 0, answer)>>, w)
    PROVE  /\ IsSeq(w) /\ Ordered(w) /\ Completed(w)
           /\ \A i \in 1..Len(w) : w[i].name = "completed" => i = Len(w)
<1> DEFINE m == Len(base)
           outs == answer.outputs
           a == Frame("text.done", 0, said)
           b == Frame("part.done", 0, said)
           c == Frame("item.done", 0, said)
           d == Frame("completed", 0, answer)
<1>1. /\ DOMAIN outs = 1..(Len(calls) + 1) /\ Len(calls) \in Nat
      /\ outs[1] = said
      /\ \A k \in 1..Len(calls) : outs[k + 1] = <<calls[k]>>
  <2> DEFINE o == <<said>> \o CallItems(calls)
  <2>1. /\ DOMAIN o = 1..(Len(calls) + 1) /\ Len(calls) \in Nat
        /\ o[1] = said
        /\ \A k \in 1..Len(calls) : o[k + 1] = <<calls[k]>>
    BY OutputsOf
  <2>2. outs = o
    OBVIOUS
  <2> HIDE DEF o
  <2> QED
    BY <2>1, <2>2
<1>2. Grows(base, <<a, b, c, d>>, w)
  OBVIOUS
<1>3. /\ a = [name |-> "text.done", index |-> 0, content |-> said, seq |-> 0]
      /\ b = [name |-> "part.done", index |-> 0, content |-> said, seq |-> 0]
      /\ c = [name |-> "item.done", index |-> 0, content |-> said, seq |-> 0]
      /\ d = [name |-> "completed", index |-> 0, content |-> answer, seq |-> 0]
  BY DEF Frame
<1> HIDE DEF a, b, c, d
<1>4. /\ m \in Nat /\ Len(w) = m + 4
      /\ w[m + 1] = [a EXCEPT !.seq = m] /\ w[m + 2] = [b EXCEPT !.seq = m + 1]
      /\ w[m + 3] = [c EXCEPT !.seq = m + 2] /\ w[m + 4] = [d EXCEPT !.seq = m + 3]
  BY <1>2, FourGrow
<1>5. \A i \in 1..m : i \in 1..Len(w) /\ w[i] = base[i]
  BY <1>2, FourGrow
<1>6. \A i \in 1..Len(w) : i \in 1..m \/ i = m + 1 \/ i = m + 2 \/ i = m + 3 \/ i = m + 4
  BY <1>2, FourGrow
<1>7. IsSeq(w)
  BY DEF Grows
<1> HIDE DEF m, outs
<1>8. /\ w[m + 1].name = "text.done" /\ w[m + 1].index = 0 /\ w[m + 1].seq = m
      /\ w[m + 2].name = "part.done" /\ w[m + 2].index = 0 /\ w[m + 2].seq = m + 1
      /\ w[m + 3].name = "item.done" /\ w[m + 3].index = 0 /\ w[m + 3].seq = m + 2
      /\ w[m + 3].content = said
      /\ w[m + 4].name = "completed" /\ w[m + 4].content = answer /\ w[m + 4].seq = m + 3
  BY <1>3, <1>4
<1>9. \A i \in ItemsOf(base) : i \in 1..m /\ i \in ItemsOf(w) /\ w[i] = base[i] /\ w[i].index \in 0..Len(calls)
  BY <1>5 DEF ItemsOf, Underway, m
<1>10. /\ m + 1 \in 1..Len(w) /\ m + 2 \in 1..Len(w) /\ m + 3 \in 1..Len(w) /\ m + 4 \in 1..Len(w)
  BY <1>4
<1>11. ASSUME NEW i \in ItemsOf(w)
       PROVE  \/ i \in ItemsOf(base)
              \/ (i = m + 1 \/ i = m + 2 \/ i = m + 3) /\ w[i].index = 0 /\ w[i].name # "item.added"
  <2>1. i \in 1..Len(w) /\ w[i].name # "completed"
    BY DEF ItemsOf
  <2>2. CASE i \in 1..m
    BY <1>5, <2>1, <2>2 DEF ItemsOf, m
  <2> QED
    BY <1>6, <1>8, <2>1, <2>2
<1>12. Ordered(base)
  BY DEF Underway
<1>13. \A i \in 1..m : base[i].seq = i - 1 /\ base[i].name # "completed"
  BY DEF Underway, Ordered, m
<1>14. \A i \in ItemsOf(base) : base[i].name = "item.done" =>
          base[i].index # 0 /\ base[i].content = <<calls[base[i].index]>>
  BY DEF Underway
<1>15. PICK first \in ItemsOf(base) : base[first].name = "item.added" /\ base[first].index = 0
  BY DEF Underway
<1>16. \A i \in 1..Len(w) : w[i].seq = i - 1
  <2>1. \A i \in 1..m : w[i].seq = i - 1
    BY <1>5, <1>13
  <2>2. /\ w[m + 1].seq = (m + 1) - 1 /\ w[m + 2].seq = (m + 2) - 1
        /\ w[m + 3].seq = (m + 3) - 1 /\ w[m + 4].seq = (m + 4) - 1
    BY <1>4, <1>8
  <2> QED
    BY <1>6, <2>1, <2>2
<1>17. ASSUME NEW i \in ItemsOf(w), NEW j \in ItemsOf(w), i < j, w[i].index = w[j].index
       PROVE  w[i].name # "item.done" /\ w[j].name # "item.added"
  <2>1. CASE i \in ItemsOf(base) /\ j \in ItemsOf(base)
    BY <1>9, <1>12, <1>17, <2>1 DEF Ordered
  <2>2. CASE i \in ItemsOf(base) /\ j \notin ItemsOf(base)
    <3>1. w[j].index = 0 /\ w[j].name # "item.added"
      BY <1>11, <2>2
    <3>2. w[i] = base[i] /\ base[i].index = 0
      BY <1>9, <1>17, <2>2, <3>1
    <3> QED
      BY <1>14, <2>2, <3>1, <3>2
  <2>3. CASE i \notin ItemsOf(base) /\ j \in ItemsOf(base)
    BY <1>4, <1>9, <1>11, <1>17, <2>3, SMTT(30)
  <2>4. CASE i \notin ItemsOf(base) /\ j \notin ItemsOf(base)
    <3>1. (i = m + 1 \/ i = m + 2 \/ i = m + 3) /\ (j = m + 1 \/ j = m + 2 \/ j = m + 3)
      BY <1>11, <2>4
    <3>2. i = m + 1 \/ i = m + 2
      BY <1>4, <1>17, <3>1
    <3> QED
      BY <1>8, <3>1, <3>2
  <2> QED
    BY <2>1, <2>2, <2>3, <2>4
<1>18. ASSUME NEW j \in ItemsOf(w)
       PROVE  \E i \in ItemsOf(w) : i <= j /\ w[i].name = "item.added" /\ w[i].index = w[j].index
  <2>1. CASE j \in ItemsOf(base)
    <3>1. PICK i \in ItemsOf(base) : i <= j /\ base[i].name = "item.added" /\ base[i].index = base[j].index
      BY <1>12, <2>1 DEF Ordered
    <3> QED
      BY <1>9, <2>1, <3>1
  <2>2. CASE j \notin ItemsOf(base)
    <3>1. w[j].index = 0 /\ m + 1 <= j
      <4>1. (j = m + 1 \/ j = m + 2 \/ j = m + 3) /\ w[j].index = 0
        BY <1>11, <2>2
      <4> QED
        BY <1>4, <4>1
    <3>2. first \in ItemsOf(w) /\ w[first] = base[first] /\ first <= j
      <4>1. first \in 1..m /\ j \in 1..Len(w)
        BY <1>9 DEF ItemsOf
      <4> QED
        BY <1>4, <1>9, <3>1, <4>1
    <3> QED
      BY <1>15, <3>1, <3>2
  <2> QED
    BY <2>1, <2>2
<1>19. \A i \in 1..Len(w) : w[i].name = "text" => i \in 1..m /\ w[i] = base[i]
  BY <1>5, <1>6, <1>8
<1>20. ASSUME NEW i \in 1..Len(w), NEW j \in 1..Len(w), i < j, w[i].name = "text", w[j].name = "text"
       PROVE  w[i].content < w[j].content
  BY <1>12, <1>19, <1>20 DEF Ordered, m
<1>21. Ordered(w)
  BY <1>16, <1>17, <1>18, <1>20 DEF Ordered
<1>22. \A i \in 1..Len(w) : w[i].name = "completed" => i = m + 4
  BY <1>5, <1>6, <1>8, <1>13
<1>23. {<<w[i].index, w[i].content>> : i \in Named(w, "item.done")} = {<<i - 1, outs[i]>> : i \in DOMAIN outs}
  <2>1. ASSUME NEW i \in Named(w, "item.done")
        PROVE  \E k \in DOMAIN outs : <<w[i].index, w[i].content>> = <<k - 1, outs[k]>>
    <3>1. i \in 1..Len(w) /\ w[i].name = "item.done"
      BY DEF Named
    <3>2. CASE i \in 1..m
      <4>1. w[i] = base[i] /\ i \in ItemsOf(base)
        BY <1>5, <3>1, <3>2 DEF ItemsOf, m
      <4>2. w[i].index \in 1..Len(calls) /\ w[i].content = <<calls[w[i].index]>>
        BY <1>1, <1>9, <1>14, <3>1, <4>1
      <4> DEFINE k == w[i].index
      <4>3. k + 1 \in DOMAIN outs /\ (k + 1) - 1 = k /\ outs[k + 1] = w[i].content
        BY <1>1, <4>2
      <4> HIDE DEF k
      <4>4. <<w[i].index, w[i].content>> = <<(k + 1) - 1, outs[k + 1]>>
        BY <4>3 DEF k
      <4> QED
        BY <4>3, <4>4
    <3>3. CASE i = m + 3
      <4>1. 1 \in DOMAIN outs /\ w[i].index = 1 - 1 /\ w[i].content = outs[1]
        BY <1>1, <1>8, <3>3
      <4> QED
        BY <4>1
    <3> QED
      BY <1>6, <1>8, <3>1, <3>2, <3>3
  <2>2. ASSUME NEW k \in DOMAIN outs
        PROVE  \E i \in Named(w, "item.done") : <<w[i].index, w[i].content>> = <<k - 1, outs[k]>>
    <3>1. CASE k = 1
      <4>1. m + 3 \in Named(w, "item.done") /\ w[m + 3].index = k - 1 /\ w[m + 3].content = outs[k]
        BY <1>1, <1>8, <1>10, <3>1 DEF Named
      <4> QED
        BY <4>1
    <3>2. CASE k # 1
      <4>1. k - 1 \in 1..Len(calls) /\ outs[k] = <<calls[k - 1]>>
        <5>1. k - 1 \in 1..Len(calls) /\ (k - 1) + 1 = k
          <6>1. k \in 1..(Len(calls) + 1) /\ Len(calls) \in Nat
            BY <1>1
          <6> QED
            BY <3>2, <6>1
        <5> QED
          BY <1>1, <5>1
      <4>2. PICK i \in ItemsOf(base) : base[i].name = "item.done" /\ base[i].index = k - 1
        BY <4>1 DEF Underway
      <4>3. i \in Named(w, "item.done") /\ w[i].index = k - 1 /\ w[i].content = outs[k]
        BY <1>5, <1>9, <1>14, <4>1, <4>2 DEF Named
      <4> QED
        BY <4>3
    <3> QED
      BY <3>1, <3>2
  <2> QED
    BY <2>1, <2>2
<1>24. {w[i].index : i \in Named(w, "item.added")} = {i - 1 : i \in DOMAIN outs}
  <2>1. ASSUME NEW i \in Named(w, "item.added")
        PROVE  \E k \in DOMAIN outs : w[i].index = k - 1
    <3>1. i \in ItemsOf(w) /\ w[i].name = "item.added"
      BY DEF Named, ItemsOf
    <3>2. w[i].index \in 0..Len(calls)
      BY <1>9, <1>11, <3>1
    <3>3. w[i].index + 1 \in DOMAIN outs /\ w[i].index = (w[i].index + 1) - 1
      BY <1>1, <3>2
    <3> QED
      BY <3>3
  <2>2. ASSUME NEW k \in DOMAIN outs
        PROVE  \E i \in Named(w, "item.added") : w[i].index = k - 1
    <3>1. CASE k = 1
      <4>1. first \in Named(w, "item.added") /\ w[first].index = k - 1
        BY <1>5, <1>9, <1>15, <3>1 DEF Named
      <4> QED
        BY <4>1
    <3>2. CASE k # 1
      <4>1. k - 1 \in 1..Len(calls)
        BY <1>1, <3>2
      <4>2. PICK j \in ItemsOf(base) : base[j].name = "item.done" /\ base[j].index = k - 1
        BY <4>1 DEF Underway
      <4>3. PICK i \in ItemsOf(base) : base[i].name = "item.added" /\ base[i].index = base[j].index
        BY <1>12 DEF Ordered
      <4>4. i \in Named(w, "item.added") /\ w[i].index = k - 1
        BY <1>5, <1>9, <4>2, <4>3 DEF Named
      <4> QED
        BY <4>4
    <3> QED
      BY <3>1, <3>2
  <2> QED
    BY <2>1, <2>2
<1>25. DOMAIN said = 1..Len(said)
  <2>1. PICK S : said \in Seq(S)
    BY DEF IsSeq
  <2> QED
    BY <2>1
<1>26. Named(w, "text") = Named(base, "text") /\ \A i \in Named(base, "text") : w[i] = base[i]
  BY <1>5, <1>19 DEF Named, m
<1>27. {w[i].content : i \in Named(w, "text")} = {outs[1][i] : i \in DOMAIN outs[1]}
  <2>1. /\ \A i \in Named(base, "text") : \E k \in 1..Len(said) : said[k] = base[i].content
        /\ \A k \in 1..Len(said) : \E i \in Named(base, "text") : base[i].content = said[k]
    BY DEF Underway
  <2>2. {base[i].content : i \in Named(base, "text")} = {said[i] : i \in 1..Len(said)}
    <3>1. ASSUME NEW i \in Named(base, "text")
          PROVE  base[i].content \in {said[k] : k \in 1..Len(said)}
      BY <2>1
    <3>2. ASSUME NEW k \in 1..Len(said)
          PROVE  said[k] \in {base[i].content : i \in Named(base, "text")}
      BY <2>1
    <3> QED
      BY <3>1, <3>2
  <2>3. {w[i].content : i \in Named(w, "text")} = {base[i].content : i \in Named(base, "text")}
    BY <1>26
  <2> QED
    BY <1>1, <1>25, <2>2, <2>3
<1>28. \A i, j \in DOMAIN outs[1] : i < j => outs[1][i] < outs[1][j]
  BY <1>1, <1>25 DEF Underway
<1>29. w[m + 4].content.outputs = outs
  BY <1>8 DEF outs
<1>30. Completed(w)
  <2> SUFFICES ASSUME NEW k \in 1..Len(w), w[k].name = "completed"
               PROVE  /\ {<<w[i].index, w[i].content>> : i \in Named(w, "item.done")}
                            = {<<i - 1, w[k].content.outputs[i]>> : i \in DOMAIN w[k].content.outputs}
                      /\ {w[i].index : i \in Named(w, "item.added")}
                            = {i - 1 : i \in DOMAIN w[k].content.outputs}
                      /\ {w[i].content : i \in Named(w, "text")}
                            = {w[k].content.outputs[1][i] : i \in DOMAIN w[k].content.outputs[1]}
                      /\ \A i, j \in DOMAIN w[k].content.outputs[1] : i < j =>
                            w[k].content.outputs[1][i] < w[k].content.outputs[1][j]
    BY DEF Completed
  <2>1. w[k].content.outputs = outs
    BY <1>22, <1>29
  <2> QED
    BY <1>23, <1>24, <1>27, <1>28, <2>1
<1> QED
  BY <1>4, <1>7, <1>21, <1>22, <1>30

(* An event of a stream that goes on, and the last one.                    *)
LEMMA EventLives ==
    ASSUME TypeInv, LifeInv, format' = format, phase = "open",
           NEW fs, IsSeq(fs), NEW next \in {"open", "done"}, Emit(fs, next),
           \A base, w : Underway(base, toolCalls, text) /\ Grows(base, fs, w) =>
              /\ IsSeq(w) /\ Ordered(w) /\ Completed(w)
              /\ \A i \in 1..Len(w) : w[i].name = "completed" => i = Len(w)
              /\ next = "open" => Underway(w, toolCalls', text')
    PROVE  LifeInv'
<1> SUFFICES ASSUME format = "openai-response" PROVE LifeInv'
  BY DEF LifeInv
<1>1. PICK base, w :
         /\ Underway(base, toolCalls, text) /\ Grows(base, fs, w) /\ Begins(out', w)
         /\ opened' = TRUE /\ seq' = Len(w)
         /\ phase' = IF Len(out') = Len(w) THEN next ELSE "refused"
  BY EmitGrows
<1>2. /\ IsSeq(w) /\ Ordered(w) /\ Completed(w)
      /\ \A i \in 1..Len(w) : w[i].name = "completed" => i = Len(w)
      /\ next = "open" => Underway(w, toolCalls', text')
  BY <1>1
<1>3. Ordered(out') /\ Completed(out')
  BY <1>1, <1>2, BeginningOfLife
<1>4. ASSUME phase' = "open"
      PROVE  seq' = Len(out') /\ Underway(out', toolCalls', text')
  <2>1. Len(out') = Len(w) /\ next = "open"
    BY <1>1, <1>4
  <2>2. out' = w
    BY <1>1, <1>2, <2>1, SameSequence
  <2> QED
    BY <1>1, <1>2, <2>1, <2>2
<1> QED
  BY <1>1, <1>3, <1>4 DEF LifeInv

LEMMA LifeInit == Init => LifeInv
<1> SUFFICES ASSUME Init PROVE LifeInv
  OBVIOUS
<1>1. out = <<>> /\ Len(out) = 0 /\ 1..Len(out) = {}
  BY DEF Init
<1>2. ItemsOf(out) = {}
  BY <1>1 DEF ItemsOf
<1>3. Ordered(out) /\ Completed(out)
  BY <1>1, <1>2 DEF Ordered, Completed
<1> QED
  BY <1>1, <1>3 DEF Init, LifeInv

LEMMA LifeStep ==
    ASSUME TypeInv, LifeInv, [Next]_framesVars
    PROVE  LifeInv'
<1> DEFINE n == Len(events)
<1>0. n \in Nat
  <2>1. PICK S : events \in Seq(S)
    BY DEF TypeInv, IsSeq
  <2> QED
    BY <2>1
<1>1. /\ text \in Seq(1..n) /\ IsSeq(text) /\ toolCalls \in Seq(1..n) /\ IsSeq(toolCalls)
      /\ Len(toolCalls) \in Nat
  BY DEF TypeInv, PiecesOK, IsSeq
<1> HIDE DEF n
<1> SUFFICES ASSUME format = "openai-response" \/ format' # format PROVE LifeInv'
  <2>1. CASE format # "openai-response" /\ format' = format
    BY <2>1 DEF LifeInv
  <2> QED
    BY <2>1
<1>2. ASSUME NEW e \in UsageEvents, Usage(e)
      PROVE  LifeInv'
  BY <1>2 DEF Usage, Consume, LifeInv
<1>3. CASE TextDelta
  <2> DEFINE fs == <<Frame("text", 0, n + 1)>>
  <2>1. /\ phase = "open" /\ format' = format /\ Emit(fs, "open") /\ toolCalls' = toolCalls
        /\ text' = IF format = "openai-response" THEN Append(text, n + 1) ELSE text
    BY <1>3 DEF TextDelta, Consume, This, n
  <2>2. IsSeq(fs)
    BY Single
  <2>3. ASSUME NEW base, NEW w, Underway(base, toolCalls, text), Grows(base, fs, w)
        PROVE  Underway(w, toolCalls', text')
    BY <1>0, <1>1, <2>1, <2>3, TextGrows
  <2> HIDE DEF fs
  <2> QED
    BY <2>1, <2>2, <2>3, UnderwayIsLife, EventLives
<1>4. CASE ThinkingDelta
  <2> DEFINE fs == <<>>
  <2>1. /\ phase = "open" /\ format' = format /\ format = "openai-response"
        /\ Emit(fs, "open") /\ toolCalls' = toolCalls /\ text' = text
    BY <1>4 DEF ThinkingDelta, Consume
  <2>2. IsSeq(fs) /\ Len(fs) = 0
    BY Nothing
  <2> HIDE DEF fs
  <2>3. ASSUME NEW base, NEW w, Underway(base, toolCalls, text), Grows(base, fs, w)
        PROVE  Underway(w, toolCalls', text')
    <3>1. Len(w) = Len(base) /\ IsSeq(w) /\ IsSeq(base) /\ \A i \in 1..Len(base) : w[i] = base[i]
      BY <2>2, <2>3, ItemsGrow DEF Grows
    <3>2. Begins(base, w)
      BY <3>1, Nothing, Joined DEF Begins
    <3>3. base = w
      BY <3>1, <3>2, SameSequence
    <3> QED
      BY <2>1, <2>3, <3>3
  <2> QED
    BY <2>1, <2>2, <2>3, UnderwayIsLife, EventLives
<1>5. CASE ToolCall
  BY <1>5 DEF ToolCall, Consume
<1>6. CASE ResponseToolCall
  <2> DEFINE fs == ToolItem(Len(toolCalls) + 1, n + 1)
  <2>1. /\ phase = "open" /\ format' = format /\ toolCalls' = Append(toolCalls, n + 1) /\ text' = text
        /\ Emit(ToolItem(Len(toolCalls'), n + 1), "open")
    BY <1>6 DEF ResponseToolCall, Consume, This, n
  <2>2. Len(toolCalls') = Len(toolCalls) + 1
    <3>1. toolCalls \in Seq(Nat) /\ n + 1 \in Nat
      BY <1>0, <1>1
    <3> QED
      BY <2>1, <3>1
  <2>3. Emit(fs, "open")
    BY <2>1, <2>2
  <2>4. IsSeq(fs)
    <3>1. ASSUME NEW a, NEW b, NEW c, NEW d
          PROVE  IsSeq(<<a, b, c, d>>)
      <4>1. <<a, b, c, d>> \in Seq({a, b, c, d})
        OBVIOUS
      <4> QED
        BY <4>1 DEF IsSeq
    <3> QED
      BY <3>1 DEF ToolItem
  <2>5. ASSUME NEW base, NEW w, Underway(base, toolCalls, text), Grows(base, fs, w)
        PROVE  Underway(w, toolCalls', text')
    BY <1>1, <2>1, <2>5, CallGrows
  <2> HIDE DEF fs
  <2> QED
    BY <2>1, <2>3, <2>4, <2>5, UnderwayIsLife, EventLives
<1>7. CASE Done
  <2> DEFINE answer == [outputs |-> <<text>> \o CallItems(toolCalls),
                        usage |-> UsageBlock(format, usage)]
             fs == <<Frame("text.done", 0, text), Frame("part.done", 0, text),
                     Frame("item.done", 0, text), Frame("completed", 0, answer)>>
  <2>1. phase = "open" /\ format' = format /\ format = "openai-response"
    BY <1>7 DEF Done, Consume
  <2>2. Emit(fs, "done")
    BY <1>7, <2>1 DEF Done
  <2>3. answer.outputs = <<text>> \o CallItems(toolCalls)
    OBVIOUS
  <2> HIDE DEF answer
  <2>4. IsSeq(fs)
    <3>1. ASSUME NEW a, NEW b, NEW c, NEW d
          PROVE  IsSeq(<<a, b, c, d>>)
      <4>1. <<a, b, c, d>> \in Seq({a, b, c, d})
        OBVIOUS
      <4> QED
        BY <4>1 DEF IsSeq
    <3> QED
      BY <3>1
  <2>5. ASSUME NEW base, NEW w, Underway(base, toolCalls, text), Grows(base, fs, w)
        PROVE  /\ IsSeq(w) /\ Ordered(w) /\ Completed(w)
               /\ \A i \in 1..Len(w) : w[i].name = "completed" => i = Len(w)
    BY <1>1, <2>3, <2>5, DoneGrows
  <2> HIDE DEF fs
  <2> QED
    BY <2>1, <2>2, <2>4, <2>5, EventLives
<1>8. CASE TurnBreaks
  BY <1>8 DEF TurnBreaks, stateVars, LifeInv
<1>9. CASE UNCHANGED framesVars
  BY <1>9 DEF framesVars, stateVars, LifeInv
<1> QED
  BY <1>2, <1>3, <1>4, <1>5, <1>6, <1>7, <1>8, <1>9 DEF Next

LEMMA LifeInvariance == Spec => [](TypeInv /\ LifeInv)
<1>1. Init => TypeInv /\ LifeInv
  BY TypeInit, LifeInit
<1>2. TypeInv /\ LifeInv /\ [Next]_framesVars => (TypeInv /\ LifeInv)'
  BY TypeStep, LifeStep
<1> QED
  BY <1>1, <1>2, PTL DEF Spec

(* A Responses client that was sent any number of pieces and calls, up to  *)
(* wherever the host stopped accepting, has got events numbered without a  *)
(* gap, each item added before and done after all that is said of it, and  *)
(* a final output that is what was announced, index by index               *)
(* (openAIResponseFrames, responseToolItem, responseEvent).                *)
THEOREM ResponsesLiveTheirLives == Spec => []ResponsesLifecycle
<1>1. TypeInv /\ LifeInv => ResponsesLifecycle
  <2> SUFFICES ASSUME TypeInv, LifeInv, format = "openai-response" PROVE ResponsesLifecycle
    BY DEF ResponsesLifecycle
  <2>1. PICK R : out \in Seq(R)
    BY DEF TypeInv, FramesOK, IsSeq
  <2>2. DOMAIN out = 1..Len(out)
    BY <2>1
  <2>3. ItemFrames = ItemsOf(out) /\ \A name : Positions(name) = Named(out, name)
    BY <2>2 DEF ItemFrames, ItemsOf, Positions, Named
  <2>4. Ordered(out) /\ Completed(out)
    BY DEF LifeInv
  <2>5. /\ \A i \in DOMAIN out : out[i].seq = i - 1
        /\ \A i, j \in ItemFrames : i < j /\ out[i].index = out[j].index =>
              out[i].name # "item.done" /\ out[j].name # "item.added"
        /\ \A j \in ItemFrames : \E i \in ItemFrames :
              i <= j /\ out[i].name = "item.added" /\ out[i].index = out[j].index
    BY <2>2, <2>3, <2>4 DEF Ordered
  <2>6. \A i, j \in Positions("text") : i < j => out[i].content < out[j].content
    BY <2>3, <2>4 DEF Ordered, Named
  <2>7. ASSUME NEW k \in DOMAIN out, out[k].name = "completed"
        PROVE  LET outputs == out[k].content.outputs
               IN /\ Said("item.done") = {<<i - 1, outputs[i]>> : i \in DOMAIN outputs}
                  /\ {out[i].index : i \in Positions("item.added")} = {i - 1 : i \in DOMAIN outputs}
                  /\ {out[i].content : i \in Positions("text")} = {outputs[1][i] : i \in DOMAIN outputs[1]}
                  /\ \A i, j \in DOMAIN outputs[1] : i < j => outputs[1][i] < outputs[1][j]
    BY <2>2, <2>3, <2>4, <2>7 DEF Completed, Said
  <2> QED
    BY <2>5, <2>6, <2>7 DEF ResponsesLifecycle
<1> QED
  BY <1>1, LifeInvariance, PTL

-----------------------------------------------------------------------------
(* The value a field has after the first k fields of a report.             *)
LastValue(fields, k, n, v) ==
    \/ v = 0 /\ \A i \in 1..k : fields[i].number # n
    \/ \E i \in 1..k : /\ fields[i].number = n /\ v = fields[i].value
                       /\ \A j \in 1..k : fields[j].number = n => j <= i

(* A report counts what its fields said last, and is one if it has a known *)
(* field.                                                                  *)
LEMMA ReportCounts ==
    ASSUME NEW fields \in Seq(Field)
    PROVE  /\ UsageFromTurnEnded(fields).reported <=> \E i \in 1..Len(fields) : fields[i].number \in 1..5
           /\ \A n \in 1..5 : LastValue(fields, Len(fields), n, UsageFromTurnEnded(fields).count[n])
<1>1. PICK c : ReportSteps(c, fields) /\ UsageFromTurnEnded(fields) = c[Len(fields)]
  BY ReportFold
<1> DEFINE l == Len(fields)
           Known == {k \in 0..l :
                       /\ c[k].reported <=> \E i \in 1..k : fields[i].number \in 1..5
                       /\ \A n \in 1..5 : LastValue(fields, k, n, c[k].count[n])}
<1>2. l \in Nat
  OBVIOUS
<1> HIDE DEF l
<1>3. 0 \in Known
  <2>1. c[0] = NoUsage /\ 0 \in 0..l /\ 1..0 = {}
    BY <1>1, <1>2 DEF ReportSteps
  <2>2. ~ NoUsage.reported /\ \A n \in 1..5 : NoUsage.count[n] = 0
    BY DEF NoUsage
  <2> QED
    BY <2>1, <2>2 DEF LastValue
<1>4. ASSUME NEW k \in 1..l, k - 1 \in Known
      PROVE  k \in Known
  <2>1. c[k] = ReadField(c[k - 1], fields[k]) /\ c[k - 1] \in Usages
    BY <1>1 DEF ReportSteps, l
  <2>2. fields[k].number \in Nat
    <3>1. fields[k] \in Field
      BY DEF l
    <3> QED
      BY <3>1 DEF Field
  <2>3. \A i \in 1..k : i \in 1..(k - 1) \/ i = k
    OBVIOUS
  <2>4. \A i \in 1..(k - 1) : i \in 1..k /\ i <= k /\ i # k
    OBVIOUS
  <2>5. c[k].reported <=> \E i \in 1..k : fields[i].number \in 1..5
    <3>1. c[k - 1].reported <=> \E i \in 1..(k - 1) : fields[i].number \in 1..5
      BY <1>4
    <3>2. k \in 1..k
      OBVIOUS
    <3>3. CASE fields[k].number \in 1..5
      BY <2>1, <3>2, <3>3 DEF ReadField
    <3>4. CASE fields[k].number \notin 1..5
      <4>1. c[k] = c[k - 1]
        BY <2>1, <3>4 DEF ReadField
      <4> QED
        BY <2>3, <2>4, <3>1, <3>4, <4>1
    <3> QED
      BY <3>3, <3>4
  <2>6. ASSUME NEW n \in 1..5
        PROVE  LastValue(fields, k, n, c[k].count[n])
    <3>1. LastValue(fields, k - 1, n, c[k - 1].count[n])
      BY <1>4
    <3>2. CASE fields[k].number = n
      <4>1. c[k].count = [c[k - 1].count EXCEPT ![n] = fields[k].value]
        BY <2>1, <3>2 DEF ReadField
      <4>2. c[k - 1].count \in [1..5 -> Int]
        BY <2>1 DEF Usages
      <4>3. c[k].count[n] = fields[k].value
        BY <4>1, <4>2
      <4>4. k \in 1..k /\ \A j \in 1..k : j <= k
        OBVIOUS
      <4> QED
        BY <3>2, <4>3, <4>4 DEF LastValue
    <3>3. CASE fields[k].number # n
      <4>1. c[k].count[n] = c[k - 1].count[n]
        <5>1. c[k - 1].count \in [1..5 -> Int]
          BY <2>1 DEF Usages
        <5>2. CASE fields[k].number \in 1..5
          BY <2>1, <3>3, <5>1, <5>2 DEF ReadField
        <5>3. CASE fields[k].number \notin 1..5
          BY <2>1, <5>3 DEF ReadField
        <5> QED
          BY <5>2, <5>3
      <4>2. CASE c[k - 1].count[n] = 0 /\ \A i \in 1..(k - 1) : fields[i].number # n
        BY <2>3, <3>3, <4>1, <4>2 DEF LastValue
      <4>3. ASSUME NEW i \in 1..(k - 1), fields[i].number = n, c[k - 1].count[n] = fields[i].value,
                   \A j \in 1..(k - 1) : fields[j].number = n => j <= i
            PROVE  LastValue(fields, k, n, c[k].count[n])
        BY <2>3, <2>4, <3>3, <4>1, <4>3 DEF LastValue
      <4> QED
        BY <3>1, <4>2, <4>3 DEF LastValue
    <3> QED
      BY <3>2, <3>3
  <2> QED
    BY <2>5, <2>6
<1> HIDE DEF Known
<1>5. \A k \in 0..l : k \in Known
  BY <1>2, <1>3, <1>4, EachPosition
<1>6. l \in Known
  BY <1>2, <1>5
<1> QED
  BY <1>1, <1>6 DEF Known, l

LEMMA LastIsReported ==
    ASSUME NEW fields \in Seq(Field), NEW n, NEW v, LastValue(fields, Len(fields), n, v)
    PROVE  v = ReportedValue(fields, n)
<1> DEFINE at == {i \in DOMAIN fields : fields[i].number = n}
           chosen == CHOOSE i \in at : \A j \in at : j <= i
<1>1. DOMAIN fields = 1..Len(fields)
  OBVIOUS
<1>2. CASE v = 0 /\ \A i \in 1..Len(fields) : fields[i].number # n
  <2>1. at = {}
    BY <1>1, <1>2
  <2> QED
    BY <1>2, <2>1 DEF ReportedValue
<1>3. ASSUME NEW i \in 1..Len(fields), fields[i].number = n, v = fields[i].value,
             \A j \in 1..Len(fields) : fields[j].number = n => j <= i
      PROVE  v = ReportedValue(fields, n)
  <2>1. i \in at /\ \A j \in at : j <= i /\ j \in Int
    BY <1>1, <1>3
  <2>2. ReportedValue(fields, n) = fields[chosen].value
    BY <2>1 DEF ReportedValue
  <2> HIDE DEF at
  <2>3. chosen \in at /\ \A j \in at : j <= chosen
    BY <2>1
  <2> HIDE DEF chosen
  <2>4. chosen \in Int /\ i \in Int /\ chosen <= i /\ i <= chosen
    BY <2>1, <2>3
  <2>5. chosen = i
    BY <2>4
  <2> QED
    BY <1>3, <2>2, <2>5
<1> QED
  BY <1>2, <1>3 DEF LastValue

(* DeltaSum adds one event after the other.                                *)
AddTokens(sum, e) == IF e.type = "usage" THEN sum + e.tokens ELSE sum

HasTokens(es) == IsSeq(es) /\ \A i \in 1..Len(es) : es[i].type = "usage" => es[i].tokens \in Int

SumSteps(c, es) ==
    /\ c[0] = 0
    /\ \A k \in 1..Len(es) : c[k] = AddTokens(c[k - 1], es[k])
    /\ \A k \in 0..Len(es) : c[k] \in Int

LEMMA SumFold ==
    ASSUME NEW es, HasTokens(es)
    PROVE  \E c : SumSteps(c, es) /\ DeltaSum(es) = c[Len(es)]
<1> DEFINE n == Len(es)
           Computes(g) == g = [k \in 0..n |-> IF k = 0 THEN 0 ELSE AddTokens(g[k - 1], es[k])]
           step == [k \in 1..n |-> [u \in Int |-> AddTokens(u, es[k])]]
           c == CHOOSE g : Computes(g)
<1>1. n \in Nat
  <2>1. PICK S : es \in Seq(S)
    BY DEF HasTokens, IsSeq
  <2> QED
    BY <2>1
<1>2. ASSUME NEW k \in 1..n, NEW before \in Int
      PROVE  AddTokens(before, es[k]) \in Int
  BY DEF HasTokens, AddTokens
<1>3. DeltaSum(es) = c[n]
  BY DEF DeltaSum, AddTokens
<1> HIDE DEF n
<1>4. \E g : Computes(g)
  <2>1. step \in [1..n -> [Int -> Int]]
    BY <1>2
  <2>2. \A k \in 1..n, u \in Int : step[k][u] = AddTokens(u, es[k])
    OBVIOUS
  <2> HIDE DEF step
  <2>3. PICK g : Follows(g, n, Int, 0, step)
    <3>1. 0 \in Int
      OBVIOUS
    <3> QED
      BY <1>1, <2>1, <3>1, Recursion
  <2>4. ASSUME NEW k \in 0..n
        PROVE  g[k] = IF k = 0 THEN 0 ELSE AddTokens(g[k - 1], es[k])
    <3>1. CASE k = 0
      BY <2>3, <3>1 DEF Follows
    <3>2. CASE k # 0
      <4>1. k \in 1..n /\ k - 1 \in 0..n
        BY <1>1, <3>2
      <4>2. g[k] = step[k][g[k - 1]] /\ g[k - 1] \in Int
        BY <2>3, <3>2, <4>1 DEF Follows
      <4> QED
        BY <2>2, <3>2, <4>1, <4>2
    <3> QED
      BY <3>1, <3>2
  <2>5. g = [k \in 0..n |-> g[k]]
    BY <2>3 DEF Follows
  <2>6. Computes(g)
    BY <2>4, <2>5
  <2> HIDE DEF Computes
  <2> QED
    BY <2>6
<1>5. Computes(c)
  <2> HIDE DEF Computes
  <2> QED
    BY <1>4
<1> HIDE DEF c
<1>6. c[0] = 0 /\ \A k \in 1..n : c[k] = AddTokens(c[k - 1], es[k])
  <2>1. \A k \in 0..n : c[k] = IF k = 0 THEN 0 ELSE AddTokens(c[k - 1], es[k])
    BY <1>5
  <2>2. 0 \in 0..n /\ \A k \in 1..n : k \in 0..n /\ k # 0
    BY <1>1
  <2> QED
    BY <2>1, <2>2
<1> DEFINE Typed == {k \in 0..n : c[k] \in Int}
<1>7. 0 \in Typed
  BY <1>1, <1>6
<1>8. ASSUME NEW k \in 1..n, k - 1 \in Typed
      PROVE  k \in Typed
  BY <1>2, <1>6, <1>8
<1> HIDE DEF Typed
<1>9. \A k \in 0..n : k \in Typed
  BY <1>1, <1>7, <1>8, EachPosition
<1>10. SumSteps(c, es)
  BY <1>6, <1>9 DEF SumSteps, Typed, n
<1> QED
  BY <1>3, <1>10 DEF n

(* One more event adds its tokens, if it has any.                          *)
LEMMA SumGrows ==
    ASSUME NEW es, NEW e, HasTokens(es), e.type = "usage" => e.tokens \in Int
    PROVE  DeltaSum(Append(es, e)) = AddTokens(DeltaSum(es), e)
<1> DEFINE longer == Append(es, e)
           n == Len(es)
<1>1. PICK S : es \in Seq(S)
  BY DEF HasTokens, IsSeq
<1>2. /\ longer \in Seq(S \cup {e}) /\ n \in Nat /\ Len(longer) = n + 1
      /\ longer[n + 1] = e /\ \A i \in 1..n : longer[i] = es[i]
  <2>1. es \in Seq(S \cup {e})
    BY <1>1
  <2> QED
    BY <2>1
<1> HIDE DEF longer
<1>3. HasTokens(longer)
  <2>1. ASSUME NEW i \in 1..Len(longer), longer[i].type = "usage"
        PROVE  longer[i].tokens \in Int
    <3>1. i \in 1..n \/ i = n + 1
      BY <1>2
    <3> QED
      BY <1>2, <2>1, <3>1 DEF HasTokens
  <2> QED
    BY <1>2, <2>1 DEF HasTokens, IsSeq
<1>4. PICK c : SumSteps(c, es) /\ DeltaSum(es) = c[n]
  BY SumFold
<1>5. PICK d : SumSteps(d, longer) /\ DeltaSum(longer) = d[n + 1]
  BY <1>2, <1>3, SumFold
<1>6. d[0] = 0 /\ \A k \in 1..(n + 1) : d[k] = AddTokens(d[k - 1], longer[k])
  BY <1>2, <1>5 DEF SumSteps
<1>7. c[0] = 0 /\ \A k \in 1..n : c[k] = AddTokens(c[k - 1], es[k])
  BY <1>4 DEF SumSteps
<1> DEFINE Same == {k \in 0..n : c[k] = d[k]}
<1>8. 0 \in Same
  BY <1>2, <1>6, <1>7
<1>9. ASSUME NEW k \in 1..n, k - 1 \in Same
      PROVE  k \in Same
  <2>1. c[k - 1] = d[k - 1] /\ longer[k] = es[k] /\ k \in 1..(n + 1) /\ k \in 0..n
    BY <1>2, <1>9
  <2> QED
    BY <1>6, <1>7, <2>1
<1> HIDE DEF Same
<1>10. \A k \in 0..n : k \in Same
  BY <1>2, <1>8, <1>9, EachPosition
<1>11. c[n] = d[n]
  BY <1>2, <1>10 DEF Same
<1>12. d[n + 1] = AddTokens(d[n], e)
  <2>1. n + 1 \in 1..(n + 1) /\ (n + 1) - 1 = n
    BY <1>2
  <2> QED
    BY <1>2, <1>6, <2>1
<1> QED
  BY <1>4, <1>5, <1>11, <1>12 DEF longer

(* An event that reports usage.                                            *)
IsReport(e) == e.type = "usage" /\ \E j \in 1..Len(e.fields) : e.fields[j].number \in 1..5

SumOnly(sum) == [count |-> [NoUsage.count EXCEPT ![Output] = sum], reported |-> FALSE]

(* The usage kept is that of the last report, and the sum of the deltas    *)
(* as long as there is none; the last frame says what is kept.             *)
Kept(es, u) ==
    \/ (\A i \in 1..Len(es) : ~ IsReport(es[i])) /\ u = SumOnly(DeltaSum(es))
    \/ \E i \in 1..Len(es) : /\ IsReport(es[i]) /\ u = UsageFromTurnEnded(es[i].fields)
                             /\ \A j \in 1..Len(es) : IsReport(es[j]) => j <= i

UsageTyped(es) == IsSeq(es) /\ \A i \in 1..Len(es) : es[i].type = "usage" => es[i] \in UsageEvents

UsageInv ==
    /\ UsageTyped(events)
    /\ Kept(events, usage)
    /\ phase = "done" => Len(out) > 0 /\ out[Len(out)].content.usage = UsageBlock(format, usage)

(* What a usage event brings: tokens, or a report if it has a known field. *)
LEMMA EventSays ==
    ASSUME NEW e \in UsageEvents
    PROVE  /\ e.type = "usage" /\ e.tokens \in Int /\ e.fields \in Seq(Field)
           /\ IsReport(e) <=> e.usage.reported
           /\ IsReport(e) => e.fields \in WellFormed /\ e.usage = UsageFromTurnEnded(e.fields)
<1>1. ASSUME NEW n \in TokenDeltas, e = TokenDelta(n)
      PROVE  /\ e.type = "usage" /\ e.tokens \in Int /\ e.fields \in Seq(Field)
             /\ ~ IsReport(e) /\ ~ e.usage.reported
  <2>1. e.type = "usage" /\ e.tokens = n /\ e.fields = <<>> /\ ~ e.usage.reported
    BY <1>1 DEF TokenDelta, NoUsage
  <2>2. n \in Int /\ <<>> \in Seq(Field) /\ 1..Len(<<>>) = {}
    BY StreamFramesAssumption
  <2> QED
    BY <2>1, <2>2 DEF IsReport
<1>2. ASSUME NEW fields \in WellFormed, e = TurnEnded(fields)
      PROVE  /\ e.type = "usage" /\ e.tokens \in Int /\ e.fields \in Seq(Field)
             /\ IsReport(e) <=> e.usage.reported
             /\ e.fields \in WellFormed /\ e.usage = UsageFromTurnEnded(e.fields)
  <2>1. e.type = "usage" /\ e.tokens = 0 /\ e.fields = fields /\ e.usage = UsageFromTurnEnded(fields)
    BY <1>2 DEF TurnEnded
  <2>2. fields \in Seq(Field)
    BY StreamFramesAssumption DEF WellFormed
  <2>3. e.usage.reported <=> \E i \in 1..Len(fields) : fields[i].number \in 1..5
    BY <2>1, <2>2, ReportCounts
  <2> QED
    BY <2>1, <2>2, <2>3 DEF IsReport
<1> QED
  BY <1>1, <1>2 DEF UsageEvents

LEMMA SumMore ==
    ASSUME NEW sum, NEW tokens
    PROVE  [SumOnly(sum) EXCEPT !.count[Output] = @ + tokens] = SumOnly(sum + tokens)
<1> DEFINE zero == [n \in 1 .. 5 |-> 0]
           c == [zero EXCEPT ![Output] = sum]
<1>1. Output \in 1..5
  BY DEF Output
<1>2. SumOnly(sum) = [count |-> c, reported |-> FALSE]
  BY DEF SumOnly, NoUsage
<1>3. SumOnly(sum + tokens) = [count |-> [zero EXCEPT ![Output] = sum + tokens], reported |-> FALSE]
  BY DEF SumOnly, NoUsage
<1> HIDE DEF Output
<1>4. c[Output] = sum
  BY <1>1
<1>5. [c EXCEPT ![Output] = sum + tokens] = [zero EXCEPT ![Output] = sum + tokens]
  BY <1>1
<1> HIDE DEF c, zero
<1>6. [SumOnly(sum) EXCEPT !.count[Output] = @ + tokens]
         = [count |-> [c EXCEPT ![Output] = c[Output] + tokens], reported |-> FALSE]
  <2>1. ASSUME NEW u, u = [count |-> u.count, reported |-> u.reported]
        PROVE  [u EXCEPT !.count[Output] = @ + tokens]
                  = [count |-> [u.count EXCEPT ![Output] = u.count[Output] + tokens], reported |-> u.reported]
    BY <2>1
  <2>2. SumOnly(sum).count = c /\ SumOnly(sum).reported = FALSE
    BY <1>2
  <2> QED
    BY <1>2, <2>1, <2>2
<1> QED
  BY <1>3, <1>4, <1>5, <1>6

LEMMA KeptObserves ==
    ASSUME NEW es, NEW u, NEW e, UsageTyped(es), Kept(es, u), e.type = "usage" => e \in UsageEvents
    PROVE  Kept(Append(es, e), IF e.type = "usage" THEN Observe(u, e) ELSE u)
<1> DEFINE longer == Append(es, e)
           n == Len(es)
           next == IF e.type = "usage" THEN Observe(u, e) ELSE u
<1>1. /\ n \in Nat /\ Len(longer) = n + 1
      /\ longer[n + 1] = e /\ \A i \in 1..n : longer[i] = es[i]
  <2>1. PICK S : es \in Seq(S)
    BY DEF UsageTyped, IsSeq
  <2>2. es \in Seq(S \cup {e})
    BY <2>1
  <2> QED
    BY <2>2
<1>2. DeltaSum(longer) = AddTokens(DeltaSum(es), e)
  <2>1. HasTokens(es)
    BY EventSays DEF UsageTyped, HasTokens
  <2> QED
    BY <2>1, EventSays, SumGrows
<1> HIDE DEF longer
<1>3. \A i \in 1..(n + 1) : i \in 1..n \/ i = n + 1
  BY <1>1
<1>4. n + 1 \in 1..(n + 1) /\ \A i \in 1..n : i \in 1..(n + 1) /\ i <= n + 1
  BY <1>1
<1> HIDE DEF n
<1>5. CASE IsReport(e)
  <2>1. e.type = "usage" /\ next = UsageFromTurnEnded(e.fields)
    BY <1>5, EventSays DEF IsReport, Observe
  <2>2. \A j \in 1..(n + 1) : j <= n + 1
    BY <1>3, <1>4
  <2> QED
    BY <1>1, <1>4, <1>5, <2>1, <2>2 DEF Kept, longer
<1>6. CASE ~ IsReport(e)
  <2>1. ASSUME \A i \in 1..n : ~ IsReport(es[i]), u = SumOnly(DeltaSum(es))
        PROVE  Kept(longer, next)
    <3>1. \A i \in 1..(n + 1) : ~ IsReport(longer[i])
      BY <1>1, <1>3, <1>6, <2>1
    <3>2. next = SumOnly(DeltaSum(longer))
      <4>1. CASE e.type = "usage"
        <5>1. ~ e.usage.reported /\ e.tokens \in Int /\ ~ u.reported
          BY <1>6, <2>1, <4>1, EventSays DEF SumOnly
        <5>2. next = [u EXCEPT !.count[Output] = @ + e.tokens]
          BY <4>1, <5>1 DEF Observe
        <5>3. DeltaSum(longer) = DeltaSum(es) + e.tokens
          BY <1>2, <4>1 DEF AddTokens
        <5>4. [SumOnly(DeltaSum(es)) EXCEPT !.count[Output] = @ + e.tokens] = SumOnly(DeltaSum(es) + e.tokens)
          BY SumMore
        <5> QED
          BY <2>1, <5>2, <5>3, <5>4
      <4>2. CASE e.type # "usage"
        BY <1>2, <2>1, <4>2 DEF AddTokens
      <4> QED
        BY <4>1, <4>2
    <3> QED
      BY <1>1, <3>1, <3>2 DEF Kept
  <2>2. ASSUME NEW i \in 1..n, IsReport(es[i]), u = UsageFromTurnEnded(es[i].fields),
               \A j \in 1..n : IsReport(es[j]) => j <= i
        PROVE  Kept(longer, next)
    <3>1. es[i] \in UsageEvents
      BY <2>2 DEF IsReport, UsageTyped, n
    <3>2. u.reported
      BY <2>2, <3>1, EventSays
    <3>3. next = u
      <4>1. e.type = "usage" => ~ e.usage.reported
        BY <1>6, EventSays
      <4> QED
        BY <3>2, <4>1 DEF Observe
    <3>4. i \in 1..(n + 1) /\ longer[i] = es[i]
      BY <1>1, <1>4
    <3>5. \A j \in 1..(n + 1) : IsReport(longer[j]) => j <= i
      BY <1>1, <1>3, <1>6, <2>2
    <3> QED
      BY <1>1, <2>2, <3>3, <3>4, <3>5 DEF Kept
  <2>3. \/ (\A i \in 1..n : ~ IsReport(es[i])) /\ u = SumOnly(DeltaSum(es))
        \/ \E i \in 1..n : /\ IsReport(es[i]) /\ u = UsageFromTurnEnded(es[i].fields)
                          /\ \A j \in 1..n : IsReport(es[j]) => j <= i
    BY DEF Kept, n
  <2> HIDE DEF next
  <2> QED
    BY <2>1, <2>2, <2>3 DEF next, longer
<1> QED
  BY <1>5, <1>6 DEF longer

(* The last frame of a stream that was sent whole.                         *)
LEMMA LastEmitted ==
    ASSUME IsSeq(out), seq \in Nat, NEW fs, IsSeq(fs), Len(fs) > 0,
           NEW content, \E name : fs[Len(fs)] = Frame(name, 0, content),
           Emit(fs, "done"), phase' = "done"
    PROVE  /\ Len(out') > 0 /\ out'[Len(out')].content = content
           /\ out'[Len(out')].name = fs[Len(fs)].name
<1> DEFINE all == Opening \o fs
<1>1. IsSeq(Opening)
  BY OpeningFrames DEF IsFrames
<1>2. /\ Len(all) = Len(Opening) + Len(fs) /\ Len(Opening) \in Nat /\ Len(fs) \in Nat
      /\ all[Len(Opening) + Len(fs)] = fs[Len(fs)]
  <2>1. /\ Len(all) = Len(Opening) + Len(fs) /\ Len(Opening) \in Nat /\ Len(fs) \in Nat
        /\ \A i \in 1..Len(fs) : all[Len(Opening) + i] = fs[i]
    BY <1>1, Joined
  <2>2. Len(fs) \in 1..Len(fs)
    BY <2>1
  <2> QED
    BY <2>1, <2>2
<1>3. PICK k \in 0..Len(all) :
         /\ Len(out') = Len(out) + k
         /\ \A i \in 1..k : out'[Len(out) + i] = AsSent(all[i], seq + i - 1)
         /\ phase' = IF k = Len(all) THEN "done" ELSE "refused"
  BY Emitted
<1>4. Len(out) \in Nat
  BY Nothing, Joined
<1> HIDE DEF all
<1>5. k = Len(all) /\ k \in 1..k /\ k > 0
  BY <1>2, <1>3
<1>6. out'[Len(out')] = AsSent(fs[Len(fs)], seq + k - 1)
  BY <1>2, <1>3, <1>5
<1>7. /\ AsSent(fs[Len(fs)], seq + k - 1).content = content
      /\ AsSent(fs[Len(fs)], seq + k - 1).name = fs[Len(fs)].name
  <2>1. PICK name : fs[Len(fs)] = Frame(name, 0, content)
    OBVIOUS
  <2> QED
    BY <2>1 DEF AsSent, Frame
<1> QED
  BY <1>3, <1>4, <1>5, <1>6, <1>7

(* An event is consumed: what is kept now is what that makes of it.        *)
LEMMA UsageConsumed ==
    ASSUME UsageInv, NEW e, e.type = "usage" => e \in UsageEvents, Consume(e),
           usage' = IF e.type = "usage" THEN Observe(usage, e) ELSE usage
    PROVE  UsageTyped(events') /\ Kept(events', usage')
<1>1. events' = Append(events, e)
  BY DEF Consume
<1>2. UsageTyped(events')
  <2>1. PICK S : events \in Seq(S)
    BY DEF UsageInv, UsageTyped, IsSeq
  <2>2. events \in Seq(S \cup {e})
    BY <2>1
  <2>3. events' \in Seq(S \cup {e}) /\ Len(events') = Len(events) + 1 /\ Len(events) \in Nat
    BY <1>1, <2>2
  <2>4. events'[Len(events) + 1] = e /\ \A i \in 1..Len(events) : events'[i] = events[i]
    BY <1>1, <2>2
  <2>5. \A i \in 1..Len(events') : i \in 1..Len(events) \/ i = Len(events) + 1
    BY <2>3
  <2>6. \A i \in 1..Len(events') : events'[i].type = "usage" => events'[i] \in UsageEvents
    BY <2>4, <2>5 DEF UsageInv, UsageTyped
  <2> QED
    BY <2>3, <2>6 DEF UsageTyped, IsSeq
<1>3. Kept(events', usage')
  BY <1>1, KeptObserves DEF UsageInv
<1> QED
  BY <1>2, <1>3

LEMMA UsageInit == Init => UsageInv
<1> SUFFICES ASSUME Init PROVE UsageInv
  OBVIOUS
<1>1. events = <<>> /\ Len(events) = 0 /\ 1..Len(events) = {} /\ IsSeq(events)
  BY Nothing DEF Init
<1>2. DeltaSum(events) = 0
  <2>1. HasTokens(events)
    BY <1>1 DEF HasTokens
  <2>2. PICK c : SumSteps(c, events) /\ DeltaSum(events) = c[Len(events)]
    BY <2>1, SumFold
  <2> QED
    BY <1>1, <2>2 DEF SumSteps
<1>3. SumOnly(0) = NoUsage
  <2>1. [[n \in 1 .. 5 |-> 0] EXCEPT ![Output] = 0] = [n \in 1 .. 5 |-> 0]
    OBVIOUS
  <2> QED
    BY <2>1 DEF SumOnly, NoUsage
<1> QED
  BY <1>1, <1>2, <1>3 DEF Init, UsageInv, UsageTyped, Kept

LEMMA UsageStep ==
    ASSUME TypeInv, UsageInv, [Next]_framesVars
    PROVE  UsageInv'
<1>1. ASSUME NEW e \in UsageEvents, Usage(e)
      PROVE  UsageInv'
  <2>1. Consume(e) /\ usage' = Observe(usage, e) /\ phase' = phase
    BY <1>1 DEF Usage
  <2>2. phase = "open" /\ e.type = "usage"
    BY <2>1, EventSays DEF Consume
  <2> QED
    BY <2>1, <2>2, UsageConsumed DEF UsageInv
<1>2. ASSUME NEW type \in {"text", "thinking", "tool_call"}, Consume([type |-> type]), usage' = usage,
             NEW fs, Emit(fs, "open")
      PROVE  UsageInv'
  <2>1. phase' # "done"
    BY <1>2 DEF Emit
  <2>2. UsageTyped(events') /\ Kept(events', usage')
    BY <1>2, UsageConsumed
  <2> QED
    BY <2>1, <2>2 DEF UsageInv
<1>3. CASE TextDelta
  BY <1>2, <1>3 DEF TextDelta
<1>4. CASE ThinkingDelta
  BY <1>2, <1>4 DEF ThinkingDelta
<1>5. CASE ToolCall
  BY <1>2, <1>5 DEF ToolCall
<1>6. CASE ResponseToolCall
  BY <1>2, <1>6 DEF ResponseToolCall
<1>7. CASE Done
  <2> DEFINE answer == [outputs |-> <<text>> \o CallItems(toolCalls),
                        usage |-> UsageBlock(format, usage)]
             report == [tools |-> StopReason = "tool_calls", usage |-> UsageBlock(format, usage)]
             content == IF format = "openai-response" THEN answer ELSE report
             fs == IF format = "openai-response"
                   THEN <<Frame("text.done", 0, text), Frame("part.done", 0, text),
                          Frame("item.done", 0, text), Frame("completed", 0, content)>>
                   ELSE <<Frame("final", 0, content)>>
  <2>1. Consume([type |-> "done", reason |-> StopReason]) /\ usage' = usage /\ format' = format
    BY <1>7 DEF Done, Consume
  <2>2. Emit(fs, "done")
    BY <1>7 DEF Done
  <2>3. content.usage = UsageBlock(format, usage)
    OBVIOUS
  <2> HIDE DEF content
  <2>4. IsSeq(fs) /\ Len(fs) > 0 /\ \E name : fs[Len(fs)] = Frame(name, 0, content)
    <3>1. ASSUME NEW a, NEW b, NEW c, NEW d
          PROVE  IsSeq(<<a, b, c, d>>) /\ Len(<<a, b, c, d>>) = 4 /\ <<a, b, c, d>>[4] = d
      <4>1. <<a, b, c, d>> \in Seq({a, b, c, d})
        OBVIOUS
      <4> QED
        BY <4>1 DEF IsSeq
    <3>2. CASE format = "openai-response"
      <4>1. IsSeq(fs) /\ Len(fs) = 4 /\ fs[4] = Frame("completed", 0, content)
        BY <3>1, <3>2
      <4> QED
        BY <4>1
    <3>3. CASE format # "openai-response"
      <4>1. IsSeq(fs) /\ Len(fs) = 1 /\ fs[1] = Frame("final", 0, content)
        BY <3>3, Single
      <4> QED
        BY <4>1
    <3> QED
      BY <3>2, <3>3
  <2> HIDE DEF fs
  <2>5. phase' = "done" => Len(out') > 0 /\ out'[Len(out')].content = content
    BY <2>2, <2>4, LastEmitted DEF TypeInv, FramesOK
  <2>6. UsageTyped(events') /\ Kept(events', usage')
    BY <2>1, UsageConsumed
  <2> QED
    BY <2>1, <2>3, <2>5, <2>6 DEF UsageInv
<1>8. CASE TurnBreaks
  BY <1>8 DEF TurnBreaks, stateVars, UsageInv
<1>9. CASE UNCHANGED framesVars
  BY <1>9 DEF framesVars, stateVars, UsageInv
<1> QED
  BY <1>1, <1>3, <1>4, <1>5, <1>6, <1>7, <1>8, <1>9 DEF Next

LEMMA UsageInvariance == Spec => [](TypeInv /\ UsageInv)
<1>1. Init => TypeInv /\ UsageInv
  BY TypeInit, UsageInit
<1>2. TypeInv /\ UsageInv /\ [Next]_framesVars => (TypeInv /\ UsageInv)'
  BY TypeStep, UsageStep
<1> QED
  BY <1>1, <1>2, PTL DEF Spec

(* What a report that was accepted says of a field is not negative, and is *)
(* what the usage made of it counts (usageFromTurnEnded).                  *)
LEMMA ReportedCounts ==
    ASSUME NEW fields \in WellFormed, NEW n \in 1..5
    PROVE  /\ UsageFromTurnEnded(fields).count[n] = ReportedValue(fields, n)
           /\ ReportedValue(fields, n) \in Nat
<1>1. fields \in Seq(Field) /\ DOMAIN fields = 1..Len(fields)
  BY StreamFramesAssumption DEF WellFormed
<1>2. LastValue(fields, Len(fields), n, UsageFromTurnEnded(fields).count[n])
  BY <1>1, ReportCounts
<1>3. UsageFromTurnEnded(fields).count[n] = ReportedValue(fields, n)
  BY <1>1, <1>2, LastIsReported
<1>4. ASSUME NEW i \in 1..Len(fields), fields[i].number = n
      PROVE  fields[i].value \in Nat
  <2>1. fields[i] \in ToSet(fields) /\ fields[i] \in Field
    BY <1>1 DEF ToSet
  <2>2. ~ Malformed(fields[i])
    BY <2>1 DEF WellFormed
  <2> QED
    BY <1>4, <2>1, <2>2 DEF Malformed, Field
<1>5. UsageFromTurnEnded(fields).count[n] \in Nat
  BY <1>2, <1>4 DEF LastValue
<1> QED
  BY <1>3, <1>5

(* The usage of a stream that ended is the last report of Cursor, zeroes   *)
(* included, whatever fields it holds and whatever deltas surround it, and *)
(* without a report the sum of the deltas, not below zero; Claude's input  *)
(* and cache figures add up to the input reported (usageFromTurnEnded,     *)
(* tokenUsage.observe, usageBlock, claudeUsageBlock).                      *)
THEOREM UsageAlwaysFinal == Spec => []UsageIsFinal
<1>1. TypeInv /\ UsageInv => UsageIsFinal
  <2> SUFFICES ASSUME TypeInv, UsageInv, phase = "done" PROVE UsageIsFinal
    BY DEF UsageIsFinal
  <2> DEFINE block == Last(out).content.usage
             last == CHOOSE i \in Reports : \A j \in Reports : j <= i
             value(n) == ReportedValue(events[last].fields, n)
  <2>1. block = UsageBlock(format, usage)
    BY DEF UsageInv, Last
  <2>2. DOMAIN events = 1..Len(events) /\ Len(events) \in Nat
    <3>1. PICK S : events \in Seq(S)
      BY DEF TypeInv, IsSeq
    <3> QED
      BY <3>1
  <2>3. \A i \in 1..Len(events) : i \in Reports <=> IsReport(events[i])
    <3>1. ASSUME NEW i \in 1..Len(events), events[i].type = "usage"
          PROVE  (\E field \in ToSet(events[i].fields) : field.number \in 1 .. 5)
                    <=> \E j \in 1..Len(events[i].fields) : events[i].fields[j].number \in 1..5
      <4>1. events[i].fields \in Seq(Field)
        BY <3>1, EventSays DEF UsageInv, UsageTyped
      <4>2. DOMAIN events[i].fields = 1..Len(events[i].fields)
        BY <4>1
      <4> QED
        BY <4>2 DEF ToSet
    <3> QED
      BY <2>2, <3>1 DEF Reports, IsReport
  <2>4. Reports \subseteq 1..Len(events)
    BY <2>2 DEF Reports
  <2>5. CASE Reports = {}
    <3>1. usage = SumOnly(DeltaSum(events))
      BY <2>3, <2>5 DEF UsageInv, Kept
    <3>2. /\ usage.count[Output] = DeltaSum(events) /\ usage.count[Input] = 0
          /\ usage.count[CacheRead] = 0 /\ usage.count[CacheWrite] = 0
      BY <3>1 DEF SumOnly, NoUsage, Input, Output, CacheRead, CacheWrite
    <3>3. block.input = 0 /\ block.output = AtLeastZero(DeltaSum(events))
      BY <2>1, <3>2 DEF UsageBlock, AtLeastZero
    <3> QED
      BY <2>5, <3>3 DEF UsageIsFinal
  <2>6. ASSUME NEW i \in 1..Len(events), IsReport(events[i]), usage = UsageFromTurnEnded(events[i].fields),
               \A j \in 1..Len(events) : IsReport(events[j]) => j <= i
        PROVE  UsageIsFinal
    <3>1. i \in Reports /\ \A j \in Reports : j <= i /\ j \in Int
      BY <2>3, <2>4, <2>6
    <3>2. last \in Reports /\ \A j \in Reports : j <= last
      BY <3>1
    <3> HIDE DEF last
    <3>3. last \in Int /\ i \in Int /\ last <= i /\ i <= last
      BY <3>1, <3>2
    <3>4. last = i
      BY <3>3
    <3>5. events[i].fields \in WellFormed
      BY <2>6, EventSays DEF UsageInv, UsageTyped, IsReport
    <3>6. \A n \in 1..5 : usage.count[n] = value(n) /\ value(n) \in Nat
      BY <2>6, <3>4, <3>5, ReportedCounts
    <3> HIDE DEF value
    <3>7. /\ usage.count[Input] = value(Input) /\ value(Input) \in Nat
          /\ usage.count[Output] = value(Output) /\ value(Output) \in Nat
          /\ usage.count[CacheRead] = value(CacheRead) /\ value(CacheRead) \in Nat
          /\ usage.count[CacheWrite] = value(CacheWrite) /\ value(CacheWrite) \in Nat
      BY <3>6 DEF Input, Output, CacheRead, CacheWrite
    <3>8. /\ block.output = value(Output)
          /\ block.cached = value(CacheRead) + value(CacheWrite)
          /\ format = "claude" /\ block.cached <= value(Input) => block.input + block.cached = value(Input)
          /\ format # "claude" => block.input = value(Input)
      BY <2>1, <3>7 DEF UsageBlock, AtLeastZero
    <3> QED
      BY <3>1, <3>8 DEF UsageIsFinal, value, last
  <2> QED
    <3>1. Reports = {} \/ \E i \in 1..Len(events) : IsReport(events[i])
      BY <2>3, <2>4
    <3>2. \/ \A i \in 1..Len(events) : ~ IsReport(events[i])
          \/ \E i \in 1..Len(events) : /\ IsReport(events[i]) /\ usage = UsageFromTurnEnded(events[i].fields)
                                       /\ \A j \in 1..Len(events) : IsReport(events[j]) => j <= i
      BY DEF UsageInv, Kept
    <3> QED
      BY <2>5, <2>6, <3>1, <3>2
<1> QED
  BY <1>1, UsageInvariance, PTL

-----------------------------------------------------------------------------
(* At takes one element after the other, and what it has taken by some     *)
(* position does not depend on what follows.                               *)
Taken(before, s, positions, k) == IF k \in positions THEN Append(before, s[k]) ELSE before

AtSteps(c, s, positions) ==
    /\ c[0] = <<>>
    /\ \A k \in 1..Len(s) : c[k] = Taken(c[k - 1], s, positions, k)

LEMMA AtFold ==
    ASSUME NEW s, NEW positions, IsSeq(s)
    PROVE  \E c : AtSteps(c, s, positions) /\ At(s, positions) = c[Len(s)] /\ IsSeq(c[Len(s)])
<1>1. PICK S : s \in Seq(S)
  BY DEF IsSeq
<1> DEFINE n == Len(s)
           Computes(g) == g = [k \in 0..n |-> IF k = 0 THEN <<>> ELSE Taken(g[k - 1], s, positions, k)]
           step == [k \in 1..n |-> [before \in Seq(S) |-> Taken(before, s, positions, k)]]
           c == CHOOSE g : Computes(g)
<1>2. n \in Nat
  BY <1>1
<1>3. ASSUME NEW k \in 1..n, NEW before \in Seq(S)
      PROVE  Taken(before, s, positions, k) \in Seq(S)
  <2>1. s[k] \in S
    BY <1>1
  <2> QED
    BY <2>1 DEF Taken
<1>4. At(s, positions) = c[n]
  BY DEF At, Taken
<1> HIDE DEF n
<1>5. \E g : Computes(g) /\ g[n] \in Seq(S)
  <2>1. step \in [1..n -> [Seq(S) -> Seq(S)]]
    BY <1>3
  <2>2. \A k \in 1..n, before \in Seq(S) : step[k][before] = Taken(before, s, positions, k)
    OBVIOUS
  <2> HIDE DEF step
  <2>3. <<>> \in Seq(S)
    OBVIOUS
  <2>4. PICK g : Follows(g, n, Seq(S), <<>>, step)
    BY <1>2, <2>1, <2>3, Recursion
  <2>5. ASSUME NEW k \in 0..n
        PROVE  g[k] = IF k = 0 THEN <<>> ELSE Taken(g[k - 1], s, positions, k)
    <3>1. CASE k = 0
      BY <2>4, <3>1 DEF Follows
    <3>2. CASE k # 0
      <4>1. k \in 1..n /\ k - 1 \in 0..n
        BY <1>2, <3>2
      <4>2. g[k] = step[k][g[k - 1]] /\ g[k - 1] \in Seq(S)
        BY <2>4, <3>2, <4>1 DEF Follows
      <4> QED
        BY <2>2, <3>2, <4>1, <4>2
    <3> QED
      BY <3>1, <3>2
  <2>6. g = [k \in 0..n |-> g[k]] /\ g[n] \in Seq(S)
    BY <1>2, <2>4 DEF Follows
  <2>7. Computes(g)
    BY <2>5, <2>6
  <2> HIDE DEF Computes
  <2> QED
    BY <2>6, <2>7
<1>6. Computes(c)
  <2> HIDE DEF Computes
  <2> QED
    BY <1>5
<1>7. c[n] \in Seq(S)
  <2>1. PICK g : Computes(g) /\ g[n] \in Seq(S)
    BY <1>5
  <2> DEFINE Same == {k \in 0..n : c[k] = g[k]}
  <2> HIDE DEF c
  <2>2. \A k \in 0..n : /\ c[k] = IF k = 0 THEN <<>> ELSE Taken(c[k - 1], s, positions, k)
                        /\ g[k] = IF k = 0 THEN <<>> ELSE Taken(g[k - 1], s, positions, k)
    BY <1>6, <2>1
  <2>3. 0 \in Same
    BY <1>2, <2>2
  <2>4. ASSUME NEW k \in 1..n, k - 1 \in Same
        PROVE  k \in Same
    BY <2>2, <2>4
  <2> HIDE DEF Same
  <2>5. \A k \in 0..n : k \in Same
    BY <1>2, <2>3, <2>4, EachPosition
  <2>6. c[n] = g[n]
    BY <1>2, <2>5 DEF Same
  <2> HIDE DEF Computes
  <2> QED
    BY <2>1, <2>6
<1> HIDE DEF c
<1>8. AtSteps(c, s, positions)
  <2>1. \A k \in 0..n : c[k] = IF k = 0 THEN <<>> ELSE Taken(c[k - 1], s, positions, k)
    BY <1>6
  <2>2. 0 \in 0..n /\ \A k \in 1..n : k \in 0..n /\ k # 0
    BY <1>2
  <2> QED
    BY <2>1, <2>2 DEF AtSteps, n
<1> QED
  BY <1>4, <1>7, <1>8 DEF n, IsSeq

(* A longer sequence has the same elements at the same positions, and      *)
(* those of the positions beyond: none, or the last.                       *)
LEMMA AtGrows ==
    ASSUME NEW s, NEW old, NEW t, NEW new, IsSeq(s), IsSeq(t), Len(s) <= Len(t),
           \A i \in 1..Len(s) : t[i] = s[i] /\ (i \in new <=> i \in old),
           \A i \in (Len(s) + 1)..(Len(t) - 1) : i \notin new
    PROVE  At(t, new) = IF Len(s) < Len(t) /\ Len(t) \in new
                        THEN Append(At(s, old), t[Len(t)]) ELSE At(s, old)
<1> DEFINE n == Len(s)
           m == Len(t)
<1>1. n \in Nat /\ m \in Nat
  BY Nothing, Joined
<1>2. PICK c : AtSteps(c, s, old) /\ At(s, old) = c[n]
  BY AtFold
<1>3. PICK d : AtSteps(d, t, new) /\ At(t, new) = d[m]
  BY AtFold
<1>4. c[0] = <<>> /\ \A k \in 1..n : c[k] = Taken(c[k - 1], s, old, k)
  BY <1>2 DEF AtSteps
<1>5. d[0] = <<>> /\ \A k \in 1..m : d[k] = Taken(d[k - 1], t, new, k)
  BY <1>3 DEF AtSteps
<1>6. n <= m /\ \A i \in 1..n : t[i] = s[i] /\ (i \in new <=> i \in old)
  OBVIOUS
<1>7. \A i \in (n + 1)..(m - 1) : i \notin new
  OBVIOUS
<1> HIDE DEF n, m
<1> DEFINE Alike(k) == d[k] = c[IF k <= n THEN k ELSE n]
           Alikes == {k \in 0..m : Alike(k)}
<1>8. 0 \in Alikes
  BY <1>1, <1>4, <1>5
<1>9. ASSUME NEW k \in 1..m, k <= n \/ k < m, k - 1 \in Alikes
      PROVE  k \in Alikes
  <2>1. Alike(k - 1)
    BY <1>9
  <2>2. CASE k <= n
    <3>1. d[k - 1] = c[k - 1]
      BY <1>1, <2>1, <2>2
    <3>2. Taken(d[k - 1], t, new, k) = Taken(c[k - 1], s, old, k)
      BY <1>1, <1>6, <2>2, <3>1 DEF Taken
    <3> QED
      BY <1>1, <1>4, <1>5, <2>2, <3>2
  <2>3. CASE n < k
    <3>1. k \in (n + 1)..(m - 1)
      BY <1>1, <1>9, <2>3
    <3>2. d[k] = d[k - 1]
      BY <1>5, <1>7, <3>1 DEF Taken
    <3>3. c[IF k - 1 <= n THEN k - 1 ELSE n] = c[n]
      BY <1>1, <2>3
    <3>4. d[k] = c[n]
      BY <2>1, <3>2, <3>3
    <3> QED
      BY <1>1, <2>3, <3>1, <3>4
  <2> QED
    BY <1>1, <2>2, <2>3
<1>10. ASSUME NEW l \in Nat, l <= n \/ l < m, l <= m
       PROVE  Alike(l)
  <2>1. \A k \in 1..l : k \in 1..m /\ (k <= n \/ k < m)
    BY <1>1, <1>10
  <2>2. \A k \in 1..l : k - 1 \in Alikes => k \in Alikes
    BY <1>9, <2>1
  <2>3. Alikes = {k \in Alikes : Alike(k)}
    OBVIOUS
  <2> HIDE DEF Alikes
  <2>4. \A k \in 0..l : k \in Alikes
    BY <1>8, <2>2, <1>10, EachPosition
  <2> QED
    BY <1>10, <2>3, <2>4
<1>11. CASE n = m
  <2>1. d[n] = c[n]
    BY <1>1, <1>10, <1>11
  <2> QED
    BY <1>1, <1>2, <1>3, <1>11, <2>1 DEF n, m
<1>12. CASE n < m
  <2>1. d[m - 1] = c[n]
    <3>1. m - 1 \in Nat /\ m - 1 < m /\ m - 1 <= m /\ n <= m - 1
      BY <1>1, <1>12
    <3>2. Alike(m - 1)
      BY <1>10, <3>1
    <3>3. m - 1 <= n => m - 1 = n
      BY <1>1, <3>1
    <3> QED
      BY <3>2, <3>3
  <2>2. d[m] = Taken(c[n], t, new, m)
    BY <1>1, <1>5, <1>12, <2>1
  <2> QED
    BY <1>2, <1>3, <1>12, <2>2 DEF Taken, n, m
<1> QED
  BY <1>1, <1>6, <1>11, <1>12

ContentsIn(frames, name) ==
    At([i \in DOMAIN frames |-> frames[i].content], {i \in DOMAIN frames : frames[i].name = name})

PairsIn(frames, name) ==
    {<<frames[i].index, frames[i].content>> : i \in {j \in DOMAIN frames : frames[j].name = name}}

NumbersIn(es, type) == At([i \in DOMAIN es |-> i], {i \in DOMAIN es : es[i].type = type})

(* What a stream w says under a name beyond what its beginning o says.     *)
SaysSame(o, w, name) == ContentsIn(w, name) = ContentsIn(o, name) /\ PairsIn(w, name) = PairsIn(o, name)

SaysMore(o, w, name, f) ==
    /\ ContentsIn(w, name) = Append(ContentsIn(o, name), f.content)
    /\ PairsIn(w, name) = PairsIn(o, name) \cup {<<f.index, f.content>>}

(* A stream that goes on: what it says under a name, if only its last      *)
(* frame may be new under that name.                                       *)
LEMMA ContentsGrow ==
    ASSUME NEW o, NEW w, NEW name, IsSeq(o), IsSeq(w), Len(o) <= Len(w),
           \A i \in 1..Len(o) : w[i] = o[i],
           \A i \in (Len(o) + 1)..(Len(w) - 1) : w[i].name # name
    PROVE  IF Len(o) < Len(w) /\ w[Len(w)].name = name
           THEN SaysMore(o, w, name, w[Len(w)]) ELSE SaysSame(o, w, name)
<1> DEFINE s == [i \in 1..Len(o) |-> o[i].content]
           t == [i \in 1..Len(w) |-> w[i].content]
           old == {i \in 1..Len(o) : o[i].name = name}
           new == {i \in 1..Len(w) : w[i].name = name}
<1>1. /\ Len(o) \in Nat /\ DOMAIN o = 1..Len(o) /\ Len(w) \in Nat /\ DOMAIN w = 1..Len(w)
  <2>1. PICK S : o \in Seq(S)
    BY DEF IsSeq
  <2>2. PICK T : w \in Seq(T)
    BY DEF IsSeq
  <2> QED
    BY <2>1, <2>2
<1>2. /\ s = [i \in 1..Len(o) |-> s[i]] /\ t = [i \in 1..Len(w) |-> t[i]]
      /\ \A i \in 1..Len(o) : s[i] = o[i].content
      /\ \A i \in 1..Len(w) : t[i] = w[i].content
  OBVIOUS
<1>3. ContentsIn(o, name) = At(s, old) /\ ContentsIn(w, name) = At(t, new)
  BY <1>1 DEF ContentsIn
<1> HIDE DEF s, t
<1>4. IsSeq(s) /\ Len(s) = Len(o) /\ IsSeq(t) /\ Len(t) = Len(w)
  BY <1>1, <1>2, Listed
<1>5. \A i \in 1..Len(o) : i \in 1..Len(w)
  BY <1>1
<1>6. \A i \in 1..Len(o) : t[i] = s[i] /\ (i \in new <=> i \in old)
  BY <1>2, <1>5
<1>7. \A i \in (Len(o) + 1)..(Len(w) - 1) : i \notin new
  OBVIOUS
<1>8. Len(w) \in new <=> Len(w) > 0 /\ w[Len(w)].name = name
  BY <1>1
<1>9. PairsIn(o, name) = {<<o[i].index, o[i].content>> : i \in old}
  BY <1>1 DEF PairsIn
<1>10. PairsIn(w, name) = {<<w[i].index, w[i].content>> : i \in new}
  BY <1>1 DEF PairsIn
<1>11. IF Len(o) < Len(w) /\ w[Len(w)].name = name
       THEN new = old \cup {Len(w)} /\ Len(w) \notin old ELSE new = old
  BY <1>1, <1>5
<1>12. old \subseteq 1..Len(o)
  OBVIOUS
<1> HIDE DEF old, new
<1>13. At(t, new) = IF Len(o) < Len(w) /\ Len(w) \in new THEN Append(At(s, old), t[Len(w)]) ELSE At(s, old)
  BY <1>4, <1>6, <1>7, AtGrows
<1>14. IF Len(o) < Len(w) /\ w[Len(w)].name = name
       THEN ContentsIn(w, name) = Append(ContentsIn(o, name), w[Len(w)].content)
       ELSE ContentsIn(w, name) = ContentsIn(o, name)
  <2>1. Len(o) < Len(w) => Len(w) > 0 /\ Len(w) \in 1..Len(w)
    BY <1>1
  <2>2. Len(o) < Len(w) => t[Len(w)] = w[Len(w)].content
    BY <1>2, <2>1
  <2> QED
    BY <1>3, <1>8, <1>13, <2>1, <2>2
<1>15. {<<w[i].index, w[i].content>> : i \in old} = PairsIn(o, name)
  BY <1>9, <1>12
<1>16. CASE Len(o) < Len(w) /\ w[Len(w)].name = name
  <2>1. PairsIn(w, name) = {<<w[i].index, w[i].content>> : i \in old} \cup {<<w[Len(w)].index, w[Len(w)].content>>}
    BY <1>10, <1>11, <1>16
  <2> QED
    BY <1>14, <1>15, <1>16, <2>1 DEF SaysMore
<1>17. CASE ~ (Len(o) < Len(w) /\ w[Len(w)].name = name)
  BY <1>10, <1>11, <1>14, <1>15, <1>17 DEF SaysSame
<1> QED
  BY <1>16, <1>17

LEMMA NumbersGrow ==
    ASSUME NEW es, NEW e, NEW type, IsSeq(es)
    PROVE  NumbersIn(Append(es, e), type) = IF e.type = type THEN Append(NumbersIn(es, type), Len(es) + 1)
                                            ELSE NumbersIn(es, type)
<1> DEFINE longer == Append(es, e)
           n == Len(es)
           s == [i \in 1..n |-> i]
           t == [i \in 1..(n + 1) |-> i]
           old == {i \in 1..n : es[i].type = type}
           new == {i \in 1..(n + 1) : longer[i].type = type}
<1>1. /\ n \in Nat /\ DOMAIN longer = 1..(n + 1) /\ DOMAIN es = 1..n
      /\ longer[n + 1] = e /\ \A i \in 1..n : longer[i] = es[i]
  <2>1. PICK S : es \in Seq(S)
    BY DEF IsSeq
  <2>2. es \in Seq(S \cup {e})
    BY <2>1
  <2> QED
    BY <2>2
<1>2. NumbersIn(es, type) = At(s, old) /\ NumbersIn(longer, type) = At(t, new)
  BY <1>1 DEF NumbersIn
<1> HIDE DEF longer, n
<1>3. /\ s = [i \in 1..n |-> s[i]] /\ t = [i \in 1..(n + 1) |-> t[i]]
      /\ \A i \in 1..n : s[i] = i
      /\ \A i \in 1..(n + 1) : t[i] = i
  OBVIOUS
<1> HIDE DEF s, t
<1>4. IsSeq(s) /\ Len(s) = n /\ IsSeq(t) /\ Len(t) = n + 1 /\ n + 1 \in Nat
  BY <1>1, <1>3, Listed
<1>5. \A i \in 1..n : t[i] = s[i] /\ (i \in new <=> i \in old)
  BY <1>1, <1>3
<1>6. (n + 1 \in new <=> e.type = type) /\ t[n + 1] = n + 1
  BY <1>1, <1>3
<1> HIDE DEF old, new
<1>7. n <= n + 1 /\ n < n + 1 /\ \A i \in (n + 1)..((n + 1) - 1) : i \notin new
  BY <1>1
<1>8. At(t, new) = IF n < n + 1 /\ n + 1 \in new THEN Append(At(s, old), t[n + 1]) ELSE At(s, old)
  BY <1>4, <1>5, <1>7, AtGrows
<1> QED
  BY <1>2, <1>6, <1>7, <1>8 DEF longer, n

(* UsageOf observes one event after the other.                             *)
Used(before, e) == IF e.type = "usage" THEN Observe(before, e) ELSE before

UsedSteps(c, es) ==
    /\ c[0] = NoUsage
    /\ \A k \in 1..Len(es) : c[k] = Used(c[k - 1], es[k])

LEMMA UsedFold ==
    ASSUME NEW es, UsageTyped(es)
    PROVE  \E c : UsedSteps(c, es) /\ UsageOf(es) = c[Len(es)]
<1> DEFINE n == Len(es)
           Computes(g) == g = [k \in 0..n |-> IF k = 0 THEN NoUsage ELSE Used(g[k - 1], es[k])]
           step == [k \in 1..n |-> [u \in Usages |-> Used(u, es[k])]]
           c == CHOOSE g : Computes(g)
<1>1. n \in Nat
  <2>1. PICK S : es \in Seq(S)
    BY DEF UsageTyped, IsSeq
  <2> QED
    BY <2>1
<1>2. ASSUME NEW k \in 1..n, NEW before \in Usages
      PROVE  Used(before, es[k]) \in Usages
  BY ObserveTyped DEF UsageTyped, Used
<1>3. UsageOf(es) = c[n]
  BY DEF UsageOf, Used
<1> HIDE DEF n
<1>4. \E g : Computes(g)
  <2>1. step \in [1..n -> [Usages -> Usages]]
    BY <1>2
  <2>2. \A k \in 1..n, u \in Usages : step[k][u] = Used(u, es[k])
    OBVIOUS
  <2> HIDE DEF step
  <2>3. NoUsage \in Usages
    BY DEF NoUsage, Usages
  <2>4. PICK g : Follows(g, n, Usages, NoUsage, step)
    BY <1>1, <2>1, <2>3, Recursion
  <2>5. ASSUME NEW k \in 0..n
        PROVE  g[k] = IF k = 0 THEN NoUsage ELSE Used(g[k - 1], es[k])
    <3>1. CASE k = 0
      BY <2>4, <3>1 DEF Follows
    <3>2. CASE k # 0
      <4>1. k \in 1..n /\ k - 1 \in 0..n
        BY <1>1, <3>2
      <4>2. g[k] = step[k][g[k - 1]] /\ g[k - 1] \in Usages
        BY <2>4, <3>2, <4>1 DEF Follows
      <4> QED
        BY <2>2, <3>2, <4>1, <4>2
    <3> QED
      BY <3>1, <3>2
  <2>6. g = [k \in 0..n |-> g[k]]
    BY <2>4 DEF Follows
  <2>7. Computes(g)
    BY <2>5, <2>6
  <2> HIDE DEF Computes
  <2> QED
    BY <2>7
<1>5. Computes(c)
  <2> HIDE DEF Computes
  <2> QED
    BY <1>4
<1> HIDE DEF c
<1>6. UsedSteps(c, es)
  <2>1. \A k \in 0..n : c[k] = IF k = 0 THEN NoUsage ELSE Used(c[k - 1], es[k])
    BY <1>5
  <2>2. 0 \in 0..n /\ \A k \in 1..n : k \in 0..n /\ k # 0
    BY <1>1
  <2> QED
    BY <2>1, <2>2 DEF UsedSteps, n
<1> QED
  BY <1>3, <1>6 DEF n

LEMMA UsedGrows ==
    ASSUME NEW es, NEW e, UsageTyped(es), UsageTyped(Append(es, e))
    PROVE  UsageOf(Append(es, e)) = Used(UsageOf(es), e)
<1> DEFINE longer == Append(es, e)
           n == Len(es)
<1>1. n \in Nat /\ Len(longer) = n + 1 /\ longer[n + 1] = e /\ \A i \in 1..n : longer[i] = es[i]
  <2>1. PICK S : es \in Seq(S)
    BY DEF UsageTyped, IsSeq
  <2>2. es \in Seq(S \cup {e})
    BY <2>1
  <2> QED
    BY <2>2
<1> HIDE DEF longer
<1>2. PICK c : UsedSteps(c, es) /\ UsageOf(es) = c[n]
  BY UsedFold
<1>3. PICK d : UsedSteps(d, longer) /\ UsageOf(longer) = d[n + 1]
  <2>1. UsageTyped(longer)
    BY DEF longer
  <2> QED
    BY <1>1, <2>1, UsedFold
<1>4. c[0] = NoUsage /\ \A k \in 1..n : c[k] = Used(c[k - 1], es[k])
  BY <1>2 DEF UsedSteps
<1>5. d[0] = NoUsage /\ \A k \in 1..(n + 1) : d[k] = Used(d[k - 1], longer[k])
  BY <1>1, <1>3 DEF UsedSteps
<1> DEFINE Same == {k \in 0..n : c[k] = d[k]}
<1>6. 0 \in Same
  BY <1>1, <1>4, <1>5
<1>7. ASSUME NEW k \in 1..n, k - 1 \in Same
      PROVE  k \in Same
  <2>1. c[k - 1] = d[k - 1] /\ longer[k] = es[k] /\ k \in 1..(n + 1) /\ k \in 0..n
    BY <1>1, <1>7
  <2> QED
    BY <1>4, <1>5, <2>1
<1> HIDE DEF Same
<1>8. \A k \in 0..n : k \in Same
  BY <1>1, <1>6, <1>7, EachPosition
<1>9. c[n] = d[n]
  BY <1>1, <1>8 DEF Same
<1>10. d[n + 1] = Used(d[n], e)
  <2>1. n + 1 \in 1..(n + 1) /\ (n + 1) - 1 = n
    BY <1>1
  <2> QED
    BY <1>1, <1>5, <2>1
<1> QED
  BY <1>2, <1>3, <1>9, <1>10 DEF longer

(* The calls, each at the index it is sent with in a format.               *)
Indexed(f, calls) == {<<IF f = "claude" THEN i ELSE i - 1, calls[i]>> : i \in DOMAIN calls}

(* What was sent is what the answer in one piece would hold of the events  *)
(* so far, and the usage kept is what it would report.                     *)
Pieces == {"text", "thinking", "tool_call"}

(* How a stream that is done was closed. *)
Closed ==
    LET last == out[Len(out)]
    IN IF format = "openai-response"
       THEN last.name = "completed" /\ last.content.outputs = <<text>> \o CallItems(toolCalls)
       ELSE last.content.tools = Has("tool_call")

AgreeInv ==
    LET calls == NumbersIn(events, "tool_call")
    IN /\ usage = UsageOf(events)
       /\ \A type \in Pieces : Has(type) <=> NumbersIn(events, type) # <<>>
       /\ StoppedForCalls => Has("tool_call")
       /\ phase \in {"open", "done"} => ContentsIn(out, "text") = NumbersIn(events, "text")
       /\ phase \in {"open", "done"} /\ format # "openai-response" =>
             /\ ContentsIn(out, "thinking") = NumbersIn(events, "thinking")
             /\ toolIdx = Len(calls) /\ PairsIn(out, "tool") = Indexed(format, calls)
       /\ format = "openai-response" => text = NumbersIn(events, "text") /\ toolCalls = calls
       /\ phase = "done" => Closed

(* Nothing of the opening is a piece of the answer.                        *)
LEMMA OpeningSaysNothing == \A i \in 1..Len(Opening) : Opening[i].name \notin {"text", "thinking", "tool"}
<1>1. CASE opened
  BY <1>1, Nothing DEF Opening
<1>2. CASE ~ opened /\ format = "openai-response"
  <2> DEFINE a == Frame("response.created", 0, <<>>)
             b == Frame("item.added", 0, "message")
             d == Frame("part.added", 0, <<>>)
  <2>1. \A f \in {a, b, d} : f.name \notin {"text", "thinking", "tool"}
    BY DEF Frame
  <2>2. Opening = <<a, b, d>>
    BY <1>2 DEF Opening
  <2> HIDE DEF a, b, d
  <2>3. \A i \in 1..Len(<<a, b, d>>) : <<a, b, d>>[i] \in {a, b, d}
    OBVIOUS
  <2> QED
    BY <2>1, <2>2, <2>3
<1>3. CASE ~ opened /\ format # "openai-response"
  <2>1. Opening = <<Frame("start", 0, <<>>)>>
    BY <1>3 DEF Opening
  <2>2. Frame("start", 0, <<>>).name = "start"
    BY DEF Frame
  <2>3. \A i \in 1..1 : i = 1
    OBVIOUS
  <2> QED
    BY <2>1, <2>2, <2>3, Single
<1> QED
  BY <1>1, <1>2, <1>3

Sent(o, w, opening, fs) ==
    LET m == Len(o) + Len(opening)
    IN /\ IsSeq(w) /\ Len(o) \in Nat /\ Len(opening) \in Nat /\ Len(fs) \in Nat
       /\ Len(w) = m + Len(fs)
       /\ \A i \in 1..Len(o) : w[i] = o[i]
       /\ \A i \in 1..Len(opening) : w[Len(o) + i].name \notin {"text", "thinking", "tool"}
       /\ \A i \in 1..Len(fs) : /\ w[m + i].name = fs[i].name /\ w[m + i].index = fs[i].index
                                /\ w[m + i].content = fs[i].content

(* An event whose frames were all accepted leaves them at the end of the   *)
(* stream, after the opening if there was one to send.                     *)
LEMMA WholeEmitted ==
    ASSUME IsSeq(out), seq \in Nat, NEW n, NEW fs, IsSeq(fs), IsFrames(fs, n),
           NEW next \in {"open", "done"}, Emit(fs, next)
    PROVE  phase' # "refused" => Sent(out, out', Opening, fs)
<1> DEFINE all == Opening \o fs
           m == Len(out) + Len(Opening)
<1>1. IsSeq(Opening)
  BY OpeningFrames DEF IsFrames
<1>2. /\ Len(all) = Len(Opening) + Len(fs) /\ Len(Opening) \in Nat /\ Len(fs) \in Nat
      /\ \A i \in 1..Len(Opening) : all[i] = Opening[i]
      /\ \A i \in 1..Len(fs) : all[Len(Opening) + i] = fs[i]
  BY <1>1, Joined
<1>0. IsSeq(out')
  BY Emitted
<1>5. Len(out) \in Nat /\ IsSeq(out) /\ seq \in Nat
  BY Nothing, Joined
<1>3. PICK k \in 0..Len(all) :
         /\ Len(out') = Len(out) + k
         /\ \A i \in 1..Len(out) : out'[i] = out[i]
         /\ \A i \in 1..k : out'[Len(out) + i] = AsSent(all[i], seq + i - 1)
         /\ phase' = IF k = Len(all) THEN next ELSE "refused"
  BY <1>5, Emitted
<1> HIDE DEF all
<1> SUFFICES ASSUME phase' # "refused" PROVE Sent(out, out', Opening, fs)
  OBVIOUS
<1>4. /\ Len(out') = Len(out) + Len(all)
      /\ \A i \in 1..Len(out) : out'[i] = out[i]
      /\ \A i \in 1..Len(all) : out'[Len(out) + i] = AsSent(all[i], seq + i - 1)
  BY <1>3
<1>6. ASSUME NEW f, NEW l, IsFrame(f, l), NEW at
      PROVE  /\ AsSent(f, at).name = f.name /\ AsSent(f, at).index = f.index
             /\ AsSent(f, at).content = f.content
  BY <1>6 DEF IsFrame, AsSent, Frame
<1>7. ASSUME NEW i \in 1..Len(Opening)
      PROVE  out'[Len(out) + i].name \notin {"text", "thinking", "tool"}
  <2>1. out'[Len(out) + i] = AsSent(Opening[i], seq + i - 1)
    BY <1>2, <1>4
  <2>2. IsFrame(Opening[i], 0)
    BY OpeningFrames DEF IsFrames
  <2> QED
    BY <1>6, <2>1, <2>2, OpeningSaysNothing
<1>8. ASSUME NEW i \in 1..Len(fs)
      PROVE  /\ out'[m + i].name = fs[i].name /\ out'[m + i].index = fs[i].index
             /\ out'[m + i].content = fs[i].content
  <2>1. Len(Opening) + i \in 1..Len(all) /\ Len(out) + (Len(Opening) + i) = m + i
    BY <1>2, <1>5
  <2>2. out'[m + i] = AsSent(fs[i], seq + (Len(Opening) + i) - 1)
    BY <1>2, <1>4, <2>1
  <2>3. IsFrame(fs[i], n)
    BY DEF IsFrames
  <2> QED
    BY <1>6, <2>2, <2>3
<1>9. Len(out') = m + Len(fs)
  BY <1>2, <1>4, <1>5
<1> HIDE DEF m
<1> QED
  BY <1>0, <1>2, <1>4, <1>5, <1>7, <1>8, <1>9 DEF Sent, m

LEMMA EmitsPieces ==
    ASSUME IsSeq(out), seq \in Nat, NEW n, NEW fs, IsFrames(fs, n),
           NEW name \in {"text", "thinking", "tool"}, \A i \in 1..(Len(fs) - 1) : fs[i].name # name,
           NEW next \in {"open", "done"}, Emit(fs, next), phase' # "refused"
    PROVE  LET f == fs[Len(fs)] IN
           IF Len(fs) > 0 /\ f.name = name
           THEN SaysMore(out, out', name, f) ELSE SaysSame(out, out', name)
<1> DEFINE m == Len(out) + Len(Opening)
<1>1. /\ IsSeq(out') /\ Len(out) \in Nat /\ Len(Opening) \in Nat /\ Len(fs) \in Nat
      /\ Len(out') = m + Len(fs)
      /\ \A i \in 1..Len(out) : out'[i] = out[i]
      /\ \A i \in 1..Len(Opening) : out'[Len(out) + i].name \notin {"text", "thinking", "tool"}
      /\ \A i \in 1..Len(fs) : /\ out'[m + i].name = fs[i].name
                               /\ out'[m + i].index = fs[i].index
                               /\ out'[m + i].content = fs[i].content
  <2>1. IsSeq(fs)
    BY DEF IsFrames
  <2>2. Sent(out, out', Opening, fs)
    BY <2>1, WholeEmitted
  <2> QED
    BY <2>2 DEF Sent
<1>2. ASSUME NEW i \in (Len(out) + 1)..(Len(out') - 1)
      PROVE  out'[i].name # name
  <2>1. CASE i <= m
    <3>1. i - Len(out) \in 1..Len(Opening) /\ Len(out) + (i - Len(out)) = i
      BY <1>1, <2>1
    <3> QED
      BY <1>1, <3>1
  <2>2. CASE i > m
    <3>1. i - m \in 1..(Len(fs) - 1) /\ i - m \in 1..Len(fs) /\ m + (i - m) = i
      BY <1>1, <2>2
    <3> QED
      BY <1>1, <3>1
  <2> QED
    BY <1>1, <2>1, <2>2
<1> DEFINE last == out'[Len(out')]
<1>3. IF Len(out) < Len(out') /\ last.name = name
      THEN SaysMore(out, out', name, last) ELSE SaysSame(out, out', name)
  <2>1. Len(out) <= Len(out')
    BY <1>1
  <2> QED
    BY <1>1, <1>2, <2>1, ContentsGrow
<1>4. CASE Len(fs) > 0
  <2>1. Len(fs) \in 1..Len(fs) /\ Len(out) < Len(out')
    BY <1>1, <1>4
  <2>2. last.name = fs[Len(fs)].name /\ last.index = fs[Len(fs)].index /\ last.content = fs[Len(fs)].content
    BY <1>1, <2>1
  <2> HIDE DEF last
  <2> QED
    BY <1>3, <1>4, <2>1, <2>2 DEF SaysMore
<1>5. CASE ~ (Len(fs) > 0)
  <2>1. Len(out) < Len(out') => last.name # name
    <3>1. Len(fs) = 0 /\ Len(out') = Len(out) + Len(Opening)
      BY <1>1, <1>5
    <3>2. Len(out) < Len(out') => Len(Opening) \in 1..Len(Opening)
      BY <1>1, <3>1
    <3> QED
      BY <1>1, <3>1, <3>2
  <2> QED
    BY <1>3, <1>5, <2>1
<1> QED
  BY <1>4, <1>5

LEMMA IndexedGrows ==
    ASSUME NEW f, NEW calls, NEW call, IsSeq(calls)
    PROVE  /\ Len(Append(calls, call)) = Len(calls) + 1 /\ Append(calls, call) # <<>>
           /\ Indexed(f, Append(calls, call))
                 = Indexed(f, calls) \cup {<<IF f = "claude" THEN Len(calls) + 1 ELSE Len(calls), call>>}
<1> DEFINE longer == Append(calls, call)
           n == Len(calls)
           at(i) == IF f = "claude" THEN i ELSE i - 1
<1>1. /\ n \in Nat /\ DOMAIN longer = 1..(n + 1) /\ DOMAIN calls = 1..n /\ Len(longer) = n + 1
      /\ longer[n + 1] = call /\ \A i \in 1..n : longer[i] = calls[i]
  <2>1. PICK S : calls \in Seq(S)
    BY DEF IsSeq
  <2>2. calls \in Seq(S \cup {call})
    BY <2>1
  <2> QED
    BY <2>2
<1> HIDE DEF longer, n
<1>2. longer # <<>>
  <2>1. Len(longer) # 0
    BY <1>1
  <2>2. Len(<<>>) = 0
    BY Nothing
  <2> QED
    BY <2>1, <2>2
<1>3. Indexed(f, longer) = {<<at(i), longer[i]>> : i \in 1..(n + 1)}
  BY <1>1 DEF Indexed
<1>4. Indexed(f, calls) = {<<at(i), calls[i]>> : i \in 1..n}
  BY <1>1 DEF Indexed
<1>5. 1..(n + 1) = 1..n \cup {n + 1} /\ at(n + 1) = IF f = "claude" THEN n + 1 ELSE n
  BY <1>1
<1> HIDE DEF at
<1>6. {<<at(i), longer[i]>> : i \in 1..n} = Indexed(f, calls)
  BY <1>1, <1>4
<1>7. Indexed(f, longer) = {<<at(i), longer[i]>> : i \in 1..n} \cup {<<at(n + 1), longer[n + 1]>>}
  BY <1>3, <1>5
<1> QED
  BY <1>1, <1>2, <1>5, <1>6, <1>7 DEF longer, n

LEMMA NumbersListed ==
    ASSUME NEW es, IsSeq(es), NEW type
    PROVE  IsSeq(NumbersIn(es, type))
<1> DEFINE s == [i \in 1..Len(es) |-> i]
           chosen == {i \in 1..Len(es) : es[i].type = type}
<1>1. DOMAIN es = 1..Len(es) /\ Len(es) \in Nat
  <2>1. PICK S : es \in Seq(S)
    BY DEF IsSeq
  <2> QED
    BY <2>1
<1>2. NumbersIn(es, type) = At(s, chosen)
  BY <1>1 DEF NumbersIn
<1>3. s = [i \in 1..Len(es) |-> s[i]]
  OBVIOUS
<1> HIDE DEF s, chosen
<1>4. IsSeq(s)
  BY <1>1, <1>3, Listed
<1> QED
  BY <1>2, <1>4, AtFold

(* What one more event makes of the answer.                                *)
LEMMA EventsAgree ==
    ASSUME UsageInv, AgreeInv, NEW e, Consume(e), e.type = "usage" => e \in UsageEvents,
           usage' = IF e.type = "usage" THEN Observe(usage, e) ELSE usage,
           e.type = "done" /\ e.reason = "tool_calls" => Has("tool_call")
    PROVE  /\ usage' = UsageOf(events')
           /\ \A type : NumbersIn(events', type) = IF e.type = type THEN Append(NumbersIn(events, type), This)
                                                   ELSE NumbersIn(events, type)
           /\ IsSeq(NumbersIn(events, "tool_call"))
           /\ \A type \in Pieces : Has(type)' <=> NumbersIn(events', type) # <<>>
           /\ Has("tool_call")' <=> Has("tool_call") \/ e.type = "tool_call"
           /\ StoppedForCalls' => Has("tool_call")'
<1>1. events' = Append(events, e)
  BY DEF Consume
<1>2. UsageTyped(events) /\ UsageTyped(events') /\ IsSeq(events)
  BY UsageConsumed DEF UsageInv, UsageTyped
<1>3. usage = UsageOf(events) /\ \A type \in Pieces : Has(type) <=> NumbersIn(events, type) # <<>>
  BY DEF AgreeInv
<1>4. usage' = UsageOf(events')
  BY <1>1, <1>2, <1>3, UsedGrows DEF Used
<1>5. \A type : NumbersIn(events', type) = IF e.type = type THEN Append(NumbersIn(events, type), This)
                                           ELSE NumbersIn(events, type)
  BY <1>1, <1>2, NumbersGrow DEF This
<1>6. \A type : IsSeq(NumbersIn(events, type))
  BY <1>2, NumbersListed
<1>7. /\ DOMAIN events' = DOMAIN events \cup {Len(events) + 1}
      /\ events'[Len(events) + 1] = e /\ \A i \in DOMAIN events : events'[i] = events[i]
  <2>1. PICK S : events \in Seq(S)
    BY <1>2 DEF IsSeq
  <2>2. events \in Seq(S \cup {e})
    BY <2>1
  <2>3. /\ DOMAIN events' = 1..(Len(events) + 1) /\ DOMAIN events = 1..Len(events) /\ Len(events) \in Nat
        /\ events'[Len(events) + 1] = e /\ \A i \in 1..Len(events) : events'[i] = events[i]
    BY <1>1, <2>2
  <2>4. 1..(Len(events) + 1) = 1..Len(events) \cup {Len(events) + 1}
    BY <2>3
  <2> QED
    BY <2>3, <2>4
<1>8. ASSUME NEW type
      PROVE  Has(type)' <=> Has(type) \/ e.type = type
  <2>1. Has(type)' <=> \E i \in DOMAIN events' : events'[i].type = type
    BY DEF Has
  <2> QED
    BY <1>7, <2>1 DEF Has
<1>9. \A type : Append(NumbersIn(events, type), This) # <<>>
  BY <1>6, IndexedGrows
<1>10. \A type \in Pieces : Has(type)' <=> NumbersIn(events', type) # <<>>
  BY <1>3, <1>5, <1>8, <1>9
<1>11. StoppedForCalls' => Has("tool_call")'
  <2>1. StoppedForCalls' <=> \E i \in DOMAIN events' : events'[i].type = "done" /\ events'[i].reason = "tool_calls"
    BY DEF StoppedForCalls
  <2>2. StoppedForCalls' => StoppedForCalls \/ (e.type = "done" /\ e.reason = "tool_calls")
    BY <1>7, <2>1 DEF StoppedForCalls
  <2>3. StoppedForCalls => Has("tool_call")
    BY DEF AgreeInv
  <2> QED
    BY <1>8, <2>2, <2>3
<1> QED
  BY <1>4, <1>5, <1>6, <1>8, <1>10, <1>11

(* One more event and the frames it sends keep the stream what the answer  *)
(* in one piece would be.                                                  *)
LEMMA EventAgrees ==
    ASSUME TypeInv, UsageInv, AgreeInv,
           NEW type \in {"text", "thinking", "tool_call", "done"},
           NEW e, e.type = type, Consume(e), usage' = usage,
           type = "done" /\ e.reason = "tool_calls" => Has("tool_call"),
           NEW fs, IsFrames(fs, This), NEW next \in {"open", "done"}, Emit(fs, next),
           \A i \in 1..(Len(fs) - 1) : fs[i].name \notin {"text", "thinking", "tool"},
           Len(fs) > 0 /\ fs[Len(fs)].name = "text" <=> type = "text",
           type = "text" => fs[Len(fs)].content = This,
           format = "openai-response" =>
              /\ text' = IF type = "text" THEN Append(text, This) ELSE text
              /\ toolCalls' = IF type = "tool_call" THEN Append(toolCalls, This) ELSE toolCalls,
           format # "openai-response" =>
              /\ Len(fs) > 0 /\ fs[Len(fs)].name = "thinking" <=> type = "thinking"
              /\ type = "thinking" => fs[Len(fs)].content = This
              /\ Len(fs) > 0 /\ fs[Len(fs)].name = "tool" <=> type = "tool_call"
              /\ type = "tool_call" => /\ fs[Len(fs)].content = This
                                       /\ fs[Len(fs)].index = IF format = "claude" THEN toolIdx + 1 ELSE toolIdx
              /\ toolIdx' = IF type = "tool_call" THEN toolIdx + 1 ELSE toolIdx,
           phase' = "done" => Closed'
    PROVE  AgreeInv'
<1> DEFINE calls == NumbersIn(events, "tool_call")
           later == NumbersIn(events', "tool_call")
           last == fs[Len(fs)]
<1>1. phase = "open" /\ format' = format
  BY DEF Consume
<1>2. /\ usage' = UsageOf(events')
      /\ later = IF type = "tool_call" THEN Append(calls, This) ELSE calls
      /\ NumbersIn(events', "text") = IF type = "text" THEN Append(NumbersIn(events, "text"), This)
                                      ELSE NumbersIn(events, "text")
      /\ NumbersIn(events', "thinking") = IF type = "thinking" THEN Append(NumbersIn(events, "thinking"), This)
                                          ELSE NumbersIn(events, "thinking")
      /\ IsSeq(calls)
      /\ \A piece \in Pieces : Has(piece)' <=> NumbersIn(events', piece) # <<>>
      /\ StoppedForCalls' => Has("tool_call")'
  <2>1. e.type # "usage"
    OBVIOUS
  <2> QED
    BY <2>1, EventsAgree
<1>3. /\ ContentsIn(out, "text") = NumbersIn(events, "text")
      /\ format # "openai-response" =>
            /\ ContentsIn(out, "thinking") = NumbersIn(events, "thinking")
            /\ toolIdx = Len(calls) /\ PairsIn(out, "tool") = Indexed(format, calls)
      /\ format = "openai-response" => text = NumbersIn(events, "text") /\ toolCalls = calls
  BY <1>1 DEF AgreeInv
<1>4. IsSeq(out) /\ seq \in Nat
  BY DEF TypeInv, FramesOK
<1> HIDE DEF calls, later
<1>5. ASSUME phase' # "refused"
      PROVE  ContentsIn(out', "text") = NumbersIn(events', "text")
  <2>1. IF Len(fs) > 0 /\ last.name = "text" THEN SaysMore(out, out', "text", last) ELSE SaysSame(out, out', "text")
    BY <1>4, <1>5, EmitsPieces
  <2> QED
    BY <1>2, <1>3, <2>1 DEF SaysMore, SaysSame
<1>6. ASSUME phase' # "refused", format # "openai-response"
      PROVE  toolIdx' = Len(later) /\ PairsIn(out', "tool") = Indexed(format, later)
  <2>1. IF Len(fs) > 0 /\ last.name = "tool" THEN SaysMore(out, out', "tool", last) ELSE SaysSame(out, out', "tool")
    BY <1>4, <1>6, EmitsPieces
  <2> HIDE DEF last
  <2>2. CASE type = "tool_call"
    <3>1. PairsIn(out', "tool") = PairsIn(out, "tool") \cup {<<last.index, last.content>>}
      BY <1>6, <2>1, <2>2 DEF SaysMore, last
    <3>2. last.content = This /\ last.index = IF format = "claude" THEN Len(calls) + 1 ELSE Len(calls)
      BY <1>3, <1>6, <2>2 DEF last
    <3>3. /\ Len(later) = Len(calls) + 1
          /\ Indexed(format, later) = Indexed(format, calls)
                \cup {<<IF format = "claude" THEN Len(calls) + 1 ELSE Len(calls), This>>}
      BY <1>2, <2>2, IndexedGrows
    <3> QED
      BY <1>3, <1>6, <2>2, <3>1, <3>2, <3>3
  <2>3. CASE type # "tool_call"
    <3>1. PairsIn(out', "tool") = PairsIn(out, "tool")
      BY <1>6, <2>1, <2>3 DEF SaysSame, last
    <3> QED
      BY <1>2, <1>3, <1>6, <2>3, <3>1
  <2> QED
    BY <2>2, <2>3
<1>7. ASSUME phase' # "refused", format # "openai-response"
      PROVE  ContentsIn(out', "thinking") = NumbersIn(events', "thinking")
  <2>1. IF Len(fs) > 0 /\ last.name = "thinking"
        THEN SaysMore(out, out', "thinking", last) ELSE SaysSame(out, out', "thinking")
    BY <1>4, <1>7, EmitsPieces
  <2> QED
    BY <1>2, <1>3, <1>7, <2>1 DEF SaysMore, SaysSame
<1>8. format = "openai-response" => text' = NumbersIn(events', "text") /\ toolCalls' = later
  BY <1>2, <1>3
<1> QED
  BY <1>1, <1>2, <1>5, <1>6, <1>7, <1>8 DEF AgreeInv, later

LEMMA AgreeInit == Init => AgreeInv
<1> SUFFICES ASSUME Init PROVE AgreeInv
  OBVIOUS
<1>1. /\ events = <<>> /\ out = <<>> /\ usage = NoUsage /\ phase = "open" /\ toolIdx = 0
      /\ text = <<>> /\ toolCalls = <<>>
  BY DEF Init
<1>2. Len(<<>>) = 0 /\ IsSeq(<<>>) /\ DOMAIN <<>> = {}
  BY Nothing
<1>3. ASSUME NEW s, IsSeq(s), Len(s) = 0, NEW positions
      PROVE  At(s, positions) = <<>>
  BY <1>3, AtFold DEF AtSteps
<1>4. /\ \A type : NumbersIn(events, type) = <<>>
      /\ \A name : ContentsIn(out, name) = <<>>
  <2>1. ASSUME NEW f, f = [i \in 1..0 |-> f[i]], NEW positions
        PROVE  At(f, positions) = <<>>
    BY <1>3, <2>1, Listed
  <2>2. DOMAIN events = 1..0 /\ DOMAIN out = 1..0
    BY <1>1, <1>2
  <2> DEFINE s == [i \in 1..0 |-> i]
             t == [i \in 1..0 |-> out[i].content]
  <2>3. s = [i \in 1..0 |-> s[i]] /\ t = [i \in 1..0 |-> t[i]]
    OBVIOUS
  <2>4. /\ \A type : NumbersIn(events, type) = At(s, {i \in 1..0 : events[i].type = type})
        /\ \A name : ContentsIn(out, name) = At(t, {i \in 1..0 : out[i].name = name})
    BY <2>2 DEF NumbersIn, ContentsIn
  <2> HIDE DEF s, t
  <2> QED
    BY <2>1, <2>3, <2>4
<1>5. /\ PairsIn(out, "tool") = {} /\ Indexed(format, <<>>) = {}
      /\ ~ StoppedForCalls /\ \A type : ~ Has(type)
  BY <1>1, <1>2 DEF PairsIn, Indexed, Has, StoppedForCalls
<1>6. UsageOf(events) = NoUsage
  <2>1. UsageTyped(events)
    BY <1>1, <1>2 DEF UsageTyped
  <2>2. PICK c : UsedSteps(c, events) /\ UsageOf(events) = c[Len(events)]
    BY <2>1, UsedFold
  <2> QED
    BY <1>1, <1>2, <2>2 DEF UsedSteps
<1> QED
  BY <1>1, <1>2, <1>4, <1>5, <1>6 DEF AgreeInv

LEMMA DoneIsNoCall ==
    ASSUME UsageInv, AgreeInv, NEW reason, Consume([type |-> "done", reason |-> reason]), usage' = usage,
           reason = "tool_calls" => Has("tool_call")
    PROVE  Has("tool_call")' <=> Has("tool_call")
<1> DEFINE e == [type |-> "done", reason |-> reason]
<1>1. Consume(e) /\ e.type = "done" /\ e.reason = reason
  OBVIOUS
<1> HIDE DEF e
<1> QED
  BY <1>1, EventsAgree

LEMMA AgreeStep ==
    ASSUME TypeInv, UsageInv, AgreeInv, [Next]_framesVars
    PROVE  AgreeInv'
<1>0. This \in Nat
  <2>1. PICK S : events \in Seq(S)
    BY DEF TypeInv, IsSeq
  <2> QED
    BY <2>1 DEF This
<1>1. ASSUME NEW e \in UsageEvents, Usage(e)
      PROVE  AgreeInv'
  <2>1. Consume(e) /\ usage' = Observe(usage, e) /\ e.type = "usage"
    BY <1>1, EventSays DEF Usage
  <2>2. /\ usage' = UsageOf(events')
        /\ \A type \in Pieces : NumbersIn(events', type) = NumbersIn(events, type)
        /\ \A type \in Pieces : Has(type)' <=> NumbersIn(events', type) # <<>>
        /\ StoppedForCalls' => Has("tool_call")'
    BY <2>1, EventsAgree DEF Pieces
  <2>3. /\ phase = "open" /\ phase' = phase /\ format' = format /\ out' = out /\ toolIdx' = toolIdx
        /\ text' = text /\ toolCalls' = toolCalls
    BY <1>1 DEF Usage, Consume
  <2> QED
    BY <2>2, <2>3 DEF AgreeInv, Pieces
<1>2. ASSUME NEW type \in {"text", "thinking", "tool_call"}, Consume([type |-> type]), usage' = usage,
             NEW f, IsFrame(f, This), Emit(<<f>>, "open"),
             f.name = "text" <=> type = "text", type = "text" => f.content = This,
             format = "openai-response" =>
                /\ text' = IF type = "text" THEN Append(text, This) ELSE text
                /\ toolCalls' = toolCalls /\ type # "tool_call",
             format # "openai-response" =>
                /\ f.name = "thinking" <=> type = "thinking"
                /\ type = "thinking" => f.content = This
                /\ f.name = "tool" <=> type = "tool_call"
                /\ type = "tool_call" => /\ f.content = This
                                         /\ f.index = IF format = "claude" THEN toolIdx + 1 ELSE toolIdx
                /\ toolIdx' = IF type = "tool_call" THEN toolIdx + 1 ELSE toolIdx
      PROVE  AgreeInv'
  <2> DEFINE fs == <<f>>
  <2>1. IsFrames(fs, This)
    BY <1>2, OneFrame
  <2>2. Len(fs) = 1 /\ fs[Len(fs)] = f
    BY Single
  <2>3. Emit(fs, "open") /\ phase' # "done"
    BY <1>2 DEF Emit
  <2> HIDE DEF fs
  <2>4. \A i \in 1..(Len(fs) - 1) : fs[i].name \notin {"text", "thinking", "tool"}
    BY <2>2
  <2>5. /\ Len(fs) > 0 /\ fs[Len(fs)].name = "text" <=> type = "text"
        /\ type = "text" => fs[Len(fs)].content = This
    BY <1>2, <2>2
  <2>6. format # "openai-response" =>
           /\ Len(fs) > 0 /\ fs[Len(fs)].name = "thinking" <=> type = "thinking"
           /\ type = "thinking" => fs[Len(fs)].content = This
           /\ Len(fs) > 0 /\ fs[Len(fs)].name = "tool" <=> type = "tool_call"
           /\ type = "tool_call" => /\ fs[Len(fs)].content = This
                                    /\ fs[Len(fs)].index = IF format = "claude" THEN toolIdx + 1 ELSE toolIdx
           /\ toolIdx' = IF type = "tool_call" THEN toolIdx + 1 ELSE toolIdx
    BY <1>2, <2>2
  <2>7. type \in {"text", "thinking", "tool_call", "done"} /\ type # "done" /\ usage' = usage
    BY <1>2
  <2>8. \E e : e.type = type /\ Consume(e)
    <3> DEFINE e == [type |-> type]
    <3>1. Consume(e) /\ e.type = type
      BY <1>2
    <3> HIDE DEF e
    <3> QED
      BY <3>1
  <2> QED
    BY <1>2, <2>1, <2>3, <2>4, <2>5, <2>6, <2>7, <2>8, EventAgrees
<1>3. CASE TextDelta
  <2> DEFINE f == Frame("text", 0, This)
  <2>1. /\ Consume([type |-> "text"]) /\ Emit(<<f>>, "open") /\ usage' = usage /\ toolIdx' = toolIdx
        /\ text' = (IF format = "openai-response" THEN Append(text, This) ELSE text) /\ toolCalls' = toolCalls
    BY <1>3 DEF TextDelta
  <2>2. IsFrame(f, This) /\ f.name = "text" /\ f.content = This
    BY <1>0 DEF IsFrame, Frame
  <2> HIDE DEF f
  <2> QED
    BY <1>2, <2>1, <2>2
<1>4. CASE ThinkingDelta
  <2>1. /\ Consume([type |-> "thinking"]) /\ usage' = usage /\ toolIdx' = toolIdx
        /\ text' = text /\ toolCalls' = toolCalls
    BY <1>4 DEF ThinkingDelta
  <2>2. CASE format # "openai-response"
    <3> DEFINE f == Frame("thinking", 0, This)
    <3>1. Emit(<<f>>, "open")
      BY <1>4, <2>2 DEF ThinkingDelta
    <3>2. IsFrame(f, This) /\ f.name = "thinking" /\ f.content = This
      BY <1>0 DEF IsFrame, Frame
    <3> HIDE DEF f
    <3> QED
      BY <1>2, <2>1, <2>2, <3>1, <3>2
  <2>3. CASE format = "openai-response"
    <3> DEFINE fs == <<>>
    <3>1. Emit(fs, "open")
      BY <1>4, <2>3 DEF ThinkingDelta
    <3>2. IsFrames(fs, This) /\ Len(fs) = 0
      BY Nothing DEF IsFrames
    <3> HIDE DEF fs
    <3>3. \A i \in 1..(Len(fs) - 1) : fs[i].name \notin {"text", "thinking", "tool"}
      BY <3>2
    <3>4. phase' # "done"
      BY <3>1 DEF Emit
    <3> DEFINE e == [type |-> "thinking"]
    <3>5. Consume(e) /\ e.type = "thinking"
      BY <2>1
    <3> HIDE DEF e
    <3> QED
      BY <2>1, <2>3, <3>1, <3>2, <3>3, <3>4, <3>5, EventAgrees
  <2> QED
    BY <2>2, <2>3
<1>5. CASE ToolCall
  <2> DEFINE f == Frame("tool", IF format = "claude" THEN toolIdx + 1 ELSE toolIdx, This)
  <2>1. /\ Consume([type |-> "tool_call"]) /\ Emit(<<f>>, "open") /\ usage' = usage /\ toolIdx' = toolIdx + 1
        /\ format # "openai-response"
    BY <1>5 DEF ToolCall
  <2>2. /\ IsFrame(f, This) /\ f.name = "tool" /\ f.content = This
        /\ f.index = IF format = "claude" THEN toolIdx + 1 ELSE toolIdx
    <3>1. toolIdx \in Nat /\ toolIdx + 1 \in 0..This /\ toolIdx \in 0..This
      BY <1>0 DEF TypeInv, PiecesOK, This
    <3> QED
      BY <3>1 DEF IsFrame, Frame
  <2> HIDE DEF f
  <2> QED
    BY <1>2, <2>1, <2>2
<1>6. CASE ResponseToolCall
  <2> DEFINE at == Len(toolCalls')
             fs == ToolItem(at, This)
  <2>1. /\ Consume([type |-> "tool_call"]) /\ Emit(fs, "open") /\ usage' = usage
        /\ format = "openai-response" /\ toolCalls' = Append(toolCalls, This) /\ text' = text
    BY <1>6 DEF ResponseToolCall
  <2>2. at \in 0..This
    <3>1. toolCalls \in Seq(Nat) /\ Len(toolCalls) <= Len(events) /\ Len(events) \in Nat
      <4>1. Len(events) \in Nat
        BY Nothing, Joined DEF TypeInv
      <4> QED
        BY <4>1 DEF TypeInv, PiecesOK
    <3>2. at = Len(toolCalls) + 1
      BY <1>0, <2>1, <3>1
    <3> QED
      BY <3>1, <3>2 DEF This
  <2> HIDE DEF at
  <2> DEFINE a == Frame("item.added", at, "call")
             b == Frame("input.delta", at, This)
             c == Frame("input.done", at, This)
             d == Frame("item.done", at, <<This>>)
  <2>3. fs = <<a, b, c, d>>
    BY DEF ToolItem
  <2>4. /\ IsFrame(a, This) /\ IsFrame(b, This) /\ IsFrame(c, This) /\ IsFrame(d, This)
        /\ \A f \in {a, b, c, d} : f.name \notin {"text", "thinking", "tool"}
    BY <2>2 DEF IsFrame, Frame
  <2> HIDE DEF a, b, c, d, fs
  <2>5. IsFrames(fs, This)
    BY <2>3, <2>4, FourFrames
  <2>6. \A i \in 1..Len(fs) : fs[i].name \notin {"text", "thinking", "tool"}
    BY <2>3, <2>4
  <2>7. Len(fs) = 4 /\ Len(fs) \in 1..Len(fs) /\ \A i \in 1..(Len(fs) - 1) : i \in 1..Len(fs)
    BY <2>3
  <2>8. phase' # "done"
    BY <2>1 DEF Emit
  <2> DEFINE e == [type |-> "tool_call"]
  <2>9. Consume(e) /\ e.type = "tool_call"
    BY <2>1
  <2> HIDE DEF e
  <2> QED
    BY <2>1, <2>5, <2>6, <2>7, <2>8, <2>9, EventAgrees
<1>7. CASE Done
  <2> DEFINE answer == [outputs |-> <<text>> \o CallItems(toolCalls),
                        usage |-> UsageBlock(format, usage)]
             report == [tools |-> StopReason = "tool_calls", usage |-> UsageBlock(format, usage)]
             a == Frame("text.done", 0, text)
             b == Frame("part.done", 0, text)
             c == Frame("item.done", 0, text)
             d == Frame("completed", 0, answer)
             f == Frame("final", 0, report)
             fs == IF format = "openai-response" THEN <<a, b, c, d>> ELSE <<f>>
  <2>1. Consume([type |-> "done", reason |-> StopReason]) /\ UNCHANGED <<usage, toolIdx, text, toolCalls>>
    BY <1>7 DEF Done
  <2>2. Emit(fs, "done")
    BY <1>7 DEF Done
  <2>3. report.tools = Has("tool_call") /\ answer.outputs = <<text>> \o CallItems(toolCalls)
    BY DEF StopReason, Has
  <2> HIDE DEF answer, report
  <2>4. /\ IsFrame(a, This) /\ IsFrame(b, This) /\ IsFrame(c, This) /\ IsFrame(d, This) /\ IsFrame(f, This)
        /\ \A g \in {a, b, c, d, f} : g.name \notin {"text", "thinking", "tool"}
    BY <1>0 DEF IsFrame, Frame
  <2>5. d.name = "completed"
    BY DEF Frame
  <2> HIDE DEF a, b, c
  <2>6. /\ format = "openai-response" => fs = <<a, b, c, d>> /\ Len(fs) = 4 /\ fs[Len(fs)] = d
        /\ format # "openai-response" => fs = <<f>> /\ Len(fs) = 1 /\ fs[Len(fs)] = f
    BY Single
  <2>7. IsFrames(fs, This) /\ Len(fs) > 0 /\ IsSeq(fs)
    <3>1. IsFrames(fs, This) /\ Len(fs) > 0
      BY <2>4, <2>6, OneFrame, FourFrames
    <3> QED
      BY <3>1 DEF IsFrames
  <2>8. phase' = "done" => Closed'
    <3>1. ASSUME phase' = "done", NEW content, \E name : fs[Len(fs)] = Frame(name, 0, content)
          PROVE  out'[Len(out')].content = content /\ out'[Len(out')].name = fs[Len(fs)].name
      BY <2>2, <2>7, <3>1, LastEmitted DEF TypeInv, FramesOK
    <3>2. format' = format /\ phase = "open"
      BY <2>1 DEF Consume
    <3>3. CASE format = "openai-response"
      <4>1. phase' = "done" => out'[Len(out')].content = answer /\ out'[Len(out')].name = "completed"
        BY <2>5, <2>6, <3>1, <3>3
      <4> QED
        BY <2>1, <2>3, <3>2, <3>3, <4>1 DEF Closed
    <3>4. CASE format # "openai-response"
      <4>1. phase' = "done" => out'[Len(out')].content = report
        BY <2>6, <3>1, <3>4
      <4>2. Has("tool_call")' <=> Has("tool_call")
        BY <2>1, DoneIsNoCall DEF StopReason
      <4> QED
        BY <2>3, <3>2, <3>4, <4>1, <4>2 DEF Closed, Has
    <3> QED
      BY <3>3, <3>4
  <2> HIDE DEF d, f, fs
  <2>9. \A i \in 1..Len(fs) : fs[i].name \notin {"text", "thinking", "tool"}
    BY <2>4, <2>6
  <2>10. Len(fs) \in 1..Len(fs) /\ \A i \in 1..(Len(fs) - 1) : i \in 1..Len(fs)
    BY <2>6
  <2> DEFINE e == [type |-> "done", reason |-> StopReason]
  <2>11. Consume(e) /\ e.type = "done" /\ (e.reason = "tool_calls" => Has("tool_call"))
    BY <2>1 DEF StopReason
  <2> HIDE DEF e
  <2> QED
    BY <2>1, <2>2, <2>7, <2>8, <2>9, <2>10, <2>11, EventAgrees
<1>8. CASE TurnBreaks
  BY <1>8 DEF TurnBreaks, stateVars, AgreeInv, Has, StoppedForCalls
<1>9. CASE UNCHANGED framesVars
  BY <1>9 DEF framesVars, stateVars, AgreeInv, Has, StoppedForCalls, Closed
<1> QED
  BY <1>1, <1>3, <1>4, <1>5, <1>6, <1>7, <1>8, <1>9 DEF Next

LEMMA AgreeInvariance == Spec => [](TypeInv /\ UsageInv /\ AgreeInv)
<1>1. Init => TypeInv /\ UsageInv /\ AgreeInv
  BY TypeInit, UsageInit, AgreeInit
<1>2. TypeInv /\ UsageInv /\ AgreeInv /\ [Next]_framesVars => (TypeInv /\ UsageInv /\ AgreeInv)'
  BY TypeStep, UsageStep, AgreeStep
<1> QED
  BY <1>1, <1>2, PTL DEF Spec

(* However many pieces and calls a turn brings and in whatever order, what *)
(* a client puts together from the stream is the answer it would have got  *)
(* in one piece, the calls at their indices, the reason it stopped and the *)
(* usage included; of a Responses turn without text and thinking, behind   *)
(* the empty message that only the stream tells (streamState, collectTurn, *)
(* nonStreamingPayload).                                                   *)
THEOREM StreamsAgreeWithPayloads == Spec => []StreamAndPayloadAgree
<1>1. TypeInv /\ UsageInv /\ AgreeInv /\ ResponsesLifecycle => StreamAndPayloadAgree
  <2> SUFFICES ASSUME TypeInv, UsageInv, AgreeInv, ResponsesLifecycle, phase = "done"
               PROVE  StreamAndPayloadAgree
    BY DEF StreamAndPayloadAgree
  <2> DEFINE ended == Last(out).content
             calls == NumbersIn(events, "tool_call")
  <2>1. \A name : Contents(name) = ContentsIn(out, name)
    BY DEF Contents, ContentsIn, Positions
  <2>2. \A type : Numbers(type) = NumbersIn(events, type)
    BY DEF Numbers, NumbersIn
  <2>3. \A name : Said(name) = PairsIn(out, name)
    BY DEF PairsIn, Positions, Said
  <2>4. /\ Has("text") <=> Numbers("text") # <<>>
        /\ Has("thinking") <=> Numbers("thinking") # <<>>
        /\ Has("tool_call") <=> calls # <<>>
    BY <2>2 DEF AgreeInv, Pieces
  <2>5. ended.usage = UsageBlock(format, UsageOf(events)) /\ Closed
    BY DEF AgreeInv, UsageInv, Last
  <2>6. CASE format = "openai-response"
    <3> DEFINE whole == IF Has("text") \/ Has("thinking") THEN Payload.outputs
                        ELSE << <<>> >> \o Payload.outputs
    <3>1. text = Numbers("text") /\ toolCalls = calls /\ Contents("text") = text
      BY <2>1, <2>2, <2>6 DEF AgreeInv
    <3>2. /\ Payload.usage = UsageBlock(format, UsageOf(events))
          /\ Payload.outputs = IF Numbers("text") # <<>> \/ Numbers("thinking") # <<>>
                               THEN <<text>> \o CallItems(toolCalls) ELSE CallItems(toolCalls)
      BY <2>2, <2>6, <3>1 DEF Payload
    <3>3. whole = <<text>> \o CallItems(toolCalls)
      BY <2>4, <3>1, <3>2
    <3>4. Len(out) \in DOMAIN out /\ out[Len(out)].name = "completed" /\ ended = out[Len(out)].content
      <4>1. Len(out) > 0
        BY DEF UsageInv
      <4>2. PICK R : out \in Seq(R)
        BY DEF TypeInv, FramesOK, IsSeq
      <4> QED
        BY <2>5, <2>6, <4>1, <4>2 DEF Closed, Last
    <3>5. ended.outputs = whole
      BY <2>5, <2>6, <3>3, <3>4 DEF Closed
    <3>6. Said("item.done") = {<<i - 1, whole[i]>> : i \in DOMAIN whole}
      <4>1. Said("item.done") = {<<i - 1, ended.outputs[i]>> : i \in DOMAIN ended.outputs}
        BY <2>6, <3>4 DEF ResponsesLifecycle
      <4> HIDE DEF whole, ended
      <4> QED
        BY <3>5, <4>1
    <3>7. whole[1] = text
      <4>1. IsSeq(toolCalls)
        BY <3>1, NumbersListed DEF TypeInv
      <4> QED
        BY <3>3, <4>1, OutputsOf
    <3> QED
      BY <2>5, <2>6, <3>1, <3>2, <3>5, <3>6, <3>7 DEF StreamAndPayloadAgree
  <2>7. CASE format # "openai-response"
    <3>1. /\ Payload.usage = UsageBlock(format, UsageOf(events))
          /\ Payload.text = Numbers("text") /\ Payload.thinking = Numbers("thinking")
          /\ Payload.calls = calls
          /\ Payload.tools = (calls # <<>> \/ (format = "openai-chat" /\ StoppedForCalls))
      BY <2>2, <2>7 DEF Payload
    <3>2. ended.tools = Payload.tools
      <4>1. ended.tools = Has("tool_call") /\ Has("tool_call") \in BOOLEAN
        BY <2>5, <2>7 DEF Closed, Last, Has
      <4>2. Payload.tools <=> Has("tool_call")
        BY <2>4, <3>1 DEF AgreeInv
      <4>3. Payload.tools \in BOOLEAN
        BY <3>1
      <4> QED
        BY <4>1, <4>2, <4>3
    <3>3. Contents("text") = Payload.text /\ Contents("thinking") = Payload.thinking
      BY <2>1, <2>2, <2>7, <3>1 DEF AgreeInv
    <3>4. Said("tool") = Indexed(format, Payload.calls)
      BY <2>3, <2>7, <3>1 DEF AgreeInv
    <3> QED
      BY <2>5, <2>7, <3>1, <3>2, <3>3, <3>4 DEF StreamAndPayloadAgree, Indexed
  <2> QED
    BY <2>6, <2>7
<1> QED
  BY <1>1, AgreeInvariance, ResponsesLiveTheirLives, PTL

=============================================================================
