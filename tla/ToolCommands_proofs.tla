------------------------- MODULE ToolCommands_proofs -------------------------
(***************************************************************************)
(* Theorems about tool calls, for arguments of every length.               *)
(***************************************************************************)
EXTENDS ToolCommands, SequenceLemmas

-----------------------------------------------------------------------------
(* Text: what Translated and Scanned do with one character more. *)

\* What words are made of, and the states of the scan over characters of C.
Letters == Classes \cup {"expanded", "operator", "unspecified"}

Modes == {"plain", "single", "double"}
States(C) == [mode : Modes, escaped : BOOLEAN, word : Seq(C), open : BOOLEAN,
              words : Seq(Seq(C))]

(***************************************************************************)
(* The scan adds nothing to words but the characters it reads, backslashes *)
(* and the marks of expansions and operators.                              *)
(***************************************************************************)
LEMMA ScanTypes ==
  ASSUME NEW C, Backslash \in C, "expanded" \in C, "operator" \in C,
         NEW st \in States(C), NEW c \in C
  PROVE  Scan(st, c) \in States(C)
<1>1. \A s \in States(C), x \in C : Add(s, x) \in States(C)
  BY AppendProperties DEF Add, States
<1>2. \A s \in States(C) : Close(s) \in States(C)
  <2> TAKE s \in States(C)
  <2>1. s.word \in Seq(C) /\ s.words \in Seq(Seq(C))
    BY DEF States
  <2>2. Append(s.words, s.word) \in Seq(Seq(C)) /\ <<>> \in Seq(C)
    BY <2>1, AppendProperties
  <2> QED
    BY <2>2 DEF Close, States
<1>3. \A s \in States(C) : Operator(s) \in States(C)
  <2> TAKE s \in States(C)
  <2>1. Close(s) \in States(C)
    BY <1>2
  <2>2. <<"operator">> \in Seq(C)
    OBVIOUS
  <2> QED
    BY <2>1, <2>2, AppendProperties DEF Operator, States
<1>4. \A s \in States(C), m \in Modes : [s EXCEPT !.mode = m] \in States(C)
  BY DEF States
<1>5. \A s \in States(C), b \in BOOLEAN : [s EXCEPT !.escaped = b] \in States(C)
  BY DEF States
<1>6. \A s \in States(C), m \in Modes : [s EXCEPT !.mode = m, !.open = TRUE] \in States(C)
  BY DEF States
<1>7. st.mode \in Modes
  BY DEF States
<1>8. AfterBackslash(st, c) \in States(C)
  BY <1>1, <1>5 DEF AfterBackslash
<1>9. InSingle(st, c) \in States(C)
  BY <1>1, <1>4 DEF InSingle, Modes
<1>10. InDouble(st, c) \in States(C)
  BY <1>1, <1>4, <1>5 DEF InDouble, Modes
<1>11. InPlain(st, c) \in States(C)
  BY <1>1, <1>2, <1>3, <1>5, <1>6 DEF InPlain, Modes
<1> QED
  BY <1>7, <1>8, <1>9, <1>10, <1>11 DEF Scan, Modes

\* The scan starts in a state over any set of characters.
LEMMA StartType ==
  ASSUME NEW C
  PROVE  Start \in States(C)
  BY EmptySeq DEF Start, States, Modes

\* States that follow the text lead to its last.
LEMMA ScannedIs ==
  ASSUME NEW text \in Seq(Letters), NEW g, g[0] = Start,
         \A i \in 1..Len(text) : g[i] = Scan(g[i - 1], text[i])
  PROVE  Scanned(text) = g[Len(text)]
<1> DEFINE n == Len(text)
           NextOf(f) == [i \in 0..n |-> IF i = 0 THEN Start ELSE Scan(f[i - 1], text[i])]
           state == CHOOSE f : f = NextOf(f)
           h == [i \in 0..n |-> g[i]]
<1>1. n \in Nat
  OBVIOUS
<1>2. Scanned(text) = state[n]
  BY DEF Scanned
<1>3. h = NextOf(h)
  <2>1. \A i \in 1..n : h[i] = Scan(h[i - 1], text[i])
    BY <1>1
  <2>2. h[0] = Start
    BY <1>1
  <2> QED
    BY <1>1, <2>1, <2>2
<1>4. state = NextOf(state)
  <2> HIDE DEF NextOf, h
  <2> QED
    BY <1>3
<1> HIDE DEF state
<1>5. state[0] = Start /\ \A i \in 1..n : state[i] = Scan(state[i - 1], text[i])
  BY <1>1, <1>4
<1>6. Agree(state, g, n)
  <2>1. ASSUME NEW i \in 1..n, state[i - 1] = g[i - 1] PROVE state[i] = g[i]
    <3>1. g[i] = Scan(g[i - 1], text[i]) /\ state[i] = Scan(state[i - 1], text[i])
      BY <1>5
    <3> QED
      BY <2>1, <3>1
  <2>2. state[0] = g[0] /\ \A i \in 1..n : state[i - 1] = g[i - 1] => state[i] = g[i]
    BY <1>5, <2>1
  <2> HIDE DEF n
  <2> QED
    BY <1>1, <2>2, StepsAgree
<1> QED
  BY <1>1, <1>2, <1>6 DEF Agree

(***************************************************************************)
(* Scanning one character more is one step more.                           *)
(***************************************************************************)
LEMMA ScannedAppend ==
  ASSUME NEW text \in Seq(Letters), NEW c \in Letters
  PROVE  Scanned(Append(text, c)) = Scan(Scanned(text), c)
<1> DEFINE all == Append(text, c)
           n == Len(text)
           step == [i \in 1..(n + 1) |-> [st \in States(Letters) |-> Scan(st, all[i])]]
<1>1. /\ all \in Seq(Letters) /\ n \in Nat /\ n + 1 \in Nat /\ Len(all) = n + 1
      /\ (\A i \in 1..n : all[i] = text[i]) /\ all[n + 1] = c
  BY AppendProperties
<1>2. \A i \in 1..(n + 1) : all[i] \in Letters
  BY <1>1
<1> HIDE DEF all
<1>3. \A i \in 1..(n + 1), st \in States(Letters) : Scan(st, all[i]) \in States(Letters)
  BY <1>2, ScanTypes DEF Letters, Classes
<1>4. /\ step \in [1..(n + 1) -> [States(Letters) -> States(Letters)]]
      /\ \A i \in 1..(n + 1), st \in States(Letters) : step[i][st] = Scan(st, all[i])
  BY <1>3
<1> HIDE DEF step
<1>5. PICK g \in [0..(n + 1) -> States(Letters)] :
        g[0] = Start /\ \A i \in 1..(n + 1) : g[i] = step[i][g[i - 1]]
  <2>1. Solvable(States(Letters), Start, n + 1, step)
    BY <1>1, <1>4, StartType, RecursionExists
  <2> QED
    BY <2>1 DEF Solvable
<1>6. \A i \in 1..(n + 1) : g[i] = Scan(g[i - 1], all[i])
  <2> TAKE i \in 1..(n + 1)
  <2>1. i - 1 \in 0..(n + 1)
    BY <1>1
  <2> QED
    BY <1>4, <1>5, <2>1
<1>7. Scanned(all) = g[n + 1]
  BY <1>1, <1>5, <1>6, ScannedIs
<1>8. Scanned(text) = g[n]
  <2>1. \A i \in 1..n : g[i] = Scan(g[i - 1], text[i])
    BY <1>1, <1>6
  <2> QED
    BY <1>5, <2>1, ScannedIs
<1>9. g[n + 1] = Scan(g[n], c)
  BY <1>1, <1>6
<1> QED
  BY <1>7, <1>8, <1>9 DEF all

\* Nothing read leaves the scan where it starts.
LEMMA ScannedNothing == Scanned(<<>>) = Start
<1>1. <<>> \in Seq(Letters) /\ Len(<<>>) = 0
  OBVIOUS
<1> DEFINE g == [i \in {0} |-> Start]
<1>2. g[0] = Start /\ \A i \in 1..0 : g[i] = Scan(g[i - 1], <<>>[i])
  OBVIOUS
<1> HIDE DEF g
<1> QED
  BY <1>1, <1>2, ScannedIs

(***************************************************************************)
(* Words are made of what the text is made of.                             *)
(***************************************************************************)
LEMMA ScannedTypes ==
  ASSUME NEW C \in SUBSET Letters, Backslash \in C, "expanded" \in C, "operator" \in C
  PROVE  \A text \in Seq(C) : Scanned(text) \in States(C)
<1> DEFINE T == {text \in Seq(C) : Scanned(text) \in States(C)}
<1>1. <<>> \in T
  BY ScannedNothing, StartType, EmptySeq
<1>2. ASSUME NEW text \in Seq(C), NEW c \in C, text \in T PROVE Append(text, c) \in T
  <2>1. Append(text, c) \in Seq(C) /\ text \in Seq(Letters) /\ c \in Letters
    BY AppendProperties
  <2> QED
    BY <1>2, <2>1, ScannedAppend, ScanTypes
<1> HIDE DEF T
<1>3. Seq(C) \subseteq T
  BY <1>1, <1>2, AppendInduction
<1> QED
  BY <1>3 DEF T
\* A flattened sequence is what adding its parts one by one gives.
LEMMA FlattenIs ==
  ASSUME NEW S, NEW seqs \in Seq(Seq(S)), NEW g, g[0] = <<>>,
         \A i \in 1..Len(seqs) : g[i] = g[i - 1] \o seqs[i]
  PROVE  FlattenSeq(seqs) = g[Len(seqs)]
<1> DEFINE n == Len(seqs)
           NextOf(f) == [i \in 1..n |-> IF i = 1 THEN seqs[i] ELSE f[i - 1] \o seqs[i]]
           flatten == CHOOSE f : f = NextOf(f)
           h == [i \in 1..n |-> g[i]]
           k == [i \in 0..n |-> IF i = 0 THEN <<>> ELSE flatten[i]]
<1>1. n \in Nat /\ \A i \in 1..n : seqs[i] \in Seq(S)
  OBVIOUS
<1>2. CASE n = 0
  <2>1. FlattenSeq(seqs) = seqs
    BY <1>2 DEF FlattenSeq
  <2>2. seqs = <<>>
    BY <1>2
  <2> QED
    BY <1>2, <2>1, <2>2
<1>3. CASE n # 0
  <2>1. FlattenSeq(seqs) = flatten[n]
    BY <1>3 DEF FlattenSeq
  <2>2. 1 \in 1..n
    BY <1>1, <1>3
  <2>3. <<>> \o seqs[1] = seqs[1]
    BY <1>1, <2>2, ConcatEmptySeq
  <2>4. h = NextOf(h)
    <3>1. h[1] = seqs[1]
      <4>1. g[1] = g[0] \o seqs[1]
        <5>1. g[1] = g[1 - 1] \o seqs[1]
          BY <2>2, Zenon
        <5>2. 1 - 1 = 0
          OBVIOUS
        <5> QED
          BY <5>1, <5>2, Zenon
      <4>2. g[1] = <<>> \o seqs[1]
        BY <4>1, Zenon
      <4> QED
        BY <2>2, <2>3, <4>2
    <3>2. ASSUME NEW i \in 1..n, i # 1 PROVE h[i] = h[i - 1] \o seqs[i]
      <4>1. i - 1 \in 1..n
        BY <1>1, <3>2
      <4> QED
        BY <4>1
    <3> QED
      BY <1>1, <3>1, <3>2
  <2>5. flatten = NextOf(flatten)
    <3> HIDE DEF NextOf, h
    <3> QED
      BY <2>4
  <2> HIDE DEF flatten
  <2>6. flatten[1] = seqs[1] /\ \A i \in 1..n : i # 1 => flatten[i] = flatten[i - 1] \o seqs[i]
    BY <1>1, <2>2, <2>5
  <2>7. k[0] = g[0] /\ \A i \in 1..n : k[i] = flatten[i]
    BY <1>1
  <2>8. ASSUME NEW i \in 1..n, k[i - 1] = g[i - 1] PROVE k[i] = g[i]
    <3>1. g[i] = g[i - 1] \o seqs[i]
      OBVIOUS
    <3>2. CASE i = 1
      <4>1. g[1] = g[0] \o seqs[1]
        <5>1. g[1] = g[1 - 1] \o seqs[1]
          BY <2>2, Zenon
        <5>2. 1 - 1 = 0
          OBVIOUS
        <5> QED
          BY <5>1, <5>2, Zenon
      <4>2. g[1] = seqs[1]
        BY <2>3, <4>1, Zenon
      <4> HIDE DEF k
      <4> QED
        BY <2>6, <2>7, <3>2, <4>2
    <3>3. CASE i # 1
      <4>1. i - 1 \in 1..n
        BY <1>1, <3>3
      <4> HIDE DEF k
      <4> QED
        BY <2>6, <2>7, <2>8, <3>1, <3>3, <4>1
    <3> QED
      BY <3>2, <3>3
  <2> HIDE DEF k
  <2>9. \A i \in 1..n : k[i - 1] = g[i - 1] => k[i] = g[i]
    BY <2>8
  <2> HIDE DEF n
  <2>10. Agree(k, g, n)
    BY <1>1, <2>7, <2>9, StepsAgree
  <2>11. n \in 1..n /\ n \in 0..n
    BY <1>1, <1>3
  <2>12. k[n] = g[n] /\ k[n] = flatten[n]
    BY <2>7, <2>10, <2>11 DEF Agree
  <2> QED
    BY <2>1, <2>12 DEF n
<1> QED
  BY <1>2, <1>3

\* f has a text over S for each character of D.
Translates(f, D, S) == \A d \in D : f[d] \in Seq(S)

(***************************************************************************)
(* Replacing the characters of a text replaces each where it stands.       *)
(***************************************************************************)
LEMMA TranslatedAppend ==
  ASSUME NEW D, NEW S, NEW f, Translates(f, D, S), NEW text \in Seq(D), NEW c \in D
  PROVE  Translated(Append(text, c), f) = Translated(text, f) \o f[c]
<1> DEFINE all == Append(text, c)
           n == Len(text)
           parts == [i \in 1..Len(all) |-> f[all[i]]]
           front == [i \in 1..n |-> f[text[i]]]
           step == [i \in 1..(n + 1) |-> [v \in Seq(S) |-> v \o parts[i]]]
<1>1. /\ all \in Seq(D) /\ n \in Nat /\ n + 1 \in Nat /\ Len(all) = n + 1
      /\ (\A i \in 1..n : all[i] = text[i]) /\ all[n + 1] = c
  BY AppendProperties
<1> HIDE DEF all
<1>2. \A i \in 1..(n + 1) : all[i] \in D /\ f[all[i]] \in Seq(S)
  BY <1>1 DEF Translates
<1>3. parts \in Seq(Seq(S)) /\ Len(parts) = n + 1 /\ \A i \in 1..(n + 1) : parts[i] = f[all[i]]
  BY <1>1, <1>2
<1>4. front \in Seq(Seq(S)) /\ Len(front) = n /\ \A i \in 1..n : front[i] = parts[i]
  BY <1>1, <1>2
<1>5. Translated(all, f) = FlattenSeq(parts) /\ Translated(text, f) = FlattenSeq(front)
  BY DEF Translated
<1> HIDE DEF parts, front
<1>6. /\ step \in [1..(n + 1) -> [Seq(S) -> Seq(S)]]
      /\ \A i \in 1..(n + 1), v \in Seq(S) : step[i][v] = v \o parts[i]
  <2>1. \A i \in 1..(n + 1), v \in Seq(S) : v \o parts[i] \in Seq(S)
    BY <1>2, <1>3, ConcatProperties
  <2> QED
    BY <2>1
<1> HIDE DEF step
<1>7. PICK g \in [0..(n + 1) -> Seq(S)] :
        g[0] = <<>> /\ \A i \in 1..(n + 1) : g[i] = step[i][g[i - 1]]
  <2>1. Solvable(Seq(S), <<>>, n + 1, step)
    BY <1>1, <1>6, EmptySeq, RecursionExists
  <2> QED
    BY <2>1 DEF Solvable
<1>8. \A i \in 1..(n + 1) : g[i] = g[i - 1] \o parts[i]
  <2> TAKE i \in 1..(n + 1)
  <2>1. i - 1 \in 0..(n + 1)
    BY <1>1
  <2> QED
    BY <1>6, <1>7, <2>1
<1>9. FlattenSeq(parts) = g[n + 1]
  <2>1. g[0] = <<>> /\ \A i \in 1..Len(parts) : g[i] = g[i - 1] \o parts[i]
    BY <1>3, <1>7, <1>8
  <2>2. FlattenSeq(parts) = g[Len(parts)]
    BY <1>3, <2>1, FlattenIs
  <2> QED
    BY <1>3, <2>2
<1>10. FlattenSeq(front) = g[n]
  <2>1. ASSUME NEW i \in 1..Len(front) PROVE g[i] = g[i - 1] \o front[i]
    <3>1. i \in 1..n /\ i \in 1..(n + 1)
      BY <1>1, <1>4
    <3>2. g[i] = g[i - 1] \o parts[i] /\ front[i] = parts[i]
      BY <1>4, <1>8, <3>1, Zenon
    <3> QED
      BY <3>2
  <2>2. FlattenSeq(front) = g[Len(front)]
    BY <1>4, <1>7, <2>1, FlattenIs
  <2> QED
    BY <1>4, <2>2
<1>11. g[n + 1] = g[n] \o f[c] /\ g[n] \in Seq(S)
  <2>1. n + 1 \in 1..(n + 1) /\ (n + 1) - 1 = n /\ n \in 0..(n + 1)
    BY <1>1
  <2>2. g[n + 1] = g[(n + 1) - 1] \o parts[n + 1]
    BY <1>8, <2>1, Zenon
  <2>3. parts[n + 1] = f[c]
    BY <1>1, <1>3, <2>1
  <2> QED
    BY <1>7, <2>1, <2>2, <2>3, Zenon
<1> QED
  BY <1>5, <1>9, <1>10, <1>11 DEF all

\* Nothing to translate, nothing translated.
LEMMA TranslatedNothing ==
  ASSUME NEW f
  PROVE  Translated(<<>>, f) = <<>>
<1> DEFINE none == [i \in 1..Len(<<>>) |-> f[<<>>[i]]]
           g == [i \in {0} |-> <<>>]
<1>1. none \in Seq(Seq({})) /\ Len(none) = 0
  OBVIOUS
<1>2. g[0] = <<>> /\ \A i \in 1..Len(none) : g[i] = g[i - 1] \o none[i]
  BY <1>1
<1>3. Translated(<<>>, f) = FlattenSeq(none)
  BY DEF Translated
<1> HIDE DEF none, g
<1>4. FlattenSeq(none) = g[Len(none)]
  BY <1>1, <1>2, FlattenIs
<1> QED
  BY <1>1, <1>2, <1>3, <1>4

(***************************************************************************)
(* A text in which every character stands for itself stays as it is.       *)
(***************************************************************************)
LEMMA TranslatedSame ==
  ASSUME NEW D, NEW f, \A d \in D : f[d] = <<d>>
  PROVE  \A text \in Seq(D) : Translated(text, f) = text
<1> DEFINE T == {text \in Seq(D) : Translated(text, f) = text}
<1>1. <<>> \in T
  BY TranslatedNothing, EmptySeq
<1>2. ASSUME NEW text \in Seq(D), NEW c \in D, text \in T PROVE Append(text, c) \in T
  <2>1. Translates(f, D, D)
    <3>1. \A d \in D : <<d>> \in Seq(D)
      OBVIOUS
    <3> QED
      BY <3>1 DEF Translates
  <2>2. Translated(Append(text, c), f) = text \o <<c>>
    <3>1. Translated(Append(text, c), f) = Translated(text, f) \o f[c]
      BY <2>1, TranslatedAppend
    <3>2. f[c] = <<c>> /\ Translated(text, f) = text
      BY <1>2
    <3> QED
      BY <3>1, <3>2
  <2>3. Append(text, c) = text \o <<c>> /\ Append(text, c) \in Seq(D)
    BY AppendIsConcat, AppendProperties
  <2> QED
    BY <2>2, <2>3
<1> HIDE DEF T
<1>3. Seq(D) \subseteq T
  BY <1>1, <1>2, AppendInduction
<1> QED
  BY <1>3 DEF T

\* What each character becomes decides what the text consists of.
LEMMA TranslatedType ==
  ASSUME NEW D, NEW S, NEW f, Translates(f, D, S)
  PROVE  \A text \in Seq(D) : Translated(text, f) \in Seq(S)
<1> DEFINE T == {text \in Seq(D) : Translated(text, f) \in Seq(S)}
<1>1. <<>> \in T
  BY TranslatedNothing, EmptySeq
<1>2. ASSUME NEW text \in Seq(D), NEW c \in D, text \in T PROVE Append(text, c) \in T
  <2>1. Translated(Append(text, c), f) = Translated(text, f) \o f[c]
    BY TranslatedAppend
  <2>2. Translated(text, f) \o f[c] \in Seq(S)
    BY <1>2, ConcatProperties DEF Translates
  <2> QED
    BY <2>1, <2>2, AppendProperties
<1> HIDE DEF T
<1>3. Seq(D) \subseteq T
  BY <1>1, <1>2, AppendInduction
<1> QED
  BY <1>3 DEF T

\* Two texts put together are translated each on its own.
LEMMA TranslatedConcat ==
  ASSUME NEW D, NEW S, NEW f, Translates(f, D, S), NEW head \in Seq(D), NEW end \in Seq(D)
  PROVE  Translated(head \o end, f) = Translated(head, f) \o Translated(end, f)
<1> DEFINE T == {tail \in Seq(D) :
                   Translated(head \o tail, f) = Translated(head, f) \o Translated(tail, f)}
<1>1. <<>> \in T
  <2>1. head \o <<>> = head /\ Translated(head, f) \o <<>> = Translated(head, f)
    BY TranslatedType, ConcatEmptySeq
  <2> QED
    BY <2>1, TranslatedNothing, EmptySeq
<1>2. ASSUME NEW tail \in Seq(D), NEW c \in D, tail \in T PROVE Append(tail, c) \in T
  <2> DEFINE h == Translated(head, f)
             t == Translated(tail, f)
             x == f[c]
  <2>1. head \o tail \in Seq(D) /\ head \o Append(tail, c) = Append(head \o tail, c)
        /\ Append(tail, c) \in Seq(D)
    BY ConcatAppend, ConcatProperties, AppendProperties
  <2>2. Translated(Append(head \o tail, c), f) = Translated(head \o tail, f) \o x
    <3> DEFINE both == head \o tail
    <3>1. both \in Seq(D)
      BY <2>1
    <3> HIDE DEF both
    <3>2. Translated(Append(both, c), f) = Translated(both, f) \o f[c]
      BY <3>1, TranslatedAppend
    <3> QED
      BY <3>2 DEF both
  <2>3. Translated(Append(tail, c), f) = t \o x
    BY TranslatedAppend
  <2>4. Translated(head \o tail, f) = h \o t
    BY <1>2
  <2>5. h \in Seq(S) /\ t \in Seq(S) /\ x \in Seq(S)
    BY TranslatedType DEF Translates
  <2> HIDE DEF h, t, x
  <2>6. (h \o t) \o x = h \o (t \o x)
    BY <2>5, ConcatAssociative
  <2>7. Translated(head \o Append(tail, c), f) = h \o Translated(Append(tail, c), f)
    BY <2>1, <2>2, <2>3, <2>4, <2>6
  <2> QED
    BY <2>1, <2>7 DEF h
<1> HIDE DEF T
<1>3. Seq(D) \subseteq T
  BY <1>1, <1>2, AppendInduction
<1> QED
  BY <1>3 DEF T

(***************************************************************************)
(* The pieces quoting puts in place of a character, scanned one by one.    *)
(***************************************************************************)
LEMMA ScannedPieces ==
  ASSUME NEW p \in Seq(Letters)
  PROVE  /\ \A a \in Letters : Scanned(p \o <<a>>) = Scan(Scanned(p), a)
         /\ \A a, b \in Letters : Scanned(p \o <<a, b>>) = Scan(Scan(Scanned(p), a), b)
<1>1. ASSUME NEW a \in Letters PROVE p \o <<a>> = Append(p, a) /\ Append(p, a) \in Seq(Letters)
  BY AppendIsConcat, AppendProperties
<1>2. ASSUME NEW a \in Letters, NEW b \in Letters PROVE p \o <<a, b>> = Append(Append(p, a), b)
  <2>1. <<a, b>> = Append(<<a>>, b) /\ <<a>> \in Seq(Letters)
    OBVIOUS
  <2>2. p \o Append(<<a>>, b) = Append(p \o <<a>>, b)
    BY <2>1, ConcatAppend
  <2> QED
    BY <1>1, <2>1, <2>2
<1> QED
  BY <1>1, <1>2, ScannedAppend

-----------------------------------------------------------------------------
(* Quoted lines.  Between the quotes one word grows; f says what stands    *)
(* for a character there, g what the shell makes of that.                  *)

Inside(st, m, w) ==
  /\ st \in States(Letters)
  /\ st.mode = m /\ ~st.escaped /\ st.word = w /\ st.open /\ st.words = <<>>

\* Inside quotes of kind m the text f[c] adds g[c] to the word.
Yields(f, g, D, m) ==
  \A p \in Seq(Letters), w \in Seq(Letters), c \in D :
    Inside(Scanned(p), m, w) => Inside(Scanned(p \o f[c]), m, w \o g[c])

\* The quote q opens and closes quotes of kind m.
Quotes(q, m) ==
  /\ q \in Letters /\ m \in {"single", "double"}
  /\ Inside(Scan(Start, q), m, <<>>)
  /\ \A st \in States(Letters), w \in Seq(Letters) :
       Inside(st, m, w) => Inside(Scan(st, q), "plain", w)

\* Either quote character opens and closes its own kind of quotes.
LEMMA BothQuote == Quotes(Quote, "single") /\ Quotes(DoubleQuote, "double")
<1>1. Quote \in Letters /\ DoubleQuote \in Letters /\ <<>> \in Seq(Letters)
  BY DEF Letters, Classes
<1>2. Inside(Scan(Start, Quote), "single", <<>>) /\ Inside(Scan(Start, DoubleQuote), "double", <<>>)
  BY <1>1, StartType DEF Inside, States, Modes, Scan, Start, InPlain, Quote, DoubleQuote, Backslash
<1>3. ASSUME NEW st \in States(Letters), NEW w \in Seq(Letters), Inside(st, "single", w)
      PROVE  Inside(Scan(st, Quote), "plain", w)
  BY <1>3 DEF Inside, States, Modes, Scan, InSingle
<1>4. ASSUME NEW st \in States(Letters), NEW w \in Seq(Letters), Inside(st, "double", w)
      PROVE  Inside(Scan(st, DoubleQuote), "plain", w)
  BY <1>4 DEF Inside, States, Modes, Scan, InDouble, DoubleQuote, Backslash
<1> QED
  BY <1>1, <1>2, <1>3, <1>4 DEF Quotes

\* The scan stays inside the quotes to the end of a text that yields g.
LEMMA QuotedScan ==
  ASSUME NEW q, NEW m, Quotes(q, m), NEW D, NEW f, NEW g,
         Translates(f, D, Letters), Translates(g, D, Letters), Yields(f, g, D, m)
  PROVE  \A line \in Seq(D) :
           Inside(Scanned(<<q>> \o Translated(line, f)), m, Translated(line, g))
<1> DEFINE T == {line \in Seq(D) :
                   Inside(Scanned(<<q>> \o Translated(line, f)), m, Translated(line, g))}
<1>0. <<q>> \in Seq(Letters) /\ q \in Letters /\ <<>> \in Seq(Letters)
  BY DEF Quotes
<1>1. <<>> \in T
  <2>1. <<q>> \o <<>> = <<q>>
    BY <1>0, ConcatEmptySeq
  <2>2. <<q>> = Append(<<>>, q)
    OBVIOUS
  <2>3. Inside(Scanned(<<q>>), m, <<>>)
    BY <1>0, <2>2, ScannedAppend, ScannedNothing DEF Quotes
  <2> QED
    BY <2>1, <2>3, TranslatedNothing, EmptySeq
<1>2. ASSUME NEW line \in Seq(D), NEW c \in D, line \in T PROVE Append(line, c) \in T
  <2> DEFINE t == Translated(line, f)
             w == Translated(line, g)
             p == <<q>> \o t
             x == f[c]
  <2>1. t \in Seq(Letters) /\ w \in Seq(Letters)
    BY TranslatedType
  <2>2. x \in Seq(Letters)
    BY DEF Translates
  <2>3. Translated(Append(line, c), f) = t \o x
    BY TranslatedAppend
  <2>4. Translated(Append(line, c), g) = w \o g[c]
    BY TranslatedAppend
  <2>5. Inside(Scanned(p), m, w)
    BY <1>2
  <2> HIDE DEF t, w
  <2>6. p \in Seq(Letters)
    BY <1>0, <2>1, ConcatProperties
  <2>7. Inside(Scanned(p \o x), m, w \o g[c])
    <3> HIDE DEF p
    <3> QED
      BY <2>1, <2>5, <2>6 DEF Yields
  <2> HIDE DEF x
  <2>8. <<q>> \o (t \o x) = p \o x
    BY <1>0, <2>1, <2>2, ConcatAssociative
  <2>9. Append(line, c) \in Seq(D)
    BY AppendProperties
  <2> QED
    BY <2>3, <2>4, <2>7, <2>8, <2>9
<1> HIDE DEF T
<1>3. Seq(D) \subseteq T
  BY <1>1, <1>2, AppendInduction
<1> QED
  BY <1>3 DEF T

(***************************************************************************)
(* A line in quotes is read as one word.                                   *)
(***************************************************************************)
LEMMA QuotedWords ==
  ASSUME NEW q, NEW m, Quotes(q, m), NEW D, NEW f, NEW g,
         Translates(f, D, Letters), Translates(g, D, Letters), Yields(f, g, D, m),
         NEW line \in Seq(D)
  PROVE  Words(<<q>> \o Translated(line, f) \o <<q>>) = <<Translated(line, g)>>
<1> DEFINE w == Translated(line, g)
           p == <<q>> \o Translated(line, f)
           end == Scanned(p \o <<q>>)
<1>1. q \in Letters /\ <<q>> \in Seq(Letters)
  BY DEF Quotes
<1>2. w \in Seq(Letters) /\ p \in Seq(Letters)
  BY <1>1, TranslatedType, ConcatProperties
<1>3. Inside(Scanned(p), m, w)
  BY QuotedScan
<1> HIDE DEF p, w
<1>4. Inside(end, "plain", w)
  <2>1. Scanned(p \o <<q>>) = Scan(Scanned(p), q)
    BY <1>1, <1>2, ScannedPieces
  <2>2. Scanned(p) \in States(Letters)
    BY <1>3 DEF Inside
  <2> QED
    BY <1>2, <1>3, <2>1, <2>2 DEF Quotes
<1>5. Words(p \o <<q>>) = IF end.mode # "plain" THEN <<>>
                          ELSE Close(IF end.escaped THEN Add(end, "unspecified") ELSE end).words
  BY DEF Words
<1> HIDE DEF end
<1>6. Close(end).words = <<w>>
  BY <1>2, <1>4 DEF Inside, Close, States
<1> QED
  BY <1>4, <1>5, <1>6 DEF p, w, Inside

(***************************************************************************)
(* shell_escape: the shell reads any line back as it was.                  *)
(***************************************************************************)
LEMMA ShellEscapeWords ==
  ASSUME NEW line \in Seq(Classes)
  PROVE  Words(ShellEscape(line)) = <<line>>
<1> DEFINE f == [c \in Classes |-> IF c = Quote THEN <<Quote, Backslash, Quote, Quote>> ELSE <<c>>]
           g == [c \in Classes |-> <<c>>]
<1>1. ShellEscape(line) = <<Quote>> \o Translated(line, f) \o <<Quote>>
  BY DEF ShellEscape
<1>0. Classes \subseteq Letters /\ Quote \in Letters /\ Backslash \in Letters
  BY DEF Letters, Classes
<1>2. Translates(f, Classes, Letters) /\ Translates(g, Classes, Letters)
  <2>1. \A c \in Classes : <<c>> \in Seq(Letters)
    BY <1>0
  <2>2. <<Quote, Backslash, Quote, Quote>> \in Seq(Letters)
    BY <1>0
  <2> QED
    BY <2>1, <2>2 DEF Translates
<1>3. Yields(f, g, Classes, "single")
  <2> SUFFICES ASSUME NEW p \in Seq(Letters), NEW w \in Seq(Letters), NEW c \in Classes,
                      Inside(Scanned(p), "single", w)
               PROVE  Inside(Scanned(p \o f[c]), "single", w \o <<c>>)
    BY DEF Yields
  <2> DEFINE st == Scanned(p)
  <2>0. c \in Letters /\ w \o <<c>> = Append(w, c) /\ Append(w, c) \in Seq(Letters)
    BY <1>0, AppendIsConcat, AppendProperties
  <2>1. CASE c = Quote
    <3> DEFINE ab == <<Quote, Backslash>>
               cd == <<Quote, Quote>>
               half == p \o ab
    <3>1. ab \in Seq(Letters) /\ cd \in Seq(Letters) /\ f[c] = ab \o cd
      <4>1. f[c] = <<Quote, Backslash, Quote, Quote>>
        BY <2>1
      <4> HIDE DEF f
      <4> QED
        BY <1>0, <4>1
    <3>2. half \in Seq(Letters)
      <4> HIDE DEF ab
      <4> QED
        BY <3>1, ConcatProperties
    <3>3. Scanned(half) = Scan(Scan(st, Quote), Backslash)
      BY <1>0, ScannedPieces
    <3>4. p \o f[c] = half \o cd
      <4> HIDE DEF ab, cd, f
      <4> QED
        BY <3>1, ConcatAssociative
    <3>5. Scanned(half \o cd) = Scan(Scan(Scanned(half), Quote), Quote)
      <4> HIDE DEF half
      <4> QED
        BY <1>0, <3>2, ScannedPieces
    <3> DEFINE st1 == Scan(st, Quote)
               st2 == Scan(st1, Backslash)
               st3 == Scan(st2, Quote)
    <3> HIDE DEF st
    <3>6. Inside(st1, "plain", w)
      BY DEF Inside, States, Modes, Scan, InSingle, st
    <3> HIDE DEF st1
    <3>7. /\ st2 \in States(Letters) /\ st2.mode = "plain" /\ st2.escaped /\ st2.word = w
          /\ st2.words = <<>>
      BY <3>6 DEF Inside, States, Scan, InPlain, Quote, Backslash, DoubleQuote
    <3> HIDE DEF st2
    <3>8. Inside(st3, "plain", Append(w, Quote))
      BY <2>0, <2>1, <3>7 DEF Inside, States, Scan, AfterBackslash, Add, Quote
    <3> HIDE DEF st3
    <3>9. Inside(Scan(st3, Quote), "single", Append(w, Quote))
      BY <3>8 DEF Inside, States, Modes, Scan, InPlain, Quote, Backslash, DoubleQuote
    <3> QED
      BY <2>0, <2>1, <3>3, <3>4, <3>5, <3>9 DEF st1, st2, st3
  <2>2. CASE c # Quote
    <3>1. Scanned(p \o <<c>>) = Scan(st, c)
      BY <2>0, ScannedPieces
    <3> HIDE DEF st
    <3>2. Inside(Scan(st, c), "single", Append(w, c))
      BY <2>0, <2>2 DEF Inside, States, Scan, InSingle, Add, st
    <3> QED
      BY <2>0, <2>2, <3>1, <3>2
  <2> QED
    BY <2>1, <2>2
<1>4. Translated(line, g) = line
  BY TranslatedSame
<1> HIDE DEF f, g
<1> QED
  BY <1>1, <1>2, <1>3, <1>4, BothQuote, QuotedWords

(***************************************************************************)
(* Characters in quotes: all but the quote itself stay between single      *)
(* ones; between double ones a backslash waits for the next character.     *)
(***************************************************************************)
LEMMA InSingleQuotes ==
  ASSUME NEW st, NEW w \in Seq(Letters), Inside(st, "single", w), NEW c \in Letters \ {Quote}
  PROVE  Inside(Scan(st, c), "single", Append(w, c))
<1>1. Append(w, c) \in Seq(Letters)
  BY AppendProperties
<1> QED
  BY <1>1 DEF Inside, States, Scan, InSingle, Add

\* A character that is not special in double quotes, and a dollar, which is expanded.
LEMMA InDoubleQuotes ==
  ASSUME NEW st, NEW w \in Seq(Letters), Inside(st, "double", w),
         NEW c \in Classes \ {DoubleQuote, Backslash}
  PROVE  Inside(Scan(st, c), "double", w \o (IF c = "$" THEN <<"expanded">> ELSE <<c>>))
<1>1. c \in Letters /\ "expanded" \in Letters
  BY DEF Letters
<1>2. /\ Append(w, c) \in Seq(Letters) /\ Append(w, c) = w \o <<c>>
      /\ Append(w, "expanded") \in Seq(Letters) /\ Append(w, "expanded") = w \o <<"expanded">>
  BY <1>1, AppendIsConcat, AppendProperties
<1>3. CASE c = "$"
  <2>1. Inside(Scan(st, c), "double", Append(w, "expanded"))
    BY <1>1, <1>2, <1>3 DEF Inside, States, Scan, InDouble, Add, DoubleQuote, Backslash
  <2> QED
    BY <1>2, <1>3, <2>1
<1>4. CASE c # "$"
  <2>1. Inside(Scan(st, c), "double", Append(w, c))
    BY <1>1, <1>2, <1>4 DEF Inside, States, Scan, InDouble, Add
  <2> QED
    BY <1>2, <1>4, <2>1
<1> QED
  BY <1>3, <1>4

\* A backslash in double quotes: it escapes a backslash and stays before a letter.
LEMMA EscapedInDouble ==
  ASSUME NEW st, NEW w \in Seq(Letters), Inside(st, "double", w)
  PROVE  /\ Inside(Scan(Scan(st, Backslash), Backslash), "double", w \o <<Backslash>>)
         /\ Inside(Scan(Scan(st, Backslash), "a"), "double", w \o <<Backslash, "a">>)
<1>1. Backslash \in Letters /\ "a" \in Letters
  BY DEF Letters, Classes
<1> DEFINE u == Append(w, Backslash)
           v == Append(u, "a")
           mid == Scan(st, Backslash)
<1>2. u \in Seq(Letters) /\ v \in Seq(Letters)
  BY <1>1, AppendProperties
<1>3. u = w \o <<Backslash>> /\ v = w \o <<Backslash, "a">>
  <2>1. <<Backslash, "a">> = Append(<<Backslash>>, "a") /\ <<Backslash>> \in Seq(Letters)
    BY <1>1
  <2>2. u = w \o <<Backslash>>
    BY <1>1, AppendIsConcat
  <2>3. w \o Append(<<Backslash>>, "a") = Append(w \o <<Backslash>>, "a")
    BY <1>1, <2>1, ConcatAppend
  <2> QED
    BY <2>1, <2>2, <2>3
<1>4. /\ mid \in States(Letters) /\ mid.mode = "double" /\ mid.escaped /\ mid.word = w
      /\ mid.words = <<>>
  BY DEF Inside, States, Scan, InDouble, Backslash, DoubleQuote
<1> HIDE DEF mid
<1>5. Inside(Scan(mid, Backslash), "double", u)
  BY <1>2, <1>4 DEF Inside, States, Scan, AfterBackslash, Add, Backslash, DoubleQuote
<1>6. Inside(Scan(mid, "a"), "double", v)
  BY <1>1, <1>2, <1>4 DEF Inside, States, Scan, AfterBackslash, Add, Backslash, DoubleQuote
<1> QED
  BY <1>3, <1>5, <1>6 DEF mid

-----------------------------------------------------------------------------
(* What the shell of a container reads of a command that repr() quoted. *)

\* What repr() writes between the quotes, and what double quotes make of it.
Escaped(quote) ==
  [c \in Classes |-> CASE c = "nl"                 -> <<Backslash, "a">>
                       [] c \in {Backslash, quote} -> <<Backslash, c>>
                       [] OTHER                    -> <<c>>]
Expanded ==
  [c \in Classes |-> CASE c = "nl" -> <<Backslash, "a">>
                       [] c = "$"  -> <<"expanded">>
                       [] OTHER    -> <<c>>]

\* repr() is the translated line between two quotes.
LEMMA ReprIs ==
  ASSUME NEW line \in Seq(Classes)
  PROVE  LET q == ReprQuote(line)
         IN  Repr(line) = <<q>> \o Translated(line, Escaped(q)) \o <<q>>
  BY DEF Repr, Escaped

\* What repr() makes of a character.
LEMMA EscapedIs ==
  ASSUME NEW q \in {Quote, DoubleQuote}, NEW c \in Classes
  PROVE  /\ c = "nl" => Escaped(q)[c] = <<Backslash, "a">>
         /\ c \in {Backslash, q} => Escaped(q)[c] = <<Backslash, c>>
         /\ c \notin {"nl", Backslash, q} => Escaped(q)[c] = <<c>>
         /\ Escaped(q)[c] \in Seq(Letters)
<1>1. c \in Letters /\ "a" \in Letters /\ Backslash \in Letters
  BY DEF Letters, Classes
<1>2. /\ c = "nl" => Escaped(q)[c] = <<Backslash, "a">>
      /\ c \in {Backslash, q} => Escaped(q)[c] = <<Backslash, c>>
      /\ c \notin {"nl", Backslash, q} => Escaped(q)[c] = <<c>>
  BY DEF Escaped, Quote, DoubleQuote, Backslash
<1>3. \A x \in Letters : <<x>> \in Seq(Letters) /\ <<Backslash, x>> \in Seq(Letters)
  BY <1>1
<1>4. Escaped(q)[c] \in Seq(Letters)
  BY <1>1, <1>2, <1>3
<1> QED
  BY <1>2, <1>4

\* What is left of a character of a line in double quotes.
LEMMA ExpandedIs ==
  ASSUME NEW c \in Classes
  PROVE  /\ c = "nl" => Expanded[c] = <<Backslash, "a">>
         /\ c = "$" => Expanded[c] = <<"expanded">>
         /\ c \notin {"nl", "$"} => Expanded[c] = <<c>>
         /\ Expanded[c] \in Seq(Letters)
<1>1. c \in Letters /\ "a" \in Letters /\ "expanded" \in Letters /\ Backslash \in Letters
  BY DEF Letters, Classes
<1>2. /\ c = "nl" => Expanded[c] = <<Backslash, "a">>
      /\ c = "$" => Expanded[c] = <<"expanded">>
      /\ c \notin {"nl", "$"} => Expanded[c] = <<c>>
  BY DEF Expanded
<1>3. \A x \in Letters : <<x>> \in Seq(Letters) /\ <<Backslash, x>> \in Seq(Letters)
  BY <1>1
<1>4. Expanded[c] \in Seq(Letters)
  BY <1>1, <1>2, <1>3
<1> QED
  BY <1>2, <1>4

\* A text that does not contain a character is one of the others.
LEMMA WithoutLetter ==
  ASSUME NEW C, NEW text \in Seq(C), NEW c, ~Contains(text, c)
  PROVE  text \in Seq(C \ {c})
  BY DEF Contains

(***************************************************************************)
(* A command without single quotes is put in them: the backslashes that    *)
(* repr() adds stay in the word.                                           *)
(***************************************************************************)
LEMMA ReprSingle ==
  ASSUME NEW line \in Seq(Classes \ {Quote})
  PROVE  Words(Repr(line)) = <<Translated(line, Escaped(Quote))>>
<1> DEFINE D == Classes \ {Quote}
           f == Escaped(Quote)
<1>1. line \in Seq(Classes) /\ ~Contains(line, Quote)
  BY DEF Contains
<1>2. Repr(line) = <<Quote>> \o Translated(line, f) \o <<Quote>>
  BY <1>1, ReprIs DEF ReprQuote
<1>3. Translates(f, D, Letters)
  BY EscapedIs DEF Translates
<1>4. Yields(f, f, D, "single")
  <2> SUFFICES ASSUME NEW p \in Seq(Letters), NEW w \in Seq(Letters), NEW c \in D,
                      Inside(Scanned(p), "single", w)
               PROVE  Inside(Scanned(p \o f[c]), "single", w \o f[c])
    BY DEF Yields
  <2> DEFINE st == Scanned(p)
  <2>0. Backslash \in Letters \ {Quote} /\ "a" \in Letters \ {Quote} /\ c \in Letters \ {Quote}
    BY DEF Letters, Classes, Quote, Backslash
  <2>1. ASSUME NEW x \in Letters \ {Quote}, NEW y \in Letters \ {Quote}
        PROVE  Inside(Scanned(p \o <<x, y>>), "single", w \o <<x, y>>)
    <3>1. Scanned(p \o <<x, y>>) = Scan(Scan(st, x), y)
      BY ScannedPieces
    <3>2. Append(w, x) \in Seq(Letters) /\ w \o <<x, y>> = Append(Append(w, x), y)
      <4>1. <<x, y>> = Append(<<x>>, y) /\ <<x>> \in Seq(Letters)
        OBVIOUS
      <4>2. w \o Append(<<x>>, y) = Append(w \o <<x>>, y)
        BY <4>1, ConcatAppend
      <4> QED
        BY <4>1, <4>2, AppendIsConcat, AppendProperties
    <3> HIDE DEF st
    <3>3. Inside(Scan(st, x), "single", Append(w, x))
      BY InSingleQuotes DEF st
    <3>4. Inside(Scan(Scan(st, x), y), "single", Append(Append(w, x), y))
      BY <3>2, <3>3, InSingleQuotes
    <3> QED
      BY <3>1, <3>2, <3>4
  <2>2. Inside(Scanned(p \o <<c>>), "single", w \o <<c>>)
    <3>1. Scanned(p \o <<c>>) = Scan(st, c) /\ w \o <<c>> = Append(w, c)
      BY <2>0, ScannedPieces, AppendIsConcat
    <3> QED
      BY <2>0, <3>1, InSingleQuotes
  <2>3. f[c] = <<Backslash, "a">> \/ f[c] = <<Backslash, c>> \/ f[c] = <<c>>
    BY EscapedIs
  <2> QED
    BY <2>0, <2>1, <2>2, <2>3
<1> HIDE DEF f
<1> QED
  BY <1>2, <1>3, <1>4, BothQuote, QuotedWords DEF f

(***************************************************************************)
(* A command with single quotes only is put in double ones: the backslash  *)
(* of a line break stays in the word, and expansions are made.             *)
(***************************************************************************)
LEMMA ReprDouble ==
  ASSUME NEW line \in Seq(Classes \ {DoubleQuote}), Contains(line, Quote)
  PROVE  Words(Repr(line)) = <<Translated(line, Expanded)>>
<1> DEFINE D == Classes \ {DoubleQuote}
           f == Escaped(DoubleQuote)
<1>1. line \in Seq(Classes) /\ ~Contains(line, DoubleQuote)
  BY DEF Contains
<1>2. Repr(line) = <<DoubleQuote>> \o Translated(line, f) \o <<DoubleQuote>>
  BY <1>1, ReprIs DEF ReprQuote
<1>3. Translates(f, D, Letters) /\ Translates(Expanded, D, Letters)
  BY EscapedIs, ExpandedIs DEF Translates
<1>4. Yields(f, Expanded, D, "double")
  <2> SUFFICES ASSUME NEW p \in Seq(Letters), NEW w \in Seq(Letters), NEW c \in D,
                      Inside(Scanned(p), "double", w)
               PROVE  Inside(Scanned(p \o f[c]), "double", w \o Expanded[c])
    BY DEF Yields
  <2> DEFINE st == Scanned(p)
  <2>0. Backslash \in Letters /\ "a" \in Letters /\ c \in Letters
    BY DEF Letters, Classes
  <2>1. CASE c = "nl"
    <3>1. f[c] = <<Backslash, "a">> /\ Expanded[c] = <<Backslash, "a">>
      BY <2>1, EscapedIs, ExpandedIs
    <3>2. Scanned(p \o <<Backslash, "a">>) = Scan(Scan(st, Backslash), "a")
      BY <2>0, ScannedPieces
    <3> QED
      BY <3>1, <3>2, EscapedInDouble
  <2>2. CASE c = Backslash
    <3>1. f[c] = <<Backslash, Backslash>> /\ Expanded[c] = <<Backslash>>
      BY <2>2, EscapedIs, ExpandedIs DEF Backslash
    <3>2. Scanned(p \o <<Backslash, Backslash>>) = Scan(Scan(st, Backslash), Backslash)
      BY <2>0, ScannedPieces
    <3> QED
      BY <3>1, <3>2, EscapedInDouble
  <2>3. CASE c \notin {"nl", Backslash}
    <3>1. f[c] = <<c>> /\ Expanded[c] = IF c = "$" THEN <<"expanded">> ELSE <<c>>
      BY <2>3, EscapedIs, ExpandedIs
    <3>2. Scanned(p \o <<c>>) = Scan(st, c)
      BY <2>0, ScannedPieces
    <3> HIDE DEF f
    <3> QED
      BY <2>3, <3>1, <3>2, InDoubleQuotes
  <2> QED
    BY <2>1, <2>2, <2>3
<1> HIDE DEF f
<1> QED
  BY <1>2, <1>3, <1>4, BothQuote, QuotedWords DEF f

(***************************************************************************)
(* Outside single quotes an escaped character leaves the quotes as they    *)
(* are, and any other but a single quote stays outside single ones.        *)
(***************************************************************************)
LEMMA OutsideSingle ==
  ASSUME NEW st \in States(Letters), st.mode \in {"plain", "double"}, ~st.escaped
  PROVE  /\ \A c \in Letters \ {Backslash, Quote} :
              Scan(st, c).mode \in {"plain", "double"} /\ ~Scan(st, c).escaped
         /\ \A c \in Letters :
              /\ Scan(Scan(st, Backslash), c).mode \in {"plain", "double"}
              /\ ~Scan(Scan(st, Backslash), c).escaped
<1>1. ASSUME NEW c \in Letters \ {Backslash, Quote}
      PROVE  Scan(st, c).mode \in {"plain", "double"} /\ ~Scan(st, c).escaped
  <2>1. CASE st.mode = "plain"
    <3>1. Scan(st, c) = InPlain(st, c)
      BY <2>1 DEF Scan
    <3>2. InPlain(st, c).mode \in {"plain", "double"} /\ ~InPlain(st, c).escaped
      BY <2>1 DEF InPlain, Add, Operator, Close, States, Quote, DoubleQuote, Backslash
    <3> QED
      BY <3>1, <3>2
  <2>2. CASE st.mode = "double"
    BY <2>2 DEF Scan, InDouble, Add, States, Quote, DoubleQuote, Backslash
  <2> QED
    BY <2>1, <2>2
<1>2. ASSUME NEW c \in Letters
      PROVE  /\ Scan(Scan(st, Backslash), c).mode \in {"plain", "double"}
             /\ ~Scan(Scan(st, Backslash), c).escaped
  <2> DEFINE mid == Scan(st, Backslash)
  <2>1. mid.mode = st.mode /\ mid.escaped /\ mid \in States(Letters)
    BY DEF Scan, InPlain, InDouble, States, Quote, DoubleQuote, Backslash
  <2> HIDE DEF mid
  <2>2. Scan(mid, c).mode \in {"plain", "double"} /\ ~Scan(mid, c).escaped
    BY <2>1 DEF Scan, AfterBackslash, Add, States
  <2> QED
    BY <2>2 DEF mid
<1> QED
  BY <1>1, <1>2

(***************************************************************************)
(* A command with both kinds is put in single quotes, the first of its own *)
(* ends them, and the closing one opens quotes that nothing closes.        *)
(***************************************************************************)
LEMMA ReprBoth ==
  ASSUME NEW line \in Seq(Classes), Contains(line, Quote), Contains(line, DoubleQuote)
  PROVE  Words(Repr(line)) = <<>>
<1> DEFINE f == Escaped(Quote)
           In(st) == st.mode = "single" /\ ~st.escaped
           Out(st) == st.mode \in {"plain", "double"} /\ ~st.escaped
           At(text) == Scanned(<<Quote>> \o Translated(text, f))
           Holds(text) == /\ At(text) \in States(Letters)
                          /\ IF Contains(text, Quote) THEN Out(At(text)) ELSE In(At(text))
           T == {text \in Seq(Classes) : Holds(text)}
<1>0. Backslash \in Letters /\ "a" \in Letters /\ Quote \in Letters /\ Classes \subseteq Letters
  BY DEF Letters, Classes
<1>1. <<Quote>> \in Seq(Letters)
  BY <1>0
<1>2. Repr(line) = <<Quote>> \o Translated(line, f) \o <<Quote>>
  BY ReprIs DEF ReprQuote
<1>3. Translates(f, Classes, Letters)
  BY EscapedIs DEF Translates
<1> HIDE DEF f
<1>4. <<>> \in T
  <2>1. At(<<>>) = Scan(Start, Quote)
    <3>1. <<Quote>> \o <<>> = <<Quote>> /\ <<Quote>> = Append(<<>>, Quote) /\ <<>> \in Seq(Letters)
      BY <1>1, ConcatEmptySeq
    <3>2. Scanned(Append(<<>>, Quote)) = Scan(Scanned(<<>>), Quote)
      BY <1>0, <3>1, ScannedAppend
    <3> QED
      BY <3>1, <3>2, TranslatedNothing, ScannedNothing
  <2>2. Inside(Scan(Start, Quote), "single", <<>>)
    BY BothQuote DEF Quotes
  <2>3. ~Contains(<<>>, Quote)
    BY DEF Contains
  <2> HIDE DEF At
  <2> QED
    BY <2>1, <2>2, <2>3, EmptySeq DEF Inside
<1>5. ASSUME NEW text \in Seq(Classes), NEW c \in Classes, text \in T PROVE Append(text, c) \in T
  <2> DEFINE p == <<Quote>> \o Translated(text, f)
             st == Scanned(p)
             next == Scanned(p \o f[c])
  <2>1. p \in Seq(Letters)
    BY <1>1, <1>3, TranslatedType, ConcatProperties
  <2>2. At(Append(text, c)) = next
    <3> DEFINE t == Translated(text, f)
               x == f[c]
    <3>1. t \in Seq(Letters) /\ x \in Seq(Letters)
      BY <1>3, TranslatedType DEF Translates
    <3>2. Translated(Append(text, c), f) = t \o x
      BY <1>3, TranslatedAppend
    <3> HIDE DEF t, x
    <3>3. <<Quote>> \o (t \o x) = (<<Quote>> \o t) \o x
      BY <1>1, <3>1, ConcatAssociative
    <3> QED
      BY <3>2, <3>3 DEF t, x
  <2>3. Contains(Append(text, c), Quote) <=> Contains(text, Quote) \/ c = Quote
    BY DEF Contains
  <2>4. Append(text, c) \in Seq(Classes)
    BY AppendProperties
  <2>5. st \in States(Letters) /\ IF Contains(text, Quote) THEN Out(st) ELSE In(st)
    BY <1>5
  <2> HIDE DEF p, At, In, Out
  <2>6. /\ \A a \in Letters : Scanned(p \o <<a>>) = Scan(st, a)
        /\ \A a, b \in Letters : Scanned(p \o <<a, b>>) = Scan(Scan(st, a), b)
    BY <2>1, ScannedPieces
  <2>7. /\ c = "nl" => f[c] = <<Backslash, "a">>
        /\ c \in {Backslash, Quote} => f[c] = <<Backslash, c>>
        /\ c \notin {"nl", Backslash, Quote} => f[c] = <<c>>
    BY EscapedIs DEF f
  <2> DEFINE x == f[c]
  <2> HIDE DEF st
  <2>8. /\ c = "nl" => next = Scan(Scan(st, Backslash), "a")
        /\ c \in {Backslash, Quote} => next = Scan(Scan(st, Backslash), c)
        /\ c \notin {"nl", Backslash, Quote} => next = Scan(st, c)
    BY <1>0, <2>6, <2>7
  <2> HIDE DEF next
  <2>9. next \in States(Letters)
    <3>1. \A s \in States(Letters), a \in Letters : Scan(s, a) \in States(Letters)
      BY <1>0, ScanTypes DEF Letters
    <3> QED
      BY <1>0, <2>5, <2>8, <3>1
  <2>10. CASE Contains(text, Quote)
    <3>1. Out(next)
      BY <1>0, <2>5, <2>8, <2>10, OutsideSingle DEF Out
    <3> QED
      BY <2>2, <2>3, <2>4, <2>9, <2>10, <3>1
  <2>11. CASE ~Contains(text, Quote) /\ c # Quote
    <3>1. \A s \in States(Letters), a \in Letters \ {Quote} :
            In(s) => Scan(s, a) \in States(Letters) /\ In(Scan(s, a))
      <4>1. ASSUME NEW s \in States(Letters), NEW a \in Letters \ {Quote}, In(s)
            PROVE  Scan(s, a) \in States(Letters) /\ In(Scan(s, a))
        <5>1. Scan(s, a) \in States(Letters)
          BY <1>0, ScanTypes DEF Letters
        <5> QED
          BY <4>1, <5>1 DEF In, Scan, InSingle, Add, States
      <4> QED
        BY <4>1
    <3>2. Backslash # Quote /\ "a" # Quote
      BY DEF Quote, Backslash
    <3>3. In(next)
      BY <1>0, <2>5, <2>8, <2>11, <3>1, <3>2
    <3> QED
      BY <2>2, <2>3, <2>4, <2>9, <2>11, <3>3
  <2>12. CASE ~Contains(text, Quote) /\ c = Quote
    <3> DEFINE mid == Scan(st, Backslash)
    <3>1. mid \in States(Letters) /\ mid.mode = "single" /\ ~mid.escaped
      <4>1. mid \in States(Letters)
        BY <1>0, <2>5, ScanTypes DEF Letters
      <4> QED
        BY <2>5, <2>12, <4>1 DEF In, Scan, InSingle, Add, States, Quote, Backslash
    <3> HIDE DEF mid
    <3>2. Out(Scan(mid, Quote))
      BY <3>1 DEF Out, Scan, InSingle, States
    <3>3. next = Scan(mid, Quote)
      BY <2>8, <2>12 DEF mid
    <3> QED
      BY <2>2, <2>3, <2>4, <2>9, <2>12, <3>2, <3>3
  <2> QED
    BY <2>10, <2>11, <2>12
<1> HIDE DEF T
<1>6. Seq(Classes) \subseteq T
  BY <1>4, <1>5, AppendInduction
<1> DEFINE p == <<Quote>> \o Translated(line, f)
           st == Scanned(p)
<1>7. st \in States(Letters) /\ st.mode \in {"plain", "double"} /\ ~st.escaped
  BY <1>6 DEF T
<1>8. p \in Seq(Letters)
  BY <1>1, <1>3, TranslatedType, ConcatProperties
<1> HIDE DEF p
<1>9. Scanned(p \o <<Quote>>) = Scan(st, Quote)
  BY <1>0, <1>8, ScannedPieces
<1> HIDE DEF st
<1>10. Scan(st, Quote).mode # "plain"
  BY <1>7 DEF Scan, InPlain, InDouble, Add, States, Quote, DoubleQuote, Backslash
<1> QED
  BY <1>2, <1>9, <1>10 DEF Words, p

\* g lengthens the characters of X, or makes something of them that is not in D.
Changes(g, D, X) ==
  /\ \A d \in D : (\E e : g[d] = <<e>>) \/ \E e1, e2 : g[d] = <<e1, e2>>
  /\ \A x \in X : (\E e : e \notin D /\ g[x] = <<e>>) \/ \E e1, e2 : g[x] = <<e1, e2>>

Foreign(text, D) == \E i \in 1..Len(text) : text[i] \notin D

(***************************************************************************)
(* A text with a character that is changed is changed, for nothing that is *)
(* put in place of another character shortens it again.                    *)
(***************************************************************************)
LEMMA TranslationChanges ==
  ASSUME NEW D, NEW S, NEW g, Translates(g, D, S), NEW X \in SUBSET D, Changes(g, D, X)
  PROVE  \A text \in Seq(D) :
           (\E x \in X : Contains(text, x)) => Translated(text, g) # text
<1> DEFINE Has(text) == \E x \in X : Contains(text, x)
           T == {text \in Seq(D) :
                   /\ Len(Translated(text, g)) >= Len(text)
                   /\ Has(text) => \/ Len(Translated(text, g)) > Len(text)
                                   \/ Foreign(Translated(text, g), D)}
<1>1. <<>> \in T
  <2>1. Translated(<<>>, g) = <<>> /\ <<>> \in Seq(D) /\ ~Has(<<>>)
    BY TranslatedNothing, EmptySeq DEF Contains
  <2> HIDE DEF Has
  <2> QED
    BY <2>1
<1>2. ASSUME NEW text \in Seq(D), NEW d \in D, text \in T PROVE Append(text, d) \in T
  <2> DEFINE t == Translated(text, g)
             x == g[d]
             u == Translated(Append(text, d), g)
  <2>1. t \in Seq(S) /\ x \in Seq(S) /\ u = t \o x
    BY TranslatedType, TranslatedAppend DEF Translates
  <2>2. Append(text, d) \in Seq(D) /\ Len(Append(text, d)) = Len(text) + 1
    BY AppendProperties
  <2>3. Has(Append(text, d)) => Has(text) \/ d \in X
    BY DEF Contains
  <2>4. Len(x) >= 1 /\ (d \in X => Len(x) >= 2 \/ \E e : e \notin D /\ x = <<e>>)
    <3>1. \A e, e1, e2 : Len(<<e>>) = 1 /\ Len(<<e1, e2>>) = 2
      OBVIOUS
    <3>2. (\E e : x = <<e>>) \/ \E e1, e2 : x = <<e1, e2>>
      BY DEF Changes
    <3>3. d \in X => (\E e : e \notin D /\ x = <<e>>) \/ \E e1, e2 : x = <<e1, e2>>
      BY DEF Changes
    <3> HIDE DEF x
    <3>4. Len(x) >= 1
      BY <3>1, <3>2
    <3>5. (\E e1, e2 : x = <<e1, e2>>) => Len(x) >= 2
      BY <3>1
    <3> QED
      BY <3>3, <3>4, <3>5
  <2>5. Len(t) >= Len(text) /\ (Has(text) => Len(t) > Len(text) \/ Foreign(t, D))
    BY <1>2
  <2> HIDE DEF t, x, u, Has
  <2>6. /\ Len(u) = Len(t) + Len(x)
        /\ \A i \in 1..Len(t) : u[i] = t[i]
        /\ \A i \in 1..Len(x) : u[Len(t) + i] = x[i]
    BY <2>1, ConcatProperties
  <2>7. Len(t) \in Nat /\ Len(x) \in Nat /\ Len(text) \in Nat
    BY <2>1
  <2>8. Len(u) >= Len(Append(text, d))
    BY <2>2, <2>4, <2>5, <2>6, <2>7
  <2>9. ASSUME Has(text) PROVE Len(u) > Len(Append(text, d)) \/ Foreign(u, D)
    <3>1. Foreign(t, D) => Foreign(u, D)
      BY <2>6, <2>7 DEF Foreign
    <3> QED
      BY <2>2, <2>4, <2>5, <2>6, <2>7, <2>9, <3>1
  <2>10. ASSUME d \in X PROVE Len(u) > Len(Append(text, d)) \/ Foreign(u, D)
    <3>1. CASE Len(x) >= 2
      BY <2>2, <2>5, <2>6, <2>7, <3>1
    <3>2. CASE \E e : e \notin D /\ x = <<e>>
      <4>1. Len(x) = 1 /\ x[1] \notin D
        BY <3>2
      <4>2. Len(t) + 1 \in 1..Len(u) /\ u[Len(t) + 1] \notin D
        BY <2>6, <2>7, <4>1
      <4> QED
        BY <4>2 DEF Foreign
    <3> QED
      BY <2>4, <2>10, <3>1, <3>2
  <2>11. Has(Append(text, d)) => Len(u) > Len(Append(text, d)) \/ Foreign(u, D)
    BY <2>3, <2>9, <2>10
  <2> QED
    BY <2>2, <2>8, <2>11 DEF u
<1>3. Seq(D) \subseteq T
  <2> HIDE DEF T
  <2> QED
    BY <1>1, <1>2, AppendInduction
<1> SUFFICES ASSUME NEW text \in Seq(D), Has(text) PROVE Translated(text, g) # text
  OBVIOUS
<1>4. Len(Translated(text, g)) > Len(text) \/ Foreign(Translated(text, g), D)
  BY <1>3
<1>5. ~Foreign(text, D) /\ ~(Len(text) > Len(text))
  BY DEF Foreign
<1> QED
  BY <1>4, <1>5

(***************************************************************************)
(* What a container's inner shell gets to run.                             *)
(***************************************************************************)
Received(line) ==
  LET words == Words(Repr(line))
  IN  IF words = <<>> THEN <<"unspecified">> ELSE Head(words)

\* A line without a single quote is received as repr() wrote it.
LEMMA ReceivedSingle ==
  ASSUME NEW line \in Seq(Classes \ {Quote})
  PROVE  /\ Received(line) = Translated(line, Escaped(Quote))
         /\ Received(line) = line <=> ~Contains(line, "nl") /\ ~Contains(line, Backslash)
<1> DEFINE D == Classes \ {Quote}
           f == Escaped(Quote)
           X == {"nl", Backslash}
<1>1. Received(line) = Translated(line, f)
  <2> HIDE DEF f
  <2> QED
    BY ReprSingle DEF Received, f
<1>2. \A c \in D : /\ c = "nl" => f[c] = <<Backslash, "a">>
                   /\ c = Backslash => f[c] = <<Backslash, Backslash>>
                   /\ c \notin X => f[c] = <<c>>
  BY EscapedIs DEF Backslash
<1>3. X \subseteq D
  BY DEF Classes, Quote, Backslash
<1>4. Translates(f, D, Letters)
  BY EscapedIs DEF Translates
<1> HIDE DEF f
<1>5. Changes(f, D, X)
  BY <1>2, <1>3 DEF Changes
<1>6. Contains(line, "nl") \/ Contains(line, Backslash) => Translated(line, f) # line
  <2> HIDE DEF D
  <2>1. (\E x \in X : Contains(line, x)) => Translated(line, f) # line
    BY <1>3, <1>4, <1>5, TranslationChanges DEF D
  <2> QED
    BY <2>1
<1>7. ~Contains(line, "nl") /\ ~Contains(line, Backslash) => Translated(line, f) = line
  <2> SUFFICES ASSUME ~Contains(line, "nl"), ~Contains(line, Backslash)
               PROVE  Translated(line, f) = line
    OBVIOUS
  <2>1. line \in Seq(D \ X)
    BY DEF Contains
  <2>2. \A d \in D \ X : f[d] = <<d>>
    BY <1>2
  <2> QED
    BY <2>1, <2>2, TranslatedSame
<1> QED
  BY <1>1, <1>6, <1>7 DEF f

\* A line with single quotes only is received with its dollars expanded.
LEMMA ReceivedDouble ==
  ASSUME NEW line \in Seq(Classes \ {DoubleQuote}), Contains(line, Quote)
  PROVE  /\ Received(line) = Translated(line, Expanded)
         /\ Received(line) = line <=> ~Contains(line, "nl") /\ ~Contains(line, "$")
<1> DEFINE D == Classes \ {DoubleQuote}
           X == {"nl", "$"}
<1>1. Received(line) = Translated(line, Expanded)
  BY ReprDouble DEF Received
<1>2. \A c \in D : /\ c = "nl" => Expanded[c] = <<Backslash, "a">>
                   /\ c = "$" => Expanded[c] = <<"expanded">>
                   /\ c \notin X => Expanded[c] = <<c>>
  BY ExpandedIs
<1>3. X \subseteq D /\ "expanded" \notin D
  BY DEF Classes, Quote, DoubleQuote, Backslash
<1>4. Translates(Expanded, D, Letters)
  BY ExpandedIs DEF Translates
<1>5. Changes(Expanded, D, X)
  BY <1>2, <1>3 DEF Changes
<1>6. Contains(line, "nl") \/ Contains(line, "$") => Translated(line, Expanded) # line
  <2> HIDE DEF D
  <2>1. (\E x \in X : Contains(line, x)) => Translated(line, Expanded) # line
    BY <1>3, <1>4, <1>5, TranslationChanges DEF D
  <2> QED
    BY <2>1
<1>7. ~Contains(line, "nl") /\ ~Contains(line, "$") => Translated(line, Expanded) = line
  <2> SUFFICES ASSUME ~Contains(line, "nl"), ~Contains(line, "$")
               PROVE  Translated(line, Expanded) = line
    OBVIOUS
  <2>1. line \in Seq(D \ X)
    BY DEF Contains
  <2>2. \A d \in D \ X : Expanded[d] = <<d>>
    BY <1>2
  <2> QED
    BY <2>1, <2>2, TranslatedSame
<1> QED
  BY <1>1, <1>6, <1>7

\* A line with both quotes is never received.
LEMMA ReceivedBoth ==
  ASSUME NEW line \in Seq(Classes), Contains(line, Quote), Contains(line, DoubleQuote)
  PROVE  Received(line) = <<"unspecified">> /\ Received(line) # line
<1>1. Received(line) = <<"unspecified">>
  BY ReprBoth DEF Received
<1>2. "unspecified" \notin Classes
  BY DEF Classes, Quote, DoubleQuote, Backslash
<1> QED
  BY <1>1, <1>2

(***************************************************************************)
(* repr() delivers exactly the commands that are Plain.                    *)
(***************************************************************************)
LEMMA ReceivedPlain ==
  ASSUME NEW line \in Seq(Classes)
  PROVE  Received(line) = line <=> Plain(line)
<1>1. CASE ~Contains(line, Quote)
  <2>1. line \in Seq(Classes \ {Quote})
    BY <1>1, WithoutLetter
  <2> QED
    BY <1>1, <2>1, ReceivedSingle DEF Plain
<1>2. CASE Contains(line, Quote) /\ ~Contains(line, DoubleQuote)
  <2>1. line \in Seq(Classes \ {DoubleQuote})
    BY <1>2, WithoutLetter
  <2> QED
    BY <1>2, <2>1, ReceivedDouble DEF Plain
<1>3. CASE Contains(line, Quote) /\ Contains(line, DoubleQuote)
  BY <1>3, ReceivedBoth DEF Plain
<1> QED
  BY <1>1, <1>2, <1>3

-----------------------------------------------------------------------------
(* The invariant: what a call has led to so far. *)

Call ==
  /\ backend \in {"docker", "firecracker"} /\ tool \in Tools /\ arg \in Seq(Classes)
  /\ stage # "called" =>
       command = IF backend = "docker" THEN Received(CommandLine) ELSE CommandLine

Result ==
  /\ stage \in {"ran", "answered"} => outcome \in Outcomes
  /\ stage = "answered" => answer = AnswerOf(outcome)

\* The command line of a tool consists of the characters of an argument.
LEMMA CommandLineType ==
  ASSUME tool \in Tools, arg \in Seq(Classes)
  PROVE  /\ Before[tool] \in Seq({"a", " ", ";"}) /\ After[tool] \in Seq({"a", " ", ";"})
         /\ Before[tool] \in Seq(Classes) /\ After[tool] \in Seq(Classes)
         /\ CommandLine \in Seq(Classes)
<1> DEFINE C == {"a", " ", ";"}
<1>1. <<>> \in Seq(C) /\ Name \in Seq(C) /\ Sign \in Seq(C) /\ <<" ", "a">> \in Seq(C)
  <2>1. "a" \in C /\ " " \in C /\ ";" \in C
    OBVIOUS
  <2> HIDE DEF C
  <2> QED
    BY <2>1, TwoElements, EmptySeq DEF Name, Sign
<1>2. C \subseteq Classes
  BY DEF Classes
<1> HIDE DEF C
<1>3. /\ Before["read_file"] = Name /\ Before["grep_search"] = Name
      /\ Before["write_file"] = Name \o Name \o Sign \o Name \o Name \o Sign
      /\ Before["bash_execute"] = <<>>
  BY DEF Before
<1>4. Name \o Name \o Sign \o Name \o Name \o Sign \in Seq(C)
  BY <1>1, ConcatProperties
<1>5. After[tool] \in {<<>>, <<" ", "a">>}
  BY DEF After
<1>6. Before[tool] \in Seq(C)
  BY <1>1, <1>3, <1>4 DEF Tools
<1>7. After[tool] \in Seq(C)
  BY <1>1, <1>5
<1>8. Before[tool] \in Seq(Classes) /\ After[tool] \in Seq(Classes)
  BY <1>2, <1>6, <1>7, SeqOfLarger
<1>9. CommandLine \in Seq(Classes)
  BY <1>8, ConcatProperties DEF CommandLine
<1> QED
  BY <1>6, <1>7, <1>8, <1>9 DEF C

\* In every state the call is well-formed, and its answer follows from the command that ran.
LEMMA CallInvariant == Spec => [](Call /\ Result)
<1>1. Init => Call /\ Result
  <2> SUFFICES ASSUME Init PROVE Call /\ Result
    OBVIOUS
  <2>1. arg \in Seq(Classes)
    BY DEF Init, BoundedSeq, SeqOf
  <2> QED
    BY <2>1 DEF Init, Call, Result
<1>2. Call /\ Result /\ [Next]_vars => (Call /\ Result)'
  <2> SUFFICES ASSUME Call, Result, [Next]_vars PROVE (Call /\ Result)'
    OBVIOUS
  <2>1. CASE Deliver
    <3>1. CommandLine \in Seq(Classes) /\ CommandLine' = CommandLine
      BY <2>1, CommandLineType DEF Deliver, Call, CommandLine
    <3>2. Words(ShellEscape(CommandLine)) = <<CommandLine>>
      BY <3>1, ShellEscapeWords
    <3>3. command' = IF backend = "docker" THEN Received(CommandLine) ELSE CommandLine
      <4> DEFINE line == CommandLine
      <4>1. command' = LET words == Words(IF backend = "docker" THEN Repr(line) ELSE ShellEscape(line))
                       IN  IF words = <<>> THEN <<"unspecified">> ELSE Head(words)
        BY <2>1 DEF Deliver
      <4>2. Words(ShellEscape(line)) = <<line>>
        BY <3>2
      <4> HIDE DEF line
      <4>3. CASE backend = "docker"
        BY <4>1, <4>3 DEF Received, line
      <4>4. CASE backend # "docker"
        BY <4>1, <4>2, <4>4 DEF line
      <4> QED
        BY <4>3, <4>4
    <3>4. Call'
      BY <2>1, <3>1, <3>3 DEF Deliver, Call
    <3>5. Result'
      BY <2>1 DEF Deliver, Result
    <3> QED
      BY <3>4, <3>5
  <2>2. CASE Run
    <3>1. Call'
      BY <2>2 DEF Run, Call, CommandLine
    <3>2. Result'
      BY <2>2 DEF Run, Result
    <3> QED
      BY <3>1, <3>2
  <2>3. CASE Answer
    <3>1. Call'
      BY <2>3 DEF Answer, Call, CommandLine
    <3>2. Result'
      BY <2>3 DEF Answer, Result, AnswerOf
    <3> QED
      BY <3>1, <3>2
  <2>4. CASE UNCHANGED vars
    <3>1. Call'
      BY <2>4 DEF vars, Call, CommandLine
    <3>2. Result'
      BY <2>4 DEF vars, Result, AnswerOf
    <3> QED
      BY <3>1, <3>2
  <2> QED
    BY <2>1, <2>2, <2>3, <2>4 DEF Next
<1> QED
  BY <1>1, <1>2, PTL DEF Spec

(***************************************************************************)
(* For commands of every length: what is run is what the tool was called   *)
(* with, always in a microVM (shell_escape), and in a container (repr())   *)
(* exactly if the command is Plain.                                        *)
(***************************************************************************)
THEOREM CommandsArrive == Spec => []CommandArrives
<1>1. Call => CommandArrives
  <2> SUFFICES ASSUME Call, stage # "called"
               PROVE  command = CommandLine <=> backend = "firecracker" \/ Plain(CommandLine)
    BY DEF CommandArrives
  <2>1. CommandLine \in Seq(Classes)
    BY CommandLineType DEF Call
  <2>2. Received(CommandLine) = CommandLine <=> Plain(CommandLine)
    BY <2>1, ReceivedPlain
  <2>3. CASE backend = "docker"
    BY <2>2, <2>3 DEF Call
  <2>4. CASE backend = "firecracker"
    BY <2>4 DEF Call
  <2> QED
    BY <2>3, <2>4 DEF Call
<1> QED
  BY <1>1, CallInvariant, PTL

(***************************************************************************)
(* However a program ends, the answer of its tool tells of it: success and *)
(* matches only after return code 0, "no matches" only if nothing matched, *)
(* the matches were blank, or the search was killed.                       *)
(***************************************************************************)
THEOREM AnswersTruthful == Spec => []AnswerTruthful
<1>1. Call /\ Result => AnswerTruthful
  <2> SUFFICES ASSUME Call, Result, stage = "answered"
               PROVE  /\ answer \in {"success", "matches"} => outcome.code = "0"
                      /\ answer = "no matches" =>
                           \/ outcome.out = "none" /\ outcome.code \in {"0", "1"}
                           \/ outcome.out = "blank"
                           \/ outcome.code = "killed"
    BY DEF AnswerTruthful
  <2>1. outcome \in Outcomes /\ answer = AnswerOf(outcome)
    BY DEF Result
  <2>2. /\ outcome.code \in {"0", "1", "2", "killed"} /\ outcome.err \in BOOLEAN
        /\ outcome.out \in {"none", "blank", "text"}
        /\ outcome.err <=> outcome.code = "2"
        /\ outcome.code = "1" => outcome.out = "none"
    BY <2>1 DEF Outcomes
  <2>3. CASE tool = "grep_search"
    <3>1. answer = GrepAnswer(outcome)
      BY <2>1, <2>3 DEF AnswerOf
    <3> QED
      BY <2>2, <3>1 DEF GrepAnswer
  <2>4. CASE tool = "bash_execute"
    <3>1. answer = outcome.code
      BY <2>1, <2>4 DEF AnswerOf
    <3> QED
      BY <2>2, <3>1
  <2>5. CASE tool \notin {"grep_search", "bash_execute"}
    <3>1. answer = IF outcome.code # "0" THEN "error" ELSE "success"
      BY <2>1, <2>5 DEF AnswerOf
    <3> QED
      BY <3>1
  <2> QED
    BY <2>3, <2>4, <2>5
<1> QED
  BY <1>1, CallInvariant, PTL

-----------------------------------------------------------------------------
(* How a line is read after the words ws: the argument so far is the word  *)
(* w, or it can no longer become a word of its own.                        *)

Clean(st, ws, w) ==
  /\ st \in States(Letters)
  /\ st.mode = "plain" /\ ~st.escaped /\ st.word = w /\ st.words = ws
  /\ st.open <=> w # <<>>

\* What is still to come of an escaped character: the backslash it may keep.
Pending(st) == IF st.escaped /\ st.mode = "double" THEN 1 ELSE 0

\* A word that is no argument of k characters.
Wrong(w, k) == Len(w) < k \/ Foreign(w, Classes)

\* After k characters: the next word is wrong, or will be, whatever follows.
Lost(st, ws, k) ==
  /\ st \in States(Letters)
  /\ \/ Len(st.words) > Len(ws) /\ Wrong(st.words[Len(ws) + 1], k)
     \/ st.words = ws /\ st.open /\ Foreign(st.word, Classes)
     \/ st.words = ws /\ Len(st.word) + Pending(st) < k

\* The line may end here with w as its last word.
Hit(st, ws, w) == st.mode = "plain" /\ ~st.escaped /\ Close(st).words = Append(ws, w)

\* From st to n one character was read: the word grew, or it ended.
Grows(st, n) ==
  /\ n.words = st.words /\ (st.open => n.open) /\ Extends(n.word, st.word)
  /\ Len(n.word) + Pending(n) <= Len(st.word) + Pending(st) + 1
Ends(st, n) ==
  Extends(n.words, Append(st.words, IF st.open THEN st.word ELSE <<"operator">>))

\* A character read makes the current word longer or ends it: it never shrinks.
LEMMA GrowsOrEnds ==
  ASSUME NEW st \in States(Letters), NEW c \in Letters
  PROVE  Grows(st, Scan(st, c)) \/ Ends(st, Scan(st, c))
<1> USE DEF States
<1>0. /\ st.word \in Seq(Letters) /\ st.words \in Seq(Seq(Letters)) /\ Len(st.word) \in Nat
      /\ st.mode \in Modes /\ st.escaped \in BOOLEAN /\ st.open \in BOOLEAN
      /\ Backslash \in Letters /\ "expanded" \in Letters /\ <<"operator">> \in Seq(Letters)
  <2>1. Backslash \in Letters /\ "expanded" \in Letters /\ "operator" \in Letters
    BY DEF Letters, Classes
  <2>2. <<"operator">> \in Seq(Letters)
    BY <2>1
  <2>3. Len(st.word) \in Nat
    BY LenProperties
  <2> QED
    BY <2>1, <2>2, <2>3
<1>1. Extends(st.word, st.word)
  BY <1>0, AppendExtends
<1>2. ASSUME NEW x \in Letters PROVE Grows(st, Add(st, x))
  <2>1. Extends(Append(st.word, x), st.word) /\ Len(Append(st.word, x)) = Len(st.word) + 1
    BY <1>0, AppendExtends
  <2> QED
    BY <1>0, <2>1 DEF Grows, Add, Pending
<1>3. CASE st.escaped
  <2>1. CASE c = "nl"
    BY <1>0, <1>1, <1>3, <2>1 DEF Scan, AfterBackslash, Grows, Pending
  <2>2. CASE c # "nl" /\ st.mode = "double" /\ c \notin {"$", DoubleQuote, Backslash}
    <3> DEFINE u == Append(st.word, Backslash)
               v == Append(u, c)
    <3>1. u \in Seq(Letters) /\ Len(u) = Len(st.word) + 1
      BY <1>0, AppendProperties
    <3>2. Len(v) = Len(st.word) + 2
      <4> HIDE DEF u
      <4> QED
        BY <1>0, <3>1, AppendProperties
    <3>3. Extends(v, st.word)
      BY <1>0, AppendExtends
    <3> HIDE DEF u, v
    <3>4. Scan(st, c) = Add(Add(st, Backslash), c)
      BY <1>3, <2>2 DEF Scan, AfterBackslash
    <3>5. /\ Add(Add(st, Backslash), c).words = st.words /\ Add(Add(st, Backslash), c).word = v
          /\ Add(Add(st, Backslash), c).open /\ ~Add(Add(st, Backslash), c).escaped
      BY DEF Add, u, v
    <3>6. Pending(st) = 1 /\ Pending(Add(Add(st, Backslash), c)) = 0
      BY <1>3, <2>2, <3>5 DEF Pending
    <3> QED
      BY <1>0, <3>2, <3>3, <3>4, <3>5, <3>6 DEF Grows
  <2>3. CASE c # "nl" /\ ~(st.mode = "double" /\ c \notin {"$", DoubleQuote, Backslash})
    BY <1>2, <1>3, <2>3 DEF Scan, AfterBackslash
  <2> QED
    BY <2>1, <2>2, <2>3
<1>4. CASE ~st.escaped /\ st.mode = "single"
  <2>1. Scan(st, c) = IF c = Quote THEN [st EXCEPT !.mode = "plain"] ELSE Add(st, c)
    BY <1>4 DEF Scan, InSingle
  <2>2. Grows(st, [st EXCEPT !.mode = "plain"])
    BY <1>0, <1>1, <1>4 DEF Grows, Pending
  <2> QED
    BY <1>2, <2>1, <2>2
<1>5. ASSUME ~st.escaped
      PROVE  /\ Grows(st, [st EXCEPT !.escaped = TRUE])
             /\ \A m \in Modes : Grows(st, [st EXCEPT !.mode = m])
             /\ \A m \in Modes : Grows(st, [st EXCEPT !.mode = m, !.open = TRUE])
  BY <1>0, <1>1, <1>5 DEF Grows, Pending
<1>6. CASE ~st.escaped /\ st.mode = "double"
  <2>1. Scan(st, c) = InDouble(st, c)
    BY <1>6 DEF Scan
  <2> QED
    BY <1>0, <1>2, <1>5, <1>6, <2>1 DEF InDouble, Modes
<1>7. CASE ~st.escaped /\ st.mode = "plain"
  <2>1. Scan(st, c) = InPlain(st, c)
    BY <1>7 DEF Scan
  <2>2. Grows(st, Close(st)) \/ Ends(st, Close(st))
    <3>1. CASE st.open
      <4>1. Close(st).words = Append(st.words, st.word)
        BY <3>1 DEF Close
      <4>2. Append(st.words, st.word) \in Seq(Seq(Letters))
        BY <1>0, AppendProperties
      <4>3. Extends(Append(st.words, st.word), Append(st.words, st.word))
        BY <4>2 DEF Extends
      <4> QED
        BY <3>1, <4>1, <4>3 DEF Ends
    <3>2. CASE ~st.open
      BY <1>0, <1>1, <3>2 DEF Close, Grows, Pending
    <3> QED
      BY <3>1, <3>2
  <2>3. Ends(st, Operator(st))
    <3>1. Operator(st).words = Append(Close(st).words, <<"operator">>)
      BY <1>0 DEF Operator, Close
    <3>2. CASE st.open
      <4>1. Close(st).words = Append(st.words, st.word)
        BY <3>2 DEF Close
      <4>2. Extends(Append(Append(st.words, st.word), <<"operator">>), Append(st.words, st.word))
        BY <1>0, AppendExtends
      <4> QED
        BY <3>1, <3>2, <4>1, <4>2 DEF Ends
    <3>3. CASE ~st.open
      <4>1. Operator(st).words = Append(st.words, <<"operator">>)
        BY <3>1, <3>3 DEF Close
      <4>2. Append(st.words, <<"operator">>) \in Seq(Seq(Letters))
        BY <1>0, AppendProperties
      <4> QED
        BY <3>3, <4>1, <4>2 DEF Ends, Extends
    <3> QED
      BY <3>2, <3>3
  <2> QED
    BY <1>0, <1>2, <1>5, <1>7, <2>1, <2>2, <2>3 DEF InPlain, Modes
<1> QED
  BY <1>0, <1>3, <1>4, <1>6, <1>7 DEF Modes

(***************************************************************************)
(* An argument that is lost stays lost, one more of its characters read:   *)
(* a word that was too short or had a strange letter keeps that.           *)
(***************************************************************************)
LEMMA LostStays ==
  ASSUME NEW ws \in Seq(Seq(Letters)), NEW k \in Nat, NEW st, Lost(st, ws, k),
         NEW n \in States(Letters), Grows(st, n) \/ Ends(st, n)
  PROVE  Lost(n, ws, k + 1)
<1> DEFINE i == Len(ws) + 1
           last == IF st.open THEN st.word ELSE <<"operator">>
<1>1. /\ st.word \in Seq(Letters) /\ st.words \in Seq(Seq(Letters)) /\ st.open \in BOOLEAN
      /\ n.word \in Seq(Letters) /\ n.words \in Seq(Seq(Letters))
  BY DEF Lost, States
<1>2. Len(ws) \in Nat /\ i \in Nat \ {0}
  BY LenProperties
<1>3. last \in Seq(Letters)
  <2>1. "operator" \in Letters
    BY DEF Letters
  <2>2. <<"operator">> \in Seq(Letters)
    BY <2>1
  <2> QED
    BY <1>1, <2>2
<1>4. Pending(st) \in {0, 1} /\ Pending(n) \in {0, 1}
  BY DEF Pending
<1>5. Len(st.word) \in Nat /\ Len(n.word) \in Nat /\ Len(st.words) \in Nat /\ Len(n.words) \in Nat
  BY <1>1, LenProperties
<1>6. \A w \in Seq(Letters) : Wrong(w, k) => Wrong(w, k + 1)
  <2> SUFFICES ASSUME NEW w \in Seq(Letters), Len(w) < k PROVE Len(w) < k + 1
    BY DEF Wrong
  <2>1. Len(w) \in Nat
    BY LenProperties
  <2> QED
    BY <2>1
<1>7. CASE Len(st.words) > Len(ws) /\ Wrong(st.words[i], k)
  <2>1. Extends(n.words, st.words)
    <3>1. CASE Grows(st, n)
      BY <1>1, <3>1, AppendExtends DEF Grows, Extends
    <3>2. CASE Ends(st, n)
      <4>1. Extends(n.words, Append(st.words, last))
        BY <3>2 DEF Ends
      <4>2. Extends(Append(st.words, last), st.words)
        BY <1>1, <1>3, AppendExtends
      <4>3. Len(Append(st.words, last)) = Len(st.words) + 1
        BY <1>1, <1>3, AppendProperties
      <4> DEFINE mid == Append(st.words, last)
                 t == n.words
                 s == st.words
      <4>4. Extends(t, mid) /\ Extends(mid, s) /\ Len(mid) = Len(s) + 1
            /\ Len(s) \in Nat /\ Len(t) \in Nat
        BY <1>5, <4>1, <4>2, <4>3
      <4> HIDE DEF mid, t, s
      <4>5. Extends(t, s)
        BY <4>4 DEF Extends
      <4> QED
        BY <4>5 DEF t, s
    <3> QED
      BY <3>1, <3>2
  <2>2. i \in 1..Len(st.words)
    BY <1>2, <1>5, <1>7
  <2>3. n.words[i] = st.words[i] /\ Len(n.words) >= Len(st.words) /\ st.words[i] \in Seq(Letters)
    BY <1>1, <2>1, <2>2 DEF Extends
  <2>4. Wrong(n.words[i], k + 1) /\ Len(n.words) > Len(ws)
    BY <1>2, <1>5, <1>6, <1>7, <2>3
  <2> QED
    BY <2>4 DEF Lost
<1>8. CASE /\ st.words = ws
           /\ \/ st.open /\ Foreign(st.word, Classes)
              \/ Len(st.word) + Pending(st) < k
  <2>1. CASE Grows(st, n)
    <3>1. n.words = ws
      BY <1>8, <2>1 DEF Grows
    <3>2. CASE st.open /\ Foreign(st.word, Classes)
      <4>1. n.open /\ Extends(n.word, st.word)
        BY <2>1, <3>2 DEF Grows
      <4>2. Foreign(n.word, Classes)
        BY <1>5, <3>2, <4>1 DEF Foreign, Extends
      <4> QED
        BY <3>1, <4>1, <4>2 DEF Lost
    <3>3. CASE Len(st.word) + Pending(st) < k
      <4>1. Len(n.word) + Pending(n) < k + 1
        BY <1>4, <1>5, <2>1, <3>3 DEF Grows
      <4> QED
        BY <3>1, <4>1 DEF Lost
    <3> QED
      BY <1>8, <3>2, <3>3
  <2>2. CASE Ends(st, n)
    <3>1. Extends(n.words, Append(ws, last))
      BY <1>8, <2>2 DEF Ends
    <3>2. Append(ws, last)[i] = last /\ Len(Append(ws, last)) = i
      BY <1>3, AppendProperties
    <3>3. n.words[i] = last /\ Len(n.words) > Len(ws)
      <4> HIDE DEF last
      <4> QED
        BY <1>2, <1>5, <3>1, <3>2 DEF Extends
    <3>4. Wrong(last, k + 1)
      <4>1. CASE st.open
        BY <1>4, <1>5, <1>8, <4>1 DEF Wrong
      <4>2. CASE ~st.open
        <5>1. "operator" \notin Classes
          BY DEF Classes, Quote, DoubleQuote, Backslash
        <5>2. Foreign(<<"operator">>, Classes)
          BY <5>1 DEF Foreign
        <5> QED
          BY <4>2, <5>2 DEF Wrong
      <4> QED
        BY <4>1, <4>2
    <3> QED
      BY <3>3, <3>4 DEF Lost
  <2> QED
    BY <2>1, <2>2
<1> QED
  BY <1>7, <1>8 DEF Lost

\* A scan that lost the argument does not read it.
LEMMA LostMisses ==
  ASSUME NEW ws \in Seq(Seq(Letters)), NEW w \in Seq(Classes), NEW st, Lost(st, ws, Len(w))
  PROVE  ~Hit(st, ws, w)
<1> SUFFICES ASSUME Hit(st, ws, w) PROVE FALSE
  OBVIOUS
<1> DEFINE i == Len(ws) + 1
           t == Close(st).words
<1>1. /\ st.word \in Seq(Letters) /\ st.words \in Seq(Seq(Letters)) /\ st.open \in BOOLEAN
      /\ w \in Seq(Letters) /\ Len(ws) \in Nat /\ Len(w) \in Nat /\ ~Foreign(w, Classes)
  <2>1. Classes \subseteq Letters
    BY DEF Letters
  <2>2. w \in Seq(Letters)
    BY <2>1
  <2>3. ~Foreign(w, Classes)
    BY DEF Foreign
  <2> QED
    BY <2>2, <2>3, LenProperties DEF Lost, States
<1>2. t = Append(ws, w)
  BY DEF Hit
<1>3. Len(t) = i /\ t[i] = w
  <2> HIDE DEF t
  <2> QED
    BY <1>1, <1>2, AppendProperties
<1>4. ~Wrong(w, Len(w))
  BY <1>1 DEF Wrong
<1>5. t = IF st.open THEN Append(st.words, st.word) ELSE st.words
  BY DEF Close
<1> HIDE DEF t
<1>6. CASE Len(st.words) > Len(ws) /\ Wrong(st.words[i], Len(w))
  <2>1. i \in 1..Len(st.words)
    BY <1>1, <1>6
  <2>2. t[i] = st.words[i]
    BY <1>1, <1>5, <2>1, AppendProperties
  <2> QED
    BY <1>3, <1>4, <1>6, <2>2
<1>7. CASE st.words = ws /\ ~st.open
  BY <1>1, <1>3, <1>5, <1>7
<1>8. CASE st.words = ws /\ st.open
  <2>1. t[i] = st.word
    BY <1>1, <1>5, <1>8, AppendProperties
  <2>2. st.word = w
    BY <1>3, <2>1
  <2>3. Pending(st) \in {0, 1}
    BY DEF Pending
  <2>4. ~(Len(st.word) + Pending(st) < Len(w))
    BY <1>1, <2>2, <2>3
  <2>5. ~(Len(st.words) > Len(ws))
    BY <1>1, <1>8
  <2> QED
    BY <1>1, <2>2, <2>4, <2>5 DEF Lost
<1> QED
  BY <1>6, <1>7, <1>8 DEF Lost

\* A scan of exactly the argument reads it, unless it is empty: no word is begun.
LEMMA CleanHits ==
  ASSUME NEW ws \in Seq(Seq(Letters)), NEW w \in Seq(Letters), NEW st, Clean(st, ws, w)
  PROVE  Hit(st, ws, w) <=> w # <<>>
<1>1. ws # Append(ws, w)
  <2>1. Len(Append(ws, w)) = Len(ws) + 1 /\ Len(ws) \in Nat
    BY AppendProperties, LenProperties
  <2> QED
    BY <2>1
<1> QED
  BY <1>1 DEF Clean, Hit, Close, States

(***************************************************************************)
(* An "a" belongs to the argument; with any other character it is lost.    *)
(***************************************************************************)
LEMMA CleanStep ==
  ASSUME NEW ws \in Seq(Seq(Letters)), NEW w \in Seq(Letters), NEW st, Clean(st, ws, w)
  PROVE  /\ Clean(Scan(st, "a"), ws, Append(w, "a"))
         /\ \A c \in Classes \ {"a"} : Lost(Scan(st, c), ws, Len(w) + 1)
<1>1. st \in States(Letters) /\ st.open \in BOOLEAN /\ Len(w) \in Nat /\ Len(ws) \in Nat
  BY LenProperties DEF Clean, States
<1>2. Clean(Scan(st, "a"), ws, Append(w, "a"))
  <2>1. "a" \in Letters
    BY DEF Letters, Classes
  <2>2. Append(w, "a") \in Seq(Letters) /\ Append(w, "a") # <<>>
    BY <2>1, AppendProperties
  <2>3. Scan(st, "a") = Add(st, "a")
    BY DEF Clean, Scan, InPlain, Quote, DoubleQuote, Backslash
  <2>4. Clean(Add(st, "a"), ws, Append(w, "a"))
    BY <2>2 DEF Clean, Add, States
  <2> QED
    BY <2>3, <2>4
<1>3. ASSUME NEW c \in Classes \ {"a"} PROVE Lost(Scan(st, c), ws, Len(w) + 1)
  <2> DEFINE n == Scan(st, c)
  <2> SUFFICES Lost(n, ws, Len(w) + 1)
    OBVIOUS
  <2>1. n \in States(Letters)
    <3>1. Backslash \in Letters /\ "expanded" \in Letters /\ "operator" \in Letters /\ c \in Letters
      BY DEF Letters, Classes
    <3> QED
      BY <1>1, <3>1, ScanTypes
  <2>2. n = InPlain(st, c)
    BY DEF Clean, Scan
  <2> HIDE DEF n
  <2>3. CASE c \in {Backslash, Quote, DoubleQuote}
    <3>1. n.words = ws /\ n.word = w /\ Pending(n) = 0
      BY <1>1, <2>2, <2>3 DEF Clean, InPlain, Pending, States, Quote, DoubleQuote, Backslash
    <3> QED
      BY <1>1, <2>1, <3>1 DEF Lost
  <2>4. CASE c = "$"
    <3>1. n = Add(st, "expanded")
      BY <2>2, <2>4 DEF InPlain, Quote, DoubleQuote, Backslash
    <3>2. n.words = ws /\ n.open /\ n.word = Append(w, "expanded")
      BY <3>1 DEF Clean, Add, States
    <3>3. "expanded" \notin Classes /\ "expanded" \in Letters
      BY DEF Letters, Classes, Quote, DoubleQuote, Backslash
    <3>4. Foreign(Append(w, "expanded"), Classes)
      <4>1. /\ Len(Append(w, "expanded")) = Len(w) + 1
            /\ Append(w, "expanded")[Len(w) + 1] = "expanded"
        BY <3>3, AppendProperties
      <4> QED
        BY <1>1, <3>3, <4>1 DEF Foreign
    <3> QED
      BY <2>1, <3>2, <3>4 DEF Lost
  <2>5. CASE c \in {" ", "nl", ";"} /\ st.open
    <3>1. Close(st).words = Append(ws, w)
      BY <2>5 DEF Clean, Close, States
    <3>2. /\ Append(ws, w) \in Seq(Seq(Letters)) /\ Len(Append(ws, w)) = Len(ws) + 1
          /\ Append(ws, w)[Len(ws) + 1] = w
      BY AppendProperties
    <3>3. n.words = Append(ws, w) \/ n.words = Append(Append(ws, w), <<"operator">>)
      <4>1. n = Close(st) \/ n = Operator(st)
        BY <2>2, <2>5 DEF InPlain, Quote, DoubleQuote, Backslash
      <4>2. Operator(st).words = Append(Close(st).words, <<"operator">>)
        BY <1>1 DEF Operator, Close, States
      <4> QED
        BY <3>1, <4>1, <4>2
    <3>4. <<"operator">> \in Seq(Letters)
      <4>1. "operator" \in Letters
        BY DEF Letters
      <4> QED
        BY <4>1
    <3>5. Extends(n.words, Append(ws, w))
      <4> DEFINE u == Append(ws, w)
      <4>1. u \in Seq(Seq(Letters)) /\ (n.words = u \/ n.words = Append(u, <<"operator">>))
        BY <3>2, <3>3
      <4> HIDE DEF u
      <4>2. Extends(n.words, u)
        BY <3>4, <4>1, AppendExtends
      <4> QED
        BY <4>2 DEF u
    <3>6. n.words[Len(ws) + 1] = w /\ Len(n.words) > Len(ws)
      <4>1. n.words \in Seq(Seq(Letters))
        BY <2>1 DEF States
      <4>2. Len(n.words) \in Nat
        BY <4>1, LenProperties
      <4> QED
        BY <1>1, <3>2, <3>5, <4>2 DEF Extends
    <3> QED
      BY <1>1, <2>1, <3>6 DEF Lost, Wrong
  <2>6. CASE c = " " /\ ~st.open
    <3>1. n = st
      BY <2>2, <2>6 DEF InPlain, Close, Quote, DoubleQuote, Backslash
    <3>2. n.words = ws /\ n.word = w /\ Pending(n) = 0
      BY <3>1 DEF Clean, Pending
    <3> QED
      BY <1>1, <2>1, <3>2 DEF Lost
  <2>7. CASE c \in {"nl", ";"} /\ ~st.open
    <3>1. n = Operator(st)
      BY <2>2, <2>7 DEF InPlain, Quote, DoubleQuote, Backslash
    <3>2. n.words = Append(ws, <<"operator">>)
      BY <1>1, <2>7, <3>1 DEF Clean, Operator, Close, States
    <3>3. "operator" \in Letters /\ "operator" \notin Classes
      BY DEF Letters, Classes, Quote, DoubleQuote, Backslash
    <3>4. <<"operator">> \in Seq(Letters) /\ Foreign(<<"operator">>, Classes)
      BY <3>3 DEF Foreign
    <3>5. n.words[Len(ws) + 1] = <<"operator">> /\ Len(n.words) = Len(ws) + 1
      BY <3>2, <3>4, AppendProperties
    <3> QED
      BY <1>1, <2>1, <3>4, <3>5 DEF Lost, Wrong
  <2> QED
    BY <1>1, <2>3, <2>4, <2>5, <2>6, <2>7 DEF n, Classes
<1> QED
  BY <1>2, <1>3

(***************************************************************************)
(* The pieces of f, one for each character of D: those for A belong to the *)
(* argument, with those for the others it is lost, and lost it stays.  X   *)
(* are the states that the scan can be in then.                            *)
(***************************************************************************)
Follows(f, D, A, X, ws) ==
  \A p \in Seq(Letters), c \in D :
    /\ \A w \in Seq(A) : Clean(Scanned(p), ws, w) =>
         IF c \in A THEN Clean(Scanned(p \o f[c]), ws, Append(w, c))
         ELSE Lost(Scanned(p \o f[c]), ws, Len(w) + 1) /\ Scanned(p \o f[c]) \in X
    /\ \A k \in Nat : Lost(Scanned(p), ws, k) /\ Scanned(p) \in X =>
         Lost(Scanned(p \o f[c]), ws, k + 1) /\ Scanned(p \o f[c]) \in X

(***************************************************************************)
(* A line is read with the argument as the word after ws exactly if all of *)
(* the argument is in A, and it is not empty.                              *)
(***************************************************************************)
LEMMA ArgumentScan ==
  ASSUME NEW ws \in Seq(Seq(Letters)), NEW b \in Seq(Letters), Clean(Scanned(b), ws, <<>>),
         NEW D \in SUBSET Classes, NEW A \in SUBSET D, NEW X,
         NEW f, Translates(f, D, Letters), Follows(f, D, A, X, ws)
  PROVE  \A t \in Seq(D) :
           Hit(Scanned(b \o Translated(t, f)), ws, t) <=> t \in Seq(A) /\ t # <<>>
<1> DEFINE At(t) == Scanned(b \o Translated(t, f))
           T == {t \in Seq(D) : IF t \in Seq(A) THEN Clean(At(t), ws, t)
                                ELSE Lost(At(t), ws, Len(t)) /\ At(t) \in X}
<1>1. <<>> \in T
  <2>1. <<>> \in Seq(A) /\ <<>> \in Seq(D) /\ At(<<>>) = Scanned(b)
    BY EmptySeq, ConcatEmptySeq, TranslatedNothing
  <2> HIDE DEF At
  <2> QED
    BY <2>1
<1>2. ASSUME NEW t \in Seq(D), NEW c \in D, t \in T PROVE Append(t, c) \in T
  <2> DEFINE p == b \o Translated(t, f)
  <2>1. p \in Seq(Letters) /\ Translated(t, f) \in Seq(Letters) /\ f[c] \in Seq(Letters)
    BY TranslatedType, ConcatProperties DEF Translates
  <2>2. At(Append(t, c)) = Scanned(p \o f[c])
    <3> DEFINE s == Translated(t, f)
               x == f[c]
    <3>1. Translated(Append(t, c), f) = s \o x
      BY TranslatedAppend
    <3>2. b \in Seq(Letters) /\ s \in Seq(Letters) /\ x \in Seq(Letters)
      BY <2>1
    <3> HIDE DEF s, x
    <3>3. (b \o s) \o x = b \o (s \o x)
      BY <3>2, ConcatAssociative, SMTT(30)
    <3> QED
      BY <3>1, <3>3 DEF s, x
  <2>3. Append(t, c) \in Seq(D) /\ Len(Append(t, c)) = Len(t) + 1 /\ Len(t) \in Nat
    BY AppendProperties, LenProperties
  <2>4. Append(t, c) \in Seq(A) <=> t \in Seq(A) /\ c \in A
    <3>1. t \in Seq(A) /\ c \in A => Append(t, c) \in Seq(A)
      BY AppendProperties
    <3>2. ASSUME Append(t, c) \in Seq(A) PROVE t \in Seq(A) /\ c \in A
      <4> DEFINE u == Append(t, c)
      <4>1. /\ Len(u) = Len(t) + 1 /\ u[Len(t) + 1] = c
            /\ \A i \in 1..Len(t) : u[i] = t[i]
        BY AppendProperties
      <4>2. \A i \in 1..Len(u) : u[i] \in A
        BY <3>2
      <4> HIDE DEF u
      <4>3. c \in A /\ \A i \in 1..Len(t) : t[i] \in A
        BY <2>3, <4>1, <4>2
      <4> QED
        BY <4>3
    <3> QED
      BY <3>1, <3>2
  <2>5. IF t \in Seq(A) THEN Clean(Scanned(p), ws, t)
        ELSE Lost(Scanned(p), ws, Len(t)) /\ Scanned(p) \in X
    BY <1>2
  <2> HIDE DEF p, At
  <2>6. CASE t \in Seq(A)
    BY <2>1, <2>2, <2>3, <2>4, <2>5, <2>6 DEF Follows
  <2>7. CASE t \notin Seq(A)
    BY <2>1, <2>2, <2>3, <2>4, <2>5, <2>7 DEF Follows
  <2> QED
    BY <2>6, <2>7
<1>3. Seq(D) \subseteq T
  <2> HIDE DEF T
  <2> QED
    BY <1>1, <1>2, AppendInduction
<1> SUFFICES ASSUME NEW t \in Seq(D) PROVE Hit(At(t), ws, t) <=> t \in Seq(A) /\ t # <<>>
  OBVIOUS
<1>4. IF t \in Seq(A) THEN Clean(At(t), ws, t) ELSE Lost(At(t), ws, Len(t))
  BY <1>3
<1>5. t \in Seq(Classes) /\ t \in Seq(Letters)
  <2>1. D \subseteq Classes /\ D \subseteq Letters
    BY DEF Letters
  <2> QED
    BY <2>1, SeqOfLarger
<1> HIDE DEF At
<1> QED
  BY <1>4, <1>5, CleanHits, LostMisses

\* The characters themselves.
Itself == [c \in Classes |-> <<c>>]

(***************************************************************************)
(* An argument that is not quoted arrives if it is of letters only.        *)
(***************************************************************************)
LEMMA BareArgument ==
  ASSUME NEW ws \in Seq(Seq(Letters)), NEW b \in Seq(Letters), Clean(Scanned(b), ws, <<>>),
         NEW t \in Seq(Classes)
  PROVE  Hit(Scanned(b \o t), ws, t) <=> t \in Seq({"a"}) /\ t # <<>>
<1> DEFINE A == {"a"}
<1>1. A \subseteq Classes /\ Classes \subseteq Letters
  BY DEF Letters, Classes
<1>2. Translates(Itself, Classes, Letters)
  <2>1. \A c \in Classes : <<c>> \in Seq(Letters)
    BY <1>1
  <2> QED
    BY <2>1 DEF Translates, Itself
<1>3. Follows(Itself, Classes, A, States(Letters), ws)
  <2> SUFFICES ASSUME NEW p \in Seq(Letters), NEW c \in Classes
        PROVE  /\ \A w \in Seq(A) : Clean(Scanned(p), ws, w) =>
                    IF c \in A THEN Clean(Scanned(p \o <<c>>), ws, Append(w, c))
                    ELSE /\ Lost(Scanned(p \o <<c>>), ws, Len(w) + 1)
                         /\ Scanned(p \o <<c>>) \in States(Letters)
               /\ \A k \in Nat : Lost(Scanned(p), ws, k) /\ Scanned(p) \in States(Letters) =>
                    /\ Lost(Scanned(p \o <<c>>), ws, k + 1)
                    /\ Scanned(p \o <<c>>) \in States(Letters)
    BY DEF Follows, Itself
  <2> DEFINE st == Scanned(p)
             n == Scanned(p \o <<c>>)
  <2>1. c \in Letters /\ n = Scan(st, c)
    BY <1>1, ScannedPieces
  <2> HIDE DEF st, n
  <2>2. ASSUME st \in States(Letters) PROVE n \in States(Letters)
    <3>1. Backslash \in Letters /\ "expanded" \in Letters /\ "operator" \in Letters
      BY DEF Letters, Classes
    <3> QED
      BY <2>1, <2>2, <3>1, ScanTypes
  <2>3. ASSUME NEW w \in Seq(A), Clean(st, ws, w)
        PROVE  IF c \in A THEN Clean(n, ws, Append(w, c))
               ELSE Lost(n, ws, Len(w) + 1) /\ n \in States(Letters)
    <3>1. w \in Seq(Letters)
      BY <1>1
    <3>2. st \in States(Letters)
      BY <2>3 DEF Clean
    <3> QED
      BY <2>1, <2>2, <2>3, <3>1, <3>2, CleanStep
  <2>4. ASSUME NEW k \in Nat, Lost(st, ws, k), st \in States(Letters)
        PROVE  Lost(n, ws, k + 1) /\ n \in States(Letters)
    <3>1. Grows(st, n) \/ Ends(st, n)
      BY <2>1, <2>4, GrowsOrEnds
    <3> QED
      BY <2>2, <2>4, <3>1, LostStays
  <2> QED
    BY <2>3, <2>4 DEF st, n
<1>4. Translated(t, Itself) = t
  <2>1. \A c \in Classes : Itself[c] = <<c>>
    BY DEF Itself
  <2> QED
    BY <2>1, TranslatedSame
<1>5. Hit(Scanned(b \o Translated(t, Itself)), ws, t) <=> t \in Seq(A) /\ t # <<>>
  <2> HIDE DEF A
  <2> QED
    BY <1>1, <1>2, <1>3, ArgumentScan
<1> QED
  BY <1>4, <1>5

(***************************************************************************)
(* An argument of one line without single quotes, as repr() leaves it in   *)
(* them, arrives if it is of letters and backslashes.                      *)
(***************************************************************************)
LEMMA EscapedArgument ==
  ASSUME NEW ws \in Seq(Seq(Letters)), NEW b \in Seq(Letters), Clean(Scanned(b), ws, <<>>),
         NEW t \in Seq(Classes \ {Quote, "nl"})
  PROVE  Hit(Scanned(b \o Translated(t, Escaped(Quote))), ws, t)
           <=> t \in Seq({"a", Backslash}) /\ t # <<>>
<1> DEFINE A == {"a", Backslash}
           D == Classes \ {Quote, "nl"}
           f == Escaped(Quote)
           X == {st \in States(Letters) : st.mode \in {"plain", "double"} /\ ~st.escaped}
<1>1. /\ A \subseteq D /\ D \subseteq Classes /\ D \subseteq Letters /\ A \subseteq Letters
      /\ Backslash \in Letters /\ "a" # Backslash /\ Quote \notin D
  BY DEF Letters, Classes, Quote, DoubleQuote, Backslash
<1>2. Translates(f, D, Letters)
  BY EscapedIs DEF Translates
<1>3. \A c \in D : f[c] = IF c = Backslash THEN <<Backslash, Backslash>> ELSE <<c>>
  BY EscapedIs
<1> HIDE DEF f
<1>4. Follows(f, D, A, X, ws)
  <2> SUFFICES ASSUME NEW p \in Seq(Letters), NEW c \in D
        PROVE  /\ \A w \in Seq(A) : Clean(Scanned(p), ws, w) =>
                    IF c \in A THEN Clean(Scanned(p \o f[c]), ws, Append(w, c))
                    ELSE /\ Lost(Scanned(p \o f[c]), ws, Len(w) + 1)
                         /\ Scanned(p \o f[c]) \in X
               /\ \A k \in Nat : Lost(Scanned(p), ws, k) /\ Scanned(p) \in X =>
                    /\ Lost(Scanned(p \o f[c]), ws, k + 1)
                    /\ Scanned(p \o f[c]) \in X
    BY DEF Follows
  <2> DEFINE st == Scanned(p)
             n == Scanned(p \o f[c])
  <2>1. n = IF c = Backslash THEN Scan(Scan(st, Backslash), Backslash) ELSE Scan(st, c)
    <3>1. c \in Letters /\ f[c] = IF c = Backslash THEN <<Backslash, Backslash>> ELSE <<c>>
      BY <1>1, <1>3
    <3>2. Scanned(p \o <<Backslash, Backslash>>) = Scan(Scan(st, Backslash), Backslash)
      BY <1>1, ScannedPieces
    <3>3. Scanned(p \o <<c>>) = Scan(st, c)
      BY <3>1, ScannedPieces
    <3> HIDE DEF st, D
    <3> QED
      BY <3>1, <3>2, <3>3
  <2> HIDE DEF st, n
  <2>2. ASSUME st \in X PROVE n \in X /\ (Grows(st, n) \/ Ends(st, n))
    <3>1. n.mode \in {"plain", "double"} /\ ~n.escaped
      BY <1>1, <2>1, <2>2, OutsideSingle
    <3>2. n \in States(Letters)
      <4>1. \A s \in States(Letters), x \in Letters : Scan(s, x) \in States(Letters)
        <5>1. "expanded" \in Letters /\ "operator" \in Letters
          BY DEF Letters
        <5> QED
          BY <1>1, <5>1, ScanTypes
      <4> QED
        BY <1>1, <2>1, <2>2, <4>1
    <3>3. CASE c = Backslash
      <4> DEFINE mid == Scan(st, Backslash)
      <4>1. /\ mid \in States(Letters) /\ mid.mode = st.mode /\ mid.escaped
            /\ mid.word = st.word /\ mid.words = st.words
        BY <2>2 DEF Scan, InPlain, InDouble, States, Quote, DoubleQuote, Backslash
      <4>2. n = Scan(mid, Backslash)
        BY <2>1, <3>3
      <4> HIDE DEF mid
      <4>3. n = Add(mid, Backslash)
        BY <4>1, <4>2 DEF Scan, AfterBackslash, Backslash, DoubleQuote
      <4>4. n.word = Append(st.word, Backslash) /\ n.words = st.words /\ n.open
        BY <4>1, <4>3 DEF Add, States
      <4>5. st.word \in Seq(Letters)
        BY <2>2 DEF States
      <4>6. Extends(n.word, st.word) /\ Len(n.word) = Len(st.word) + 1 /\ Len(st.word) \in Nat
        BY <1>1, <4>4, <4>5, AppendExtends, LenProperties
      <4>7. Pending(st) = 0 /\ Pending(n) = 0
        BY <2>2, <3>1 DEF Pending
      <4> QED
        BY <3>1, <3>2, <4>4, <4>6, <4>7 DEF Grows
    <3>4. CASE c # Backslash
      BY <1>1, <2>1, <2>2, <3>1, <3>2, <3>4, GrowsOrEnds
    <3> QED
      BY <3>1, <3>2, <3>3, <3>4
  <2>3. ASSUME NEW w \in Seq(A), Clean(st, ws, w)
        PROVE  IF c \in A THEN Clean(n, ws, Append(w, c))
               ELSE Lost(n, ws, Len(w) + 1) /\ n \in X
    <3>1. w \in Seq(Letters) /\ st \in X
      <4>1. st \in X
        BY <2>3 DEF Clean
      <4> HIDE DEF A
      <4>2. w \in Seq(Letters)
        BY <1>1, SeqOfLarger
      <4> QED
        BY <4>1, <4>2
    <3>2. CASE c = Backslash
      <4> DEFINE mid == Scan(st, Backslash)
      <4>1. /\ mid \in States(Letters) /\ mid.mode = "plain" /\ mid.escaped
            /\ mid.word = w /\ mid.words = ws
        BY <2>3 DEF Clean, Scan, InPlain, States, Quote, DoubleQuote, Backslash
      <4>2. n = Scan(mid, Backslash)
        BY <2>1, <3>2
      <4> HIDE DEF mid
      <4>3. n = Add(mid, Backslash)
        BY <4>1, <4>2 DEF Scan, AfterBackslash, Backslash, DoubleQuote
      <4>4. Append(w, Backslash) \in Seq(Letters) /\ Append(w, Backslash) # <<>>
        BY <1>1, <3>1, AppendProperties
      <4>5. Clean(n, ws, Append(w, Backslash))
        BY <4>1, <4>3, <4>4 DEF Clean, Add, States
      <4> QED
        BY <3>2, <4>5
    <3>3. CASE c = "a"
      BY <1>1, <2>1, <2>3, <3>1, <3>3, CleanStep
    <3>4. CASE c \notin A
      <4>1. Lost(n, ws, Len(w) + 1)
        BY <1>1, <2>1, <2>3, <3>1, <3>4, CleanStep
      <4> QED
        BY <2>2, <3>1, <3>4, <4>1
    <3> QED
      BY <3>2, <3>3, <3>4
  <2>4. ASSUME NEW k \in Nat, Lost(st, ws, k), st \in X
        PROVE  Lost(n, ws, k + 1) /\ n \in X
    BY <2>2, <2>4, LostStays
  <2> QED
    BY <2>3, <2>4 DEF st, n
<1>5. Hit(Scanned(b \o Translated(t, f)), ws, t) <=> t \in Seq(A) /\ t # <<>>
  <2> HIDE DEF A, X, D
  <2>1. t \in Seq(D)
    BY DEF D
  <2> QED
    BY <1>1, <1>2, <1>4, <2>1, ArgumentScan
<1> QED
  BY <1>5 DEF f

-----------------------------------------------------------------------------
(* What stands before and after the argument. *)

\* A word that has not begun is empty.
LEMMA ClosedWordEmpty ==
  \A text \in Seq(Letters) : Scanned(text).open \/ Scanned(text).word = <<>>
<1> DEFINE T == {text \in Seq(Letters) : /\ Scanned(text) \in States(Letters)
                                         /\ Scanned(text).open \/ Scanned(text).word = <<>>}
<1>0. Backslash \in Letters /\ "expanded" \in Letters /\ "operator" \in Letters
  BY DEF Letters, Classes
<1>1. <<>> \in T
  <2>1. Start \in States(Letters) /\ Start.word = <<>>
    BY StartType DEF Start
  <2> QED
    BY <2>1, ScannedNothing, EmptySeq
<1>2. ASSUME NEW text \in Seq(Letters), NEW c \in Letters, text \in T PROVE Append(text, c) \in T
  <2> DEFINE st == Scanned(text)
             n == Scanned(Append(text, c))
  <2>1. n = Scan(st, c)
    BY ScannedAppend
  <2>2. st \in States(Letters) /\ (st.open \/ st.word = <<>>)
    BY <1>2
  <2> HIDE DEF st, n
  <2>3. n \in States(Letters)
    BY <1>0, <2>1, <2>2, ScanTypes
  <2>4. \A s \in States(Letters), x \in Letters : Add(s, x).open
    BY DEF Add, States
  <2>5. n.open \/ n.word = <<>>
    <3>1. CASE st.escaped
      <4>1. n = AfterBackslash(st, c)
        BY <2>1, <3>1 DEF Scan
      <4>2. AfterBackslash(st, c).open \/ AfterBackslash(st, c).word = <<>>
        BY <2>2 DEF AfterBackslash, Add, States
      <4> QED
        BY <4>1, <4>2
    <3>2. CASE ~st.escaped /\ st.mode = "single"
      BY <2>1, <2>2, <2>4, <3>2 DEF Scan, InSingle, States
    <3>3. CASE ~st.escaped /\ st.mode = "double"
      <4>1. n = InDouble(st, c)
        BY <2>1, <3>3 DEF Scan
      <4> QED
        BY <1>0, <2>2, <2>4, <4>1 DEF InDouble, States, Quote, DoubleQuote, Backslash
    <3>4. CASE ~st.escaped /\ st.mode = "plain"
      <4>1. n = InPlain(st, c)
        BY <2>1, <3>4 DEF Scan
      <4>2. (Close(st).open \/ Close(st).word = <<>>) /\ (Operator(st).open \/ Operator(st).word = <<>>)
        BY <2>2 DEF Operator, Close, States
      <4> QED
        BY <1>0, <2>2, <2>4, <4>1, <4>2 DEF InPlain, States, Quote, DoubleQuote, Backslash
    <3> QED
      BY <2>2, <3>1, <3>2, <3>3, <3>4 DEF States, Modes
  <2> QED
    BY <2>3, <2>5, AppendProperties DEF n
<1>3. Seq(Letters) \subseteq T
  <2> HIDE DEF T
  <2> QED
    BY <1>1, <1>2, AppendInduction
<1> QED
  BY <1>3

\* The words of a line that ends in the state st.
Ended(st) ==
  IF st.mode # "plain" THEN <<>>
  ELSE Close(IF st.escaped THEN Add(st, "unspecified") ELSE st).words

\* The words of a line are those of its last state.
LEMMA WordsEnded == ASSUME NEW text PROVE Words(text) = Ended(Scanned(text))
  BY DEF Words, Ended

\* At the end of the line the argument is read exactly if the scan has it.
LEMMA AtEnd ==
  ASSUME NEW ws \in Seq(Seq(Letters)), NEW w \in Seq(Classes), NEW st \in States(Letters)
  PROVE  Ended(st) = Append(ws, w) <=> Hit(st, ws, w)
<1>1. /\ st.word \in Seq(Letters) /\ st.words \in Seq(Seq(Letters))
      /\ w \in Seq(Letters) /\ ~Foreign(w, Classes)
      /\ "unspecified" \in Letters /\ "unspecified" \notin Classes
  <2>1. Classes \subseteq Letters /\ "unspecified" \in Letters /\ "unspecified" \notin Classes
    BY DEF Letters, Classes, Quote, DoubleQuote, Backslash
  <2>2. w \in Seq(Letters) /\ ~Foreign(w, Classes)
    BY <2>1 DEF Foreign
  <2> QED
    BY <2>1, <2>2 DEF States
<1>2. Append(ws, w) # <<>>
  BY <1>1, AppendNotEmpty
<1>3. CASE st.mode # "plain"
  BY <1>2, <1>3 DEF Ended, Hit
<1>4. CASE st.mode = "plain" /\ ~st.escaped
  BY <1>4 DEF Ended, Hit
<1>5. CASE st.mode = "plain" /\ st.escaped
  <2> DEFINE v == Append(st.word, "unspecified")
  <2>1. Ended(st) = Append(st.words, v)
    BY <1>5 DEF Ended, Close, Add, States
  <2>2. v \in Seq(Letters) /\ Foreign(v, Classes)
    <3>1. v \in Seq(Letters) /\ Len(v) = Len(st.word) + 1 /\ v[Len(st.word) + 1] = "unspecified"
      BY <1>1, AppendProperties
    <3> HIDE DEF v
    <3> QED
      BY <1>1, <3>1, LenProperties DEF Foreign
  <2> HIDE DEF v
  <2>3. Append(st.words, v) = Append(ws, w) => v = w
    BY <1>1, <2>2, AppendInjective
  <2> QED
    BY <1>1, <1>5, <2>1, <2>2, <2>3 DEF Hit
<1> QED
  BY <1>3, <1>4, <1>5

\* The same before the word of the pattern that follows the argument.
LEMMA AtPattern ==
  ASSUME NEW ws \in Seq(Seq(Letters)), NEW w \in Seq(Classes), NEW st \in States(Letters),
         st.open \/ st.word = <<>>
  PROVE  Ended(Scan(Scan(st, " "), "a")) = Append(Append(ws, w), <<"a">>) <=> Hit(st, ws, w)
<1> DEFINE u == Scan(st, " ")
           v == Scan(u, "a")
           all == Append(ws, w)
<1>1. /\ st.word \in Seq(Letters) /\ st.words \in Seq(Seq(Letters)) /\ st.mode \in Modes
      /\ "a" \in Letters /\ " " \in Letters /\ <<"a">> \in Seq(Letters) /\ <<>> \in Seq(Letters)
  <2>1. "a" \in Letters /\ " " \in Letters
    BY DEF Letters, Classes
  <2>2. <<"a">> \in Seq(Letters) /\ <<>> \in Seq(Letters)
    BY <2>1, OneElement, EmptySeq
  <2>3. st.word \in Seq(Letters) /\ st.words \in Seq(Seq(Letters)) /\ st.mode \in Modes
    BY DEF States
  <2> QED
    BY <2>1, <2>2, <2>3
<1>2. all \in Seq(Seq(Letters)) /\ Append(all, <<"a">>) # <<>>
  <2>1. Classes \subseteq Letters
    BY DEF Letters
  <2>2. w \in Seq(Letters)
    BY <2>1, SeqOfLarger
  <2>3. all \in Seq(Seq(Letters))
    BY <2>2, AppendProperties
  <2> HIDE DEF all
  <2> QED
    BY <1>1, <2>3, AppendProperties
<1> HIDE DEF all
<1>3. u \in States(Letters) /\ v \in States(Letters)
  <2>1. \A s \in States(Letters), x \in Letters : Scan(s, x) \in States(Letters)
    <3>1. Backslash \in Letters /\ "expanded" \in Letters /\ "operator" \in Letters
      BY DEF Letters, Classes
    <3> QED
      BY <3>1, ScanTypes
  <2> QED
    BY <1>1, <2>1
<1>4. CASE st.mode = "plain" /\ ~st.escaped
  <2>1. u = Close(st)
    BY <1>4 DEF Scan, InPlain, Quote, DoubleQuote, Backslash
  <2>2. u.mode = "plain" /\ ~u.escaped /\ u.word = <<>>
    BY <1>4, <2>1 DEF Close, States
  <2> HIDE DEF u
  <2>3. v = Add(u, "a")
    BY <2>2 DEF Scan, InPlain, Quote, DoubleQuote, Backslash
  <2>4. Ended(v) = Append(u.words, <<"a">>)
    <3>1. v.mode = "plain" /\ ~v.escaped /\ v.open /\ v.word = Append(<<>>, "a") /\ v.words = u.words
      BY <1>3, <2>2, <2>3 DEF Add, States
    <3>2. Append(<<>>, "a") = <<"a">>
      OBVIOUS
    <3> HIDE DEF v
    <3> QED
      BY <3>1, <3>2, <1>3 DEF Ended, Close, States
  <2>5. u.words \in Seq(Seq(Letters))
    BY <1>3 DEF States
  <2>6. Append(u.words, <<"a">>) = Append(all, <<"a">>) => u.words = all
    <3> DEFINE r == u.words
               pattern == <<"a">>
    <3>1. r \in Seq(Seq(Letters)) /\ pattern \in Seq(Letters)
      BY <1>1, <2>5
    <3> HIDE DEF r, pattern
    <3>2. ASSUME Append(r, pattern) = Append(all, pattern) PROVE r = all
      <4>1. all \in Seq(Seq(Letters))
        BY <1>2
      <4> QED
        BY <3>1, <3>2, <4>1, AppendInjective
    <3> QED
      BY <3>2 DEF r, pattern
  <2>7. Hit(st, ws, w) <=> u.words = all
    BY <1>4, <2>1 DEF Hit, all
  <2>8. Ended(v) = Append(all, <<"a">>) <=> Hit(st, ws, w)
    BY <2>4, <2>6, <2>7
  <2> QED
    BY <2>8 DEF all, u, v
<1>5. CASE st.mode = "plain" /\ st.escaped
  <2>1. u = Add(st, " ")
    BY <1>5 DEF Scan, AfterBackslash
  <2>2. u.mode = "plain" /\ ~u.escaped /\ u.word = Append(st.word, " ") /\ u.words = st.words
    BY <1>5, <2>1 DEF Add, States
  <2> HIDE DEF u
  <2>3. v = Add(u, "a")
    BY <2>2 DEF Scan, InPlain, Quote, DoubleQuote, Backslash
  <2> DEFINE x == Append(Append(st.word, " "), "a")
  <2>4. Ended(v) = Append(st.words, x)
    <3>1. v.mode = "plain" /\ ~v.escaped /\ v.open /\ v.word = x /\ v.words = st.words
      BY <1>3, <2>2, <2>3 DEF Add, States
    <3> HIDE DEF v, x
    <3> QED
      BY <3>1, <1>3 DEF Ended, Close, States
  <2>5. x \in Seq(Letters) /\ x # <<"a">>
    <3>1. Append(st.word, " ") \in Seq(Letters) /\ Append(st.word, " ") # <<>>
      BY <1>1, AppendProperties
    <3>2. <<"a">> = Append(<<>>, "a")
      OBVIOUS
    <3>3. x = Append(<<>>, "a") => Append(st.word, " ") = <<>>
      <4> DEFINE y == Append(st.word, " ")
                 none == <<>>
                 letter == "a"
      <4>1. y \in Seq(Letters) /\ none \in Seq(Letters) /\ letter \in Letters
        BY <1>1, <3>1
      <4> HIDE DEF y, none, letter
      <4>2. ASSUME Append(y, letter) = Append(none, letter) PROVE y = none
        BY <4>1, <4>2, AppendInjective
      <4> QED
        BY <4>2 DEF y, none, letter
    <3> QED
      BY <1>1, <3>1, <3>2, <3>3, AppendProperties
  <2> HIDE DEF x
  <2>6. Append(st.words, x) = Append(all, <<"a">>) => x = <<"a">>
    <3> DEFINE pattern == <<"a">>
    <3>1. pattern \in Seq(Letters)
      BY <1>1
    <3> HIDE DEF pattern
    <3>2. ASSUME Append(st.words, x) = Append(all, pattern) PROVE x = pattern
      <4>1. all \in Seq(Seq(Letters)) /\ st.words \in Seq(Seq(Letters)) /\ x \in Seq(Letters)
        BY <1>1, <1>2, <2>5
      <4> QED
        BY <3>1, <3>2, <4>1, AppendInjective
    <3> QED
      BY <3>2 DEF pattern
  <2>7. Ended(v) # Append(all, <<"a">>) /\ ~Hit(st, ws, w)
    BY <1>5, <2>4, <2>5, <2>6 DEF Hit
  <2> QED
    BY <2>7 DEF all, u, v
<1>6. CASE st.mode # "plain"
  <2>1. ASSUME NEW s \in States(Letters), NEW c \in {" ", "a"}, s.mode # "plain"
        PROVE  Scan(s, c).mode # "plain"
    BY <2>1 DEF Scan, AfterBackslash, InSingle, InDouble, Add, States, Modes,
                Quote, DoubleQuote, Backslash
  <2>2. v.mode # "plain"
    BY <1>3, <1>6, <2>1
  <2> HIDE DEF v
  <2>3. Ended(v) = <<>>
    BY <2>2 DEF Ended
  <2> QED
    BY <1>2, <1>6, <2>3 DEF Hit, all, v
<1> QED
  BY <1>1, <1>4, <1>5, <1>6

(***************************************************************************)
(* The line hits the argument exactly if what stands after it reads on.    *)
(***************************************************************************)
LEMMA AfterArgument ==
  ASSUME NEW ws \in Seq(Seq(Letters)), NEW w \in Seq(Classes), NEW p \in Seq(Letters),
         NEW t \in {<<>>, <<" ", "a">>}
  PROVE  Words(p \o t) = ws \o <<w>> \o Words(t) <=> Hit(Scanned(p), ws, w)
<1> DEFINE st == Scanned(p)
<1>0. /\ "a" \in Letters /\ " " \in Letters /\ Letters \in SUBSET Letters /\ Classes \subseteq Letters
      /\ Backslash \in Letters /\ "expanded" \in Letters /\ "operator" \in Letters
  BY DEF Letters, Classes
<1>1. st \in States(Letters) /\ (st.open \/ st.word = <<>>)
  BY <1>0, ScannedTypes, ClosedWordEmpty
<1>2. w \in Seq(Letters) /\ <<w>> \in Seq(Seq(Letters))
  BY <1>0, SeqOfLarger, OneElement
<1>3. ws \o <<w>> = Append(ws, w) /\ Append(ws, w) \in Seq(Seq(Letters))
  BY <1>2, AppendIsConcat, AppendProperties
<1>4. CASE t = <<>>
  <2>1. p \o t = p
    BY <1>4, ConcatEmptySeq
  <2>2. Words(t) = <<>>
    <3>1. Words(t) = Ended(Start)
      BY <1>4, ScannedNothing, WordsEnded
    <3>2. Ended(Start) = <<>>
      BY DEF Ended, Start, Close
    <3> QED
      BY <3>1, <3>2
  <2>3. ws \o <<w>> \o Words(t) = Append(ws, w)
    BY <1>3, <2>2, ConcatEmptySeq
  <2>4. Words(p) = Ended(st)
    BY WordsEnded
  <2> HIDE DEF st
  <2>5. Ended(st) = Append(ws, w) <=> Hit(st, ws, w)
    BY <1>1, AtEnd
  <2> QED
    BY <2>1, <2>3, <2>4, <2>5 DEF st
<1>5. CASE t = <<" ", "a">>
  <2>1. Scanned(p \o t) = Scan(Scan(st, " "), "a")
    BY <1>0, <1>5, ScannedPieces
  <2>2. Words(t) = <<<<"a">>>>
    <3> DEFINE n == Scan(Scan(Start, " "), "a")
    <3>1. Scanned(t) = n
      <4>1. <<>> \o <<" ", "a">> = <<" ", "a">> /\ <<>> \in Seq(Letters)
        BY ShortSequences, EmptySeq
      <4>2. Scanned(<<>> \o <<" ", "a">>) = Scan(Scan(Scanned(<<>>), " "), "a")
        BY <1>0, <4>1, ScannedPieces
      <4> QED
        BY <1>5, <4>1, <4>2, ScannedNothing
    <3>2. Scan(Start, " ") = Start
      BY DEF Scan, InPlain, Close, Start, Quote, DoubleQuote, Backslash
    <3>3. n = Add(Start, "a")
      BY <3>2 DEF Scan, InPlain, Start, Quote, DoubleQuote, Backslash
    <3>4. /\ n.mode = "plain" /\ ~n.escaped /\ n.open /\ n.word = Append(<<>>, "a")
          /\ n.words = <<>>
      BY <3>3 DEF Add, Start
    <3>5. n \in States(Letters)
      BY <1>0, <3>2, StartType, ScanTypes
    <3> HIDE DEF n
    <3>6. Ended(n) = Append(<<>>, Append(<<>>, "a"))
      BY <3>4, <3>5 DEF Ended, Close, States
    <3>7. Append(<<>>, Append(<<>>, "a")) = <<<<"a">>>>
      BY ShortSequences
    <3> QED
      BY <3>1, <3>6, <3>7, WordsEnded
  <2>3. ws \o <<w>> \o Words(t) = Append(Append(ws, w), <<"a">>)
    <3> DEFINE all == Append(ws, w)
               pattern == <<"a">>
    <3>1. all \in Seq(Seq(Letters)) /\ pattern \in Seq(Letters)
      BY <1>0, <1>3, OneElement
    <3>2. ws \o <<w>> \o Words(t) = all \o <<pattern>>
      BY <1>3, <2>2
    <3> HIDE DEF all, pattern
    <3>3. all \o <<pattern>> = Append(all, pattern)
      BY <3>1, AppendIsConcat
    <3> QED
      BY <3>2, <3>3 DEF all, pattern
  <2>4. Words(p \o t) = Ended(Scan(Scan(st, " "), "a"))
    BY <2>1, WordsEnded
  <2> HIDE DEF st
  <2>5. Ended(Scan(Scan(st, " "), "a")) = Append(Append(ws, w), <<"a">>) <=> Hit(st, ws, w)
    BY <1>1, AtPattern
  <2> QED
    BY <2>3, <2>4, <2>5 DEF st
<1> QED
  BY <1>4, <1>5

\* One more word of letters before the argument.
LEMMA ReadOn ==
  ASSUME NEW ws \in Seq(Seq(Letters)), NEW p \in Seq(Letters), Clean(Scanned(p), ws, <<>>)
  PROVE  /\ p \o Name \in Seq(Letters)
         /\ Clean(Scanned(p \o Name), Append(ws, <<"a">>), <<>>)
         /\ Append(ws, <<"a">>) \in Seq(Seq(Letters))
         /\ p \o Sign \in Seq(Letters)
         /\ Clean(Scanned(p \o Sign), Append(ws, <<"operator">>), <<>>)
         /\ Append(ws, <<"operator">>) \in Seq(Seq(Letters))
<1> DEFINE st == Scanned(p)
<1>0. /\ "a" \in Letters /\ " " \in Letters /\ ";" \in Letters
      /\ Backslash \in Letters /\ "expanded" \in Letters /\ "operator" \in Letters
  BY DEF Letters, Classes
<1>1. <<"a">> \in Seq(Letters) /\ <<"operator">> \in Seq(Letters) /\ <<>> \in Seq(Letters)
  BY <1>0, OneElement, EmptySeq
<1>2. Append(ws, <<"a">>) \in Seq(Seq(Letters)) /\ Append(ws, <<"operator">>) \in Seq(Seq(Letters))
  BY <1>1, AppendProperties
<1>3. Name \in Seq(Letters) /\ Sign \in Seq(Letters)
  BY <1>0, TwoElements DEF Name, Sign
<1>4. p \o Name \in Seq(Letters) /\ p \o Sign \in Seq(Letters)
  BY <1>3, ConcatProperties
<1>5. /\ Scanned(p \o Name) = Scan(Scan(st, "a"), " ")
      /\ Scanned(p \o Sign) = Scan(Scan(st, ";"), " ")
  BY <1>0, ScannedPieces DEF Name, Sign
<1> HIDE DEF st
<1>6. \A s \in States(Letters), x \in Letters : Scan(s, x) \in States(Letters)
  BY <1>0, ScanTypes
<1>7. /\ st \in States(Letters) /\ st.mode = "plain" /\ ~st.escaped /\ st.word = <<>>
      /\ st.words = ws /\ ~st.open
  BY DEF Clean, st
<1>8. Clean(Scan(Scan(st, "a"), " "), Append(ws, <<"a">>), <<>>)
  <2> DEFINE u == Scan(st, "a")
             v == Scan(u, " ")
  <2>1. u \in States(Letters) /\ v \in States(Letters)
    BY <1>0, <1>6, <1>7
  <2>2. u = Add(st, "a")
    BY <1>7 DEF Scan, InPlain, Quote, DoubleQuote, Backslash
  <2>3. u.mode = "plain" /\ ~u.escaped /\ u.open /\ u.word = Append(<<>>, "a") /\ u.words = ws
    BY <1>7, <2>2 DEF Add, States
  <2>4. Append(<<>>, "a") = <<"a">>
    BY ShortSequences
  <2> HIDE DEF u
  <2>5. v = Close(u)
    BY <2>3 DEF Scan, InPlain, Quote, DoubleQuote, Backslash
  <2>6. /\ v.mode = "plain" /\ ~v.escaped /\ ~v.open /\ v.word = <<>>
        /\ v.words = Append(ws, <<"a">>)
    BY <2>1, <2>3, <2>4, <2>5 DEF Close, States
  <2> HIDE DEF v
  <2>7. Clean(v, Append(ws, <<"a">>), <<>>)
    BY <2>1, <2>6 DEF Clean
  <2> QED
    BY <2>7 DEF u, v
<1>9. Clean(Scan(Scan(st, ";"), " "), Append(ws, <<"operator">>), <<>>)
  <2> DEFINE u == Scan(st, ";")
             v == Scan(u, " ")
  <2>1. u \in States(Letters) /\ v \in States(Letters)
    BY <1>0, <1>6, <1>7
  <2>2. u = Operator(st)
    BY <1>7 DEF Scan, InPlain, Quote, DoubleQuote, Backslash
  <2>3. /\ u.mode = "plain" /\ ~u.escaped /\ ~u.open /\ u.word = <<>>
        /\ u.words = Append(ws, <<"operator">>)
    BY <1>7, <2>2 DEF Operator, Close, States
  <2> HIDE DEF u
  <2>4. v = u
    BY <2>3 DEF Scan, InPlain, Close, Quote, DoubleQuote, Backslash
  <2> HIDE DEF v
  <2>5. Clean(v, Append(ws, <<"operator">>), <<>>)
    BY <2>1, <2>3, <2>4 DEF Clean
  <2> QED
    BY <2>5 DEF u, v
<1> QED
  BY <1>2, <1>4, <1>5, <1>8, <1>9 DEF st

\* After p the words ws are complete, and the argument begins.
Ready(p, ws) ==
  p \in Seq(Letters) /\ ws \in Seq(Seq(Letters)) /\ ws # <<>> /\ Clean(Scanned(p), ws, <<>>)

\* A word, or an operator, before the argument.
LEMMA ReadyNext ==
  ASSUME NEW p, NEW ws, Ready(p, ws)
  PROVE  /\ Ready(p \o Name, Append(ws, <<"a">>))
         /\ Ready(p \o Sign, Append(ws, <<"operator">>))
<1>1. p \in Seq(Letters) /\ ws \in Seq(Seq(Letters)) /\ Clean(Scanned(p), ws, <<>>)
  BY DEF Ready
<1>2. \A w \in Seq(Letters) : Append(ws, w) # <<>>
  BY <1>1, AppendProperties
<1>3. <<"a">> \in Seq(Letters) /\ <<"operator">> \in Seq(Letters)
  <2>1. "a" \in Letters /\ "operator" \in Letters
    BY DEF Letters, Classes
  <2> QED
    BY <2>1, OneElement
<1> QED
  BY <1>1, <1>2, <1>3, ReadOn DEF Ready

(***************************************************************************)
(* Before the argument at least the program has been read.                 *)
(***************************************************************************)
LEMMA BeforeArgument ==
  ASSUME tool \in Tools \ {"bash_execute"}
  PROVE  Ready(Before[tool], Words(Before[tool]))
<1> DEFINE two == Name \o Name
           three == two \o Sign
           four == three \o Name
           five == four \o Name
           six == five \o Sign
<1>1. \E ws : Ready(Name, ws)
  <2>1. Clean(Scanned(<<>>), <<>>, <<>>)
    <3>1. Start \in States(Letters)
      BY StartType
    <3>2. Start.mode = "plain" /\ ~Start.escaped /\ Start.word = <<>> /\ Start.words = <<>> /\ ~Start.open
      BY DEF Start
    <3> QED
      BY <3>1, <3>2, ScannedNothing DEF Clean
  <2>2. <<>> \in Seq(Letters) /\ <<>> \in Seq(Seq(Letters))
    BY EmptySeq
  <2> DEFINE none == <<>>
  <2>3. none \in Seq(Letters) /\ none \in Seq(Seq(Letters)) /\ Clean(Scanned(none), none, <<>>)
    BY <2>1, <2>2
  <2> HIDE DEF none
  <2>4. /\ none \o Name \in Seq(Letters)
        /\ Clean(Scanned(none \o Name), Append(none, <<"a">>), <<>>)
        /\ Append(none, <<"a">>) \in Seq(Seq(Letters))
    BY <2>3, ReadOn
  <2>5. none \o Name = Name /\ Append(none, <<"a">>) # <<>>
    BY ShortSequences DEF none, Name
  <2>6. Ready(Name, Append(none, <<"a">>))
    BY <2>4, <2>5 DEF Ready
  <2> QED
    BY <2>6
<1>2. six = Name \o Name \o Sign \o Name \o Name \o Sign
  OBVIOUS
<1> HIDE DEF two, three, four, five, six
<1>3. \E ws : Ready(six, ws)
  <2>1. \E ws : Ready(two, ws)
    BY <1>1, ReadyNext DEF two
  <2>2. \E ws : Ready(three, ws)
    BY <2>1, ReadyNext DEF three
  <2>3. \E ws : Ready(four, ws)
    BY <2>2, ReadyNext DEF four
  <2>4. \E ws : Ready(five, ws)
    BY <2>3, ReadyNext DEF five
  <2> QED
    BY <2>4, ReadyNext DEF six
<1>4. Before[tool] = Name \/ Before[tool] = six
  BY <1>2 DEF Tools, Before
<1>5. PICK ws : Ready(Before[tool], ws)
  BY <1>1, <1>3, <1>4
<1>6. Words(Before[tool]) = ws
  <2> DEFINE st == Scanned(Before[tool])
  <2>1. st.mode = "plain" /\ ~st.escaped /\ ~st.open /\ st.words = ws
    BY <1>5 DEF Ready, Clean
  <2>2. Words(Before[tool]) = Ended(st)
    BY WordsEnded
  <2> HIDE DEF st
  <2> QED
    BY <2>1, <2>2 DEF Ended, Close
<1> QED
  BY <1>5, <1>6

(***************************************************************************)
(* A line has no word with a letter it does not have itself.               *)
(***************************************************************************)
LEMMA WordsTypes ==
  ASSUME NEW C \in SUBSET Letters, Backslash \in C, "expanded" \in C, "operator" \in C,
         "unspecified" \in C, NEW text \in Seq(C)
  PROVE  Words(text) \in Seq(Seq(C))
<1> DEFINE st == Scanned(text)
           end == IF st.escaped THEN Add(st, "unspecified") ELSE st
<1>1. st \in States(C)
  BY ScannedTypes
<1> HIDE DEF st
<1>2. end \in States(C)
  BY <1>1, AppendProperties DEF Add, States
<1>3. Close(end).words \in Seq(Seq(C))
  <2> HIDE DEF end
  <2>1. end.word \in Seq(C) /\ end.words \in Seq(Seq(C))
    BY <1>2 DEF States
  <2>2. Append(end.words, end.word) \in Seq(Seq(C))
    BY <2>1, AppendProperties
  <2> QED
    BY <1>2, <2>1, <2>2 DEF Close, States
<1>4. Words(text) = IF st.mode # "plain" THEN <<>> ELSE Close(end).words
  BY WordsEnded DEF Ended, st
<1> HIDE DEF end
<1> QED
  BY <1>3, <1>4, EmptySeq

\* What the shell made of the command: the argument as a word, unchanged.
Read == Words(command) = Words(Before[tool]) \o <<arg>> \o Words(After[tool])

\* The argument is read where the scan is when the argument ends.
LEMMA ReadSoFar ==
  ASSUME tool \in Tools \ {"bash_execute"}, arg \in Seq(Classes),
         NEW p \in Seq(Letters), command = p \o After[tool]
  PROVE  Read <=> Hit(Scanned(p), Words(Before[tool]), arg)
<1> DEFINE ws == Words(Before[tool])
           t == After[tool]
<1>1. ws \in Seq(Seq(Letters))
  BY BeforeArgument DEF Ready
<1>2. t \in {<<>>, <<" ", "a">>}
  BY DEF After
<1>3. command = p \o t
  OBVIOUS
<1> HIDE DEF ws, t
<1>4. Words(p \o t) = ws \o <<arg>> \o Words(t) <=> Hit(Scanned(p), ws, arg)
  BY <1>1, <1>2, AfterArgument
<1> QED
  BY <1>3, <1>4 DEF Read, ws, t

\* A command without some character of the argument does not hold it.
LEMMA ReadLetters ==
  ASSUME tool \in Tools \ {"bash_execute"}, arg \in Seq(Classes),
         NEW C \in SUBSET Letters, Backslash \in C, "expanded" \in C, "operator" \in C,
         "unspecified" \in C, command \in Seq(C), Read
  PROVE  arg \in Seq(C)
<1> DEFINE ws == Words(Before[tool])
           more == Words(After[tool])
<1>1. ws \in Seq(Seq(Letters)) /\ arg \in Seq(Letters) /\ more \in Seq(Seq(Letters))
  <2>1. /\ Classes \subseteq Letters /\ Letters \in SUBSET Letters /\ Backslash \in Letters
        /\ "expanded" \in Letters /\ "operator" \in Letters /\ "unspecified" \in Letters
    BY DEF Letters, Classes
  <2>2. arg \in Seq(Letters) /\ After[tool] \in Seq(Letters)
    BY <2>1, CommandLineType, SeqOfLarger
  <2>3. more \in Seq(Seq(Letters))
    BY <2>1, <2>2, WordsTypes
  <2> QED
    BY <2>2, <2>3, BeforeArgument DEF Ready
<1>2. Words(command) = ws \o <<arg>> \o more /\ Words(command) \in Seq(Seq(C))
  BY WordsTypes DEF Read
<1> DEFINE all == Words(command)
<1> HIDE DEF ws, more, all
<1>3. all = (ws \o <<arg>>) \o more /\ all \in Seq(Seq(C))
  BY <1>2 DEF all
<1>4. Len(ws) + 1 \in 1..Len(all) /\ all[Len(ws) + 1] = arg
  <2> DEFINE front == ws \o <<arg>>
  <2>1. front = Append(ws, arg)
    BY <1>1, AppendIsConcat
  <2>2. front \in Seq(Seq(Letters)) /\ Len(front) = Len(ws) + 1 /\ front[Len(ws) + 1] = arg
    BY <1>1, <2>1, AppendProperties
  <2>3. all = front \o more
    BY <1>3
  <2> HIDE DEF front
  <2>9. Joined(all, front, more)
    <3>1. front \in Seq(Seq(Letters)) /\ more \in Seq(Seq(Letters))
      BY <1>1, <2>2
    <3>2. Joined(front \o more, front, more)
      BY <3>1, JoinedIs, Zenon
    <3> QED
      BY <2>3, <3>2, Zenon
  <2>4. Len(all) = Len(front) + Len(more) /\ \A i \in 1..Len(front) : all[i] = front[i]
    BY <2>9 DEF Joined
  <2>5. Len(ws) \in Nat /\ Len(more) \in Nat
    BY <1>1, LenProperties
  <2> QED
    BY <2>2, <2>4, <2>5
<1> QED
  BY <1>3, <1>4

\* The characters of a text are in A exactly if it is a text over A.
LEMMA ToSetIs ==
  ASSUME NEW C, NEW text \in Seq(C), NEW A
  PROVE  ToSet(text) \subseteq A <=> text \in Seq(A)
  BY DEF ToSet

\* What is asked of an argument.
Ordinary(A) == ToSet(arg) \subseteq A /\ arg # <<>>

(***************************************************************************)
(* In the line of the tool, as a microVM runs it.                          *)
(***************************************************************************)
LEMMA BareRead ==
  ASSUME tool \in Tools \ {"bash_execute"}, arg \in Seq(Classes), command = CommandLine
  PROVE  Read <=> Ordinary({"a"})
<1> DEFINE b == Before[tool]
           ws == Words(b)
           p == b \o arg
           A == {"a"}
<1>1. b \in Seq(Letters) /\ ws \in Seq(Seq(Letters)) /\ Clean(Scanned(b), ws, <<>>)
  BY BeforeArgument DEF Ready
<1>2. p \in Seq(Letters) /\ command = p \o After[tool]
  <2>1. Classes \subseteq Letters
    BY DEF Letters
  <2>2. arg \in Seq(Letters)
    BY <2>1, SeqOfLarger
  <2> QED
    BY <1>1, <2>2, ConcatProperties DEF CommandLine
<1> HIDE DEF p, A
<1>3. Read <=> Hit(Scanned(p), ws, arg)
  BY <1>2, ReadSoFar
<1> HIDE DEF b, ws
<1>4. Hit(Scanned(b \o arg), ws, arg) <=> arg \in Seq(A) /\ arg # <<>>
  BY <1>1, BareArgument DEF A
<1>5. ToSet(arg) \subseteq A <=> arg \in Seq(A)
  BY ToSetIs
<1> QED
  BY <1>3, <1>4, <1>5 DEF Ordinary, p, A

(***************************************************************************)
(* In the line as repr() and the shell of a container leave it.            *)
(***************************************************************************)
LEMMA QuotedRead ==
  ASSUME tool \in Tools \ {"bash_execute"}, arg \in Seq(Classes),
         command = Received(CommandLine)
  PROVE  Read <=> Ordinary({"a", Backslash})
<1> DEFINE b == Before[tool]
           t == After[tool]
           ws == Words(b)
           A == {"a", Backslash}
           plain == {"a", " ", ";"}
<1> SUFFICES Read <=> Ordinary(A)
  OBVIOUS
<1>0. /\ Classes \subseteq Letters /\ Backslash \in Letters /\ "expanded" \in Letters
      /\ "operator" \in Letters /\ "unspecified" \in Letters
  BY DEF Letters, Classes
<1>1. b \in Seq(Letters) /\ ws \in Seq(Seq(Letters)) /\ ws # <<>> /\ Clean(Scanned(b), ws, <<>>)
  BY BeforeArgument DEF Ready
<1>2. b \in Seq(plain) /\ t \in Seq(plain) /\ CommandLine \in Seq(Classes)
  BY CommandLineType
<1>3. ToSet(arg) \subseteq A <=> arg \in Seq(A)
  <2> HIDE DEF A
  <2> QED
    BY ToSetIs
<1>4. \A c \in Classes \ plain : Contains(CommandLine, c) <=> Contains(arg, c)
  <2> SUFFICES ASSUME NEW c \in Classes \ plain
               PROVE  Contains((b \o arg) \o t, c) <=> Contains(arg, c)
    BY DEF CommandLine
  <2>1. ~Contains(b, c) /\ ~Contains(t, c)
    <3>1. c \notin plain
      OBVIOUS
    <3> HIDE DEF plain, b, t
    <3> QED
      BY <1>2, <3>1 DEF Contains
  <2>2. b \in Seq(Classes) /\ t \in Seq(Classes) /\ b \o arg \in Seq(Classes)
    <3>1. plain \subseteq Classes
      BY DEF Classes
    <3> HIDE DEF plain
    <3> QED
      BY <1>2, <3>1, SeqOfLarger, ConcatProperties
  <2> HIDE DEF b, t, plain
  <2>3. ASSUME NEW u \in Seq(Classes), NEW v \in Seq(Classes)
        PROVE  Contains(u \o v, c) <=> Contains(u, c) \/ Contains(v, c)
    <3>1. /\ Len(u \o v) = Len(u) + Len(v) /\ Len(u) \in Nat /\ Len(v) \in Nat
          /\ \A i \in 1..Len(u) : (u \o v)[i] = u[i]
          /\ \A i \in 1..Len(v) : (u \o v)[Len(u) + i] = v[i]
      BY JoinedIs DEF Joined
    <3>2. Contains(u, c) => Contains(u \o v, c)
      BY <3>1 DEF Contains
    <3>3. Contains(v, c) => Contains(u \o v, c)
      <4> SUFFICES ASSUME NEW i \in 1..Len(v), v[i] = c PROVE Contains(u \o v, c)
        BY DEF Contains
      <4>1. Len(u) + i \in 1..Len(u \o v) /\ (u \o v)[Len(u) + i] = c
        BY <3>1
      <4> QED
        BY <4>1 DEF Contains
    <3>4. Contains(u \o v, c) => Contains(u, c) \/ Contains(v, c)
      <4> SUFFICES ASSUME NEW i \in 1..Len(u \o v), (u \o v)[i] = c
                   PROVE  Contains(u, c) \/ Contains(v, c)
        BY DEF Contains
      <4>1. CASE i \in 1..Len(u)
        BY <3>1, <4>1 DEF Contains
      <4>2. CASE i \notin 1..Len(u)
        <5>1. i - Len(u) \in 1..Len(v) /\ Len(u) + (i - Len(u)) = i
          BY <3>1, <4>2
        <5>2. v[i - Len(u)] = c
          BY <3>1, <5>1
        <5> QED
          BY <5>1, <5>2 DEF Contains
      <4> QED
        BY <4>1, <4>2
    <3> QED
      BY <3>2, <3>3, <3>4
  <2> QED
    BY <2>1, <2>2, <2>3
<1>5. /\ Quote \in Classes \ plain /\ DoubleQuote \in Classes \ plain /\ "nl" \in Classes \ plain
      /\ "$" \in Classes \ plain /\ Quote \notin A /\ "nl" \notin A /\ "$" \notin A /\ "a" # Quote
  BY DEF Classes, Quote, DoubleQuote, Backslash
<1>6. \A c \in Classes \ A : Contains(arg, c) => ~(ToSet(arg) \subseteq A)
  <2> HIDE DEF A
  <2> QED
    BY DEF Contains, ToSet
<1> HIDE DEF plain, A
<1>7. CASE ~Contains(arg, Quote)
  <2> DEFINE f == Escaped(Quote)
             D == Classes \ {Quote}
  <2>1. CommandLine \in Seq(D)
    BY <1>2, <1>4, <1>5, <1>7, WithoutLetter
  <2>2. command = Translated(CommandLine, f)
    BY <2>1, ReceivedSingle
  <2>3. CASE Contains(arg, "nl")
    <3> DEFINE C == Letters \ {"nl"}
    <3>1. Translates(f, D, C)
      <4>1. "a" \in C /\ Backslash \in C
        BY <1>0 DEF Backslash, Letters, Classes
      <4>2. \A c \in D : f[c] = <<Backslash, "a">> \/ (c # "nl" /\ (f[c] = <<Backslash, c>> \/ f[c] = <<c>>))
        BY EscapedIs
      <4>3. \A c \in D : c # "nl" => c \in C
        BY <1>0
      <4> HIDE DEF f, C, D
      <4>4. \A c \in D : f[c] \in Seq(C)
        BY <4>1, <4>2, <4>3, OneElement, TwoElements
      <4> QED
        BY <4>4 DEF Translates
    <3>2. command \in Seq(C)
      <4> HIDE DEF f, C, D
      <4> QED
        BY <2>1, <2>2, <3>1, TranslatedType
    <3>3. /\ C \in SUBSET Letters /\ Backslash \in C /\ "expanded" \in C /\ "operator" \in C
          /\ "unspecified" \in C
      BY <1>0 DEF Backslash
    <3>4. arg \notin Seq(C)
      BY <2>3 DEF Contains
    <3>5. ~Read
      <4> HIDE DEF C
      <4> QED
        BY <3>2, <3>3, <3>4, ReadLetters
    <3> QED
      BY <1>5, <1>6, <2>3, <3>5 DEF Ordinary
  <2>4. CASE ~Contains(arg, "nl")
    <3> DEFINE x == Translated(arg, f)
    <3>1. arg \in Seq(Classes \ {Quote, "nl"}) /\ arg \in Seq(D)
      BY <1>7, <2>4 DEF Contains
    <3>2. Translates(f, D, Letters)
      BY EscapedIs DEF Translates
    <3>3. b \in Seq(D) /\ t \in Seq(D)
      <4>1. plain \subseteq D
        BY DEF plain, Classes, Quote, DoubleQuote, Backslash
      <4> QED
        BY <1>2, <4>1, SeqOfLarger
    <3>4. Translated(b, f) = b /\ Translated(t, f) = t
      <4>1. \A c \in plain : f[c] = <<c>>
        <5>1. \A c \in plain : c \in Classes /\ c \notin {"nl", Backslash, Quote}
          BY DEF plain, Classes, Quote, DoubleQuote, Backslash
        <5> QED
          BY <5>1, EscapedIs
      <4> HIDE DEF f
      <4> QED
        BY <1>2, <4>1, TranslatedSame
    <3> HIDE DEF f, D
    <3>5. Translated((b \o arg) \o t, f) = Translated(b \o arg, f) \o Translated(t, f)
      <4> DEFINE front == b \o arg
      <4>1. front \in Seq(D)
        BY <3>1, <3>3, ConcatProperties
      <4> HIDE DEF front, b, t
      <4>2. Translated(front \o t, f) = Translated(front, f) \o Translated(t, f)
        BY <3>2, <3>3, <4>1, TranslatedConcat
      <4> QED
        BY <4>2 DEF front
    <3>6. Translated(b \o arg, f) = b \o x
      <4> HIDE DEF b
      <4>1. Translated(b \o arg, f) = Translated(b, f) \o Translated(arg, f)
        BY <3>1, <3>2, <3>3, TranslatedConcat
      <4> QED
        BY <3>4, <4>1
    <3>7. command = (b \o x) \o t
      BY <2>2, <3>4, <3>5, <3>6 DEF CommandLine
    <3>8. b \o x \in Seq(Letters)
      <4>1. x \in Seq(Letters)
        BY <3>1, <3>2, TranslatedType
      <4> HIDE DEF x
      <4> QED
        BY <1>1, <4>1, ConcatProperties
    <3>9. Read <=> Hit(Scanned(b \o x), ws, arg)
      <4> DEFINE p == b \o x
      <4>1. p \in Seq(Letters) /\ command = p \o After[tool]
        BY <3>7, <3>8
      <4> HIDE DEF p
      <4>2. Read <=> Hit(Scanned(p), Words(Before[tool]), arg)
        BY <4>1, ReadSoFar
      <4> QED
        BY <4>2 DEF p
    <3>10. Hit(Scanned(b \o x), ws, arg) <=> arg \in Seq(A) /\ arg # <<>>
      <4> HIDE DEF b, ws
      <4>1. Hit(Scanned(b \o Translated(arg, Escaped(Quote))), ws, arg)
              <=> arg \in Seq({"a", Backslash}) /\ arg # <<>>
        BY <1>1, <3>1, EscapedArgument
      <4> QED
        BY <4>1 DEF f, A
    <3> QED
      BY <1>3, <3>9, <3>10 DEF Ordinary
  <2> QED
    BY <2>3, <2>4
<1>8. CASE Contains(arg, Quote) /\ Contains(arg, DoubleQuote)
  <2>1. command = <<"unspecified">>
    BY <1>2, <1>4, <1>5, <1>8, ReceivedBoth
  <2> DEFINE C == {Backslash, "expanded", "operator", "unspecified"}
  <2>2. /\ C \in SUBSET Letters /\ command \in Seq(C) /\ Backslash \in C
        /\ "expanded" \in C /\ "operator" \in C /\ "unspecified" \in C
    <3>1. "unspecified" \in C
      OBVIOUS
    <3>2. C \in SUBSET Letters /\ Backslash \in C /\ "expanded" \in C /\ "operator" \in C
      BY <1>0
    <3> HIDE DEF C
    <3>3. command \in Seq(C)
      BY <2>1, <3>1, OneElement
    <3> QED
      BY <3>1, <3>2, <3>3
  <2>3. arg \notin Seq(C)
    <3>1. Quote \notin C
      BY DEF Quote, Backslash
    <3> HIDE DEF C
    <3> QED
      BY <1>8, <3>1 DEF Contains
  <2> HIDE DEF C
  <2>4. ~Read
    BY <2>2, <2>3, ReadLetters
  <2> QED
    BY <1>5, <1>6, <1>8, <2>4 DEF Ordinary
<1>9. CASE Contains(arg, Quote) /\ ~Contains(arg, DoubleQuote)
  <2>1. CommandLine \in Seq(Classes \ {DoubleQuote}) /\ Contains(CommandLine, Quote)
    BY <1>2, <1>4, <1>5, <1>9, WithoutLetter
  <2>2. ~Ordinary(A)
    BY <1>5, <1>6, <1>9 DEF Ordinary
  <2>3. CASE Contains(arg, "nl") \/ Contains(arg, "$")
    <3> DEFINE C == Letters \ {"nl", "$"}
               D == Classes \ {DoubleQuote}
    <3>1. Translates(Expanded, D, C)
      <4>1. "a" \in C /\ Backslash \in C /\ "expanded" \in C
        BY <1>0 DEF Backslash, Letters, Classes
      <4>2. \A c \in D : \/ Expanded[c] = <<Backslash, "a">> \/ Expanded[c] = <<"expanded">>
                         \/ c \notin {"nl", "$"} /\ Expanded[c] = <<c>>
        BY ExpandedIs
      <4>3. \A c \in D : c \notin {"nl", "$"} => c \in C
        BY <1>0
      <4> HIDE DEF C, D
      <4>4. \A c \in D : Expanded[c] \in Seq(C)
        BY <4>1, <4>2, <4>3, OneElement, TwoElements
      <4> QED
        BY <4>4 DEF Translates
    <3>2. command \in Seq(C)
      <4>1. command = Translated(CommandLine, Expanded)
        BY <2>1, ReceivedDouble
      <4> HIDE DEF C, D
      <4>2. CommandLine \in Seq(D)
        BY <2>1 DEF D
      <4> QED
        BY <3>1, <4>1, <4>2, TranslatedType
    <3>3. /\ C \in SUBSET Letters /\ Backslash \in C /\ "expanded" \in C /\ "operator" \in C
          /\ "unspecified" \in C
      BY <1>0 DEF Backslash
    <3>4. arg \notin Seq(C)
      BY <2>3 DEF Contains
    <3>5. ~Read
      <4> HIDE DEF C
      <4> QED
        BY <3>2, <3>3, <3>4, ReadLetters
    <3> QED
      BY <2>2, <3>5
  <2>4. CASE ~Contains(arg, "nl") /\ ~Contains(arg, "$")
    <3>1. command = CommandLine
      BY <1>4, <1>5, <2>1, <2>4, ReceivedDouble
    <3>2. Read <=> Ordinary({"a"})
      BY <3>1, BareRead
    <3>3. ~Ordinary({"a"})
      BY <1>5, <1>9 DEF Ordinary, Contains, ToSet
    <3> QED
      BY <2>2, <3>2, <3>3
  <2> QED
    BY <2>3, <2>4
<1> QED
  BY <1>7, <1>8, <1>9

(***************************************************************************)
(* For paths and patterns of every length: one is read as a single         *)
(* argument, unchanged, exactly if it is not empty and has only characters *)
(* that mean nothing to a shell, in a container backslashes among them.    *)
(***************************************************************************)
THEOREM ArgumentsArrive == Spec => []ArgumentArrives
<1>1. Call => ArgumentArrives
  <2> SUFFICES ASSUME Call, stage # "called", tool # "bash_execute" PROVE ArgumentArrives
    BY DEF ArgumentArrives
  <2>0. tool \in Tools \ {"bash_execute"} /\ arg \in Seq(Classes)
    BY DEF Call
  <2>1. CASE backend = "docker"
    <3>1. Read <=> Ordinary({"a", Backslash})
      <4>1. command = Received(CommandLine)
        BY <2>1 DEF Call
      <4> QED
        BY <2>0, <4>1, QuotedRead
    <3>2. {"a"} \cup (IF backend = "docker" THEN {Backslash} ELSE {}) = {"a", Backslash}
      BY <2>1
    <3> QED
      BY <3>1, <3>2 DEF ArgumentArrives, Read, Ordinary
  <2>2. CASE backend = "firecracker"
    <3>1. Read <=> Ordinary({"a"})
      <4>1. command = CommandLine
        BY <2>2 DEF Call
      <4> QED
        BY <2>0, <4>1, BareRead
    <3>2. {"a"} \cup (IF backend = "docker" THEN {Backslash} ELSE {}) = {"a"}
      BY <2>2
    <3> QED
      BY <3>1, <3>2 DEF ArgumentArrives, Read, Ordinary
  <2> QED
    BY <2>1, <2>2 DEF Call
<1> QED
  BY <1>1, CallInvariant, PTL

=============================================================================
