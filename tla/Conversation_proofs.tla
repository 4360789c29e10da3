------------------------- MODULE Conversation_proofs -------------------------
(***************************************************************************)
(* Theorems about the history of a session, for every set of requests, all *)
(* sizes and every budget; what is about the split assumes the code's      *)
(* overlap, none.                                                          *)
(***************************************************************************)
EXTENDS Conversation, SequenceLemmas

-----------------------------------------------------------------------------
(* What the sums and the estimates of compaction amount to. *)

(***************************************************************************)
(* The sums of the first sizes: 0, and one size more each time.            *)
(***************************************************************************)
LEMMA SumsFacts ==
  ASSUME NEW sizes \in Seq(Nat)
  PROVE  /\ Sums(sizes) \in [0..Len(sizes) -> Nat]
         /\ Sums(sizes)[0] = 0
         /\ \A i \in 1..Len(sizes) : Sums(sizes)[i] = Sums(sizes)[i - 1] + sizes[i]
<1> DEFINE n == Len(sizes)
           Next1(f) == [i \in 0..n |-> IF i = 0 THEN 0 ELSE f[i - 1] + sizes[i]]
           part == CHOOSE f : f = Next1(f)
           step == [i \in 1..n |-> [v \in Nat |-> v + sizes[i]]]
<1>0. n \in Nat /\ 0 \in Nat /\ \A i \in 1..n : sizes[i] \in Nat
  OBVIOUS
<1>1. Sums(sizes) = part
  BY DEF Sums
<1>2. step \in [1..n -> [Nat -> Nat]] /\ \A i \in 1..n, v \in Nat : step[i][v] = v + sizes[i]
  BY <1>0
<1> HIDE DEF step
<1>3. PICK f \in [0..n -> Nat] : f[0] = 0 /\ \A i \in 1..n : f[i] = step[i][f[i - 1]]
  <2>1. Solvable(Nat, 0, n, step)
    BY <1>0, <1>2, RecursionExists
  <2> QED
    BY <2>1 DEF Solvable
<1>4. f = Next1(f)
  <2>1. \A i \in 1..n : f[i - 1] \in Nat
    BY <1>0
  <2>2. \A i \in 1..n : f[i] = f[i - 1] + sizes[i]
    BY <1>2, <1>3, <2>1
  <2> QED
    BY <1>0, <1>3, <2>2
<1>5. part = Next1(part)
  <2> HIDE DEF Next1
  <2> QED
    BY <1>4
<1> HIDE DEF part
<1>6. \A i \in 1..n : part[i] = part[i - 1] + sizes[i]
  BY <1>0, <1>5
<1>7. part[0] = 0 /\ DOMAIN part = 0..n
  BY <1>0, <1>5
<1>8. \A i \in 1..n : part[i - 1] \in Nat => part[i] \in Nat
  <2>1. ASSUME NEW i \in 1..n, part[i - 1] \in Nat PROVE part[i] \in Nat
    <3>1. part[i] = part[i - 1] + sizes[i]
      BY <1>6
    <3>2. sizes[i] \in Nat
      BY <1>0
    <3> QED
      BY <2>1, <3>1, <3>2
  <2> QED
    BY <2>1
<1>9. \A i \in 0..n : part[i] \in Nat
  BY <1>0, <1>7, <1>8, StepsStay
<1>10. part \in [0..n -> Nat]
  BY <1>5, <1>7, <1>9
<1> QED
  BY <1>1, <1>6, <1>7, <1>10

(***************************************************************************)
(* An estimate is a quarter of the characters, rounded down.               *)
(***************************************************************************)
LEMMA EstimateFacts ==
  ASSUME NEW sizes \in Seq(Nat)
  PROVE  LET chars == Sums(sizes)[Len(sizes)] + 2 * Len(sizes)
         IN  /\ Estimate(sizes) \in Nat
             /\ 4 * Estimate(sizes) <= chars
             /\ chars <= 4 * Estimate(sizes) + 3
<1>1. Sums(sizes)[Len(sizes)] \in Nat /\ Len(sizes) \in Nat
  BY SumsFacts
<1> QED
  BY <1>1 DEF Estimate

LEMMA EstimateOne ==
  ASSUME NEW x \in Nat
  PROVE  /\ Estimate(<<x>>) \in Nat
         /\ 4 * Estimate(<<x>>) <= x + 2
         /\ x + 2 <= 4 * Estimate(<<x>>) + 3
<1> DEFINE s == <<x>>
<1>1. s \in Seq(Nat) /\ Len(s) = 1 /\ s[1] = x
  OBVIOUS
<1> HIDE DEF s
<1>2. Sums(s)[1] = x
  <2>1. 1 \in 1..Len(s)
    BY <1>1
  <2>2. Sums(s)[0] = 0 /\ Sums(s)[1] = Sums(s)[1 - 1] + s[1]
    BY <1>1, <2>1, SumsFacts
  <2> QED
    BY <1>1, <2>2
<1>3. /\ Estimate(s) \in Nat
      /\ 4 * Estimate(s) <= Sums(s)[1] + 2 * 1
      /\ Sums(s)[1] + 2 * 1 <= 4 * Estimate(s) + 3
  BY <1>1, EstimateFacts
<1>4. /\ Estimate(s) \in Nat
      /\ 4 * Estimate(s) <= x + 2
      /\ x + 2 <= 4 * Estimate(s) + 3
  BY <1>2, <1>3
<1> QED
  BY <1>4 DEF s

(***************************************************************************)
(* running_tokens starts at the estimate of the list and loses that of one *)
(* message at a time.                                                      *)
(***************************************************************************)
LEMMA RunningFacts ==
  ASSUME NEW sizes \in Seq(Nat)
  PROVE  /\ Running(sizes) \in [0..Len(sizes) -> Int]
         /\ Running(sizes)[0] = Estimate(sizes)
         /\ \A i \in 1..Len(sizes) :
              Running(sizes)[i] = Running(sizes)[i - 1] - Estimate(<<sizes[i]>>)
<1> DEFINE n == Len(sizes)
           Next1(f) == [i \in 0..n |-> IF i = 0 THEN Estimate(sizes)
                                       ELSE f[i - 1] - Estimate(<<sizes[i]>>)]
           tokens == CHOOSE f : f = Next1(f)
           own == [i \in 1..n |-> Estimate(<<sizes[i]>>)]
           step == [i \in 1..n |-> [v \in Int |-> v - own[i]]]
<1>0. /\ n \in Nat /\ Estimate(sizes) \in Int
      /\ \A i \in 1..n : own[i] \in Int
  <2>1. n \in Nat /\ \A i \in 1..n : sizes[i] \in Nat
    OBVIOUS
  <2>2. \A i \in 1..n : Estimate(<<sizes[i]>>) \in Int
    BY <2>1, EstimateOne
  <2> QED
    BY <2>1, <2>2, EstimateFacts
<1>1. Running(sizes) = tokens
  BY DEF Running
<1>own. \A i \in 1..n : own[i] = Estimate(<<sizes[i]>>)
  OBVIOUS
<1> HIDE DEF own
<1>2. step \in [1..n -> [Int -> Int]] /\ \A i \in 1..n, v \in Int : step[i][v] = v - own[i]
  BY <1>0
<1> HIDE DEF step
<1>3. PICK f \in [0..n -> Int] :
        f[0] = Estimate(sizes) /\ \A i \in 1..n : f[i] = step[i][f[i - 1]]
  <2>1. Solvable(Int, Estimate(sizes), n, step)
    BY <1>0, <1>2, RecursionExists
  <2> QED
    BY <2>1 DEF Solvable
<1>4. f = Next1(f)
  <2>1. \A i \in 1..n : f[i - 1] \in Int
    <3>1. \A i \in 1..n : i - 1 \in 0..n
      BY <1>0
    <3>2. \A k \in 0..n : f[k] \in Int
      OBVIOUS
    <3> QED
      BY <3>1, <3>2
  <2>2. \A i \in 1..n : f[i] = f[i - 1] - own[i]
    BY <1>2, <1>3, <2>1
  <2>3. \A i \in 1..n : f[i] = f[i - 1] - Estimate(<<sizes[i]>>)
    BY <1>own, <2>2
  <2> QED
    BY <1>0, <1>3, <2>3
<1>5. tokens = Next1(tokens)
  <2> HIDE DEF Next1
  <2> QED
    BY <1>4
<1> HIDE DEF tokens
<1>6. ASSUME NEW i \in 1..n PROVE tokens[i] = tokens[i - 1] - Estimate(<<sizes[i]>>)
  <2>1. tokens[i] = Next1(tokens)[i]
    <3> HIDE DEF Next1
    <3> QED
      BY <1>5
  <2>2. i \in 0..n /\ i # 0
    BY <1>0
  <2> QED
    BY <2>1, <2>2
<1>7. tokens[0] = Estimate(sizes) /\ DOMAIN tokens = 0..n
  BY <1>0, <1>5
<1>8. \A i \in 1..n : tokens[i - 1] \in Int => tokens[i] \in Int
  <2>1. ASSUME NEW i \in 1..n, tokens[i - 1] \in Int PROVE tokens[i] \in Int
    <3>1. tokens[i] = tokens[i - 1] - own[i]
      BY <1>6, <1>own
    <3>2. own[i] \in Int
      BY <1>0
    <3> QED
      BY <2>1, <3>1, <3>2
  <2> QED
    BY <2>1
<1>9. \A i \in 0..n : tokens[i] \in Int
  BY <1>0, <1>7, <1>8, StepsStay
<1>10. tokens \in [0..n -> Int]
  BY <1>5, <1>7, <1>9
<1> QED
  BY <1>1, <1>6, <1>7, <1>10

(***************************************************************************)
(* What running_tokens has lost is the estimate of the messages passed,    *)
(* less up to three quarters of a token for each.                          *)
(***************************************************************************)
LEMMA RunningBounds ==
  ASSUME NEW sizes \in Seq(Nat)
  PROVE  \A k \in 0..Len(sizes) :
           LET lost == Estimate(sizes) - Running(sizes)[k]
           IN  /\ 4 * lost <= Sums(sizes)[k] + 2 * k
               /\ Sums(sizes)[k] + 2 * k <= 4 * lost + 3 * k
<1> DEFINE n == Len(sizes)
           lost(k) == Estimate(sizes) - Running(sizes)[k]
           T == {k \in Nat : k <= n => /\ 4 * lost(k) <= Sums(sizes)[k] + 2 * k
                                       /\ Sums(sizes)[k] + 2 * k <= 4 * lost(k) + 3 * k}
<1>0. n \in Nat /\ (\A i \in 1..n : sizes[i] \in Nat) /\ Estimate(sizes) \in Nat
  BY EstimateFacts
<1>1. 0 \in T
  BY <1>0, SumsFacts, RunningFacts
<1>2. ASSUME NEW k \in Nat, k \in T PROVE k + 1 \in T
  <2> SUFFICES ASSUME k + 1 <= n
               PROVE  /\ 4 * lost(k + 1) <= Sums(sizes)[k + 1] + 2 * (k + 1)
                      /\ Sums(sizes)[k + 1] + 2 * (k + 1) <= 4 * lost(k + 1) + 3 * (k + 1)
    OBVIOUS
  <2> DEFINE x == sizes[k + 1]
             p == Sums(sizes)[k]
             q == Sums(sizes)[k + 1]
             t == Running(sizes)[k]
             u == Running(sizes)[k + 1]
             e == Estimate(<<x>>)
  <2>1. k + 1 \in 1..n /\ (k + 1) - 1 = k /\ k \in 0..n /\ x \in Nat
    BY <1>0
  <2>2. p \in Nat /\ t \in Int /\ q = p + x /\ u = t - e
    BY <2>1, SumsFacts, RunningFacts
  <2>3. e \in Nat /\ 4 * e <= x + 2 /\ x + 2 <= 4 * e + 3
    BY <2>1, EstimateOne
  <2>4. /\ 4 * (Estimate(sizes) - t) <= p + 2 * k
        /\ p + 2 * k <= 4 * (Estimate(sizes) - t) + 3 * k
    BY <1>2, <2>1
  <2> SUFFICES /\ 4 * (Estimate(sizes) - u) <= q + 2 * (k + 1)
               /\ q + 2 * (k + 1) <= 4 * (Estimate(sizes) - u) + 3 * (k + 1)
    OBVIOUS
  <2> HIDE DEF x, p, q, t, u, e, n
  <2> QED
    BY <1>0, <2>1, <2>2, <2>3, <2>4
<1>3. Nat \subseteq T
  <2> HIDE DEF T
  <2> QED
    BY <1>1, <1>2, NumberInduction
<1> QED
  BY <1>0, <1>3

(***************************************************************************)
(* The sums of the end of a list.                                          *)
(***************************************************************************)
LEMMA SumsOfRest ==
  ASSUME NEW sizes \in Seq(Nat), NEW rest \in Seq(Nat), NEW k \in 0..Len(sizes),
         Len(rest) = Len(sizes) - k, \A i \in 1..Len(rest) : rest[i] = sizes[k + i]
  PROVE  Sums(rest)[Len(rest)] = Sums(sizes)[Len(sizes)] - Sums(sizes)[k]
<1> DEFINE n == Len(sizes)
           m == Len(rest)
           P == Sums(sizes)
           Q == Sums(rest)
           T == {j \in Nat : j <= m => P[k + j] = P[k] + Q[j]}
<1>0. n \in Nat /\ m \in Nat /\ k \in 0..n /\ k + m = n
  OBVIOUS
<1>1. P \in [0..n -> Nat] /\ \A i \in 1..n : P[i] = P[i - 1] + sizes[i]
  BY SumsFacts
<1>2. Q \in [0..m -> Nat] /\ Q[0] = 0 /\ \A i \in 1..m : Q[i] = Q[i - 1] + sizes[k + i]
  BY SumsFacts
<1>3. \A i \in 1..n : sizes[i] \in Nat
  OBVIOUS
<1> HIDE DEF n, m, P, Q
<1>4. 0 \in T
  BY <1>0, <1>1, <1>2
<1>5. ASSUME NEW j \in Nat, j \in T PROVE j + 1 \in T
  <2> SUFFICES ASSUME j + 1 <= m PROVE P[k + (j + 1)] = P[k] + Q[j + 1]
    OBVIOUS
  <2>1. /\ j + 1 \in 1..m /\ (j + 1) - 1 = j /\ j \in 0..m
        /\ k + (j + 1) \in 1..n /\ (k + (j + 1)) - 1 = k + j
    BY <1>0
  <2>2. Q[j + 1] = Q[j] + sizes[k + (j + 1)] /\ Q[j] \in Nat
    BY <1>2, <2>1
  <2>3. /\ P[k + (j + 1)] = P[k + j] + sizes[k + (j + 1)]
        /\ P[k] \in Nat /\ sizes[k + (j + 1)] \in Nat
    BY <1>0, <1>1, <1>3, <2>1
  <2>4. P[k + j] = P[k] + Q[j]
    BY <1>5, <2>1
  <2> QED
    BY <2>2, <2>3, <2>4
<1>6. Nat \subseteq T
  <2> HIDE DEF T
  <2> QED
    BY <1>4, <1>5, NumberInduction
<1>7. P[n] = P[k] + Q[m] /\ Q[m] \in Nat /\ P[k] \in Nat
  <2>1. P[k + m] = P[k] + Q[m]
    BY <1>0, <1>6
  <2>2. m \in 0..m /\ k \in 0..n
    BY <1>0
  <2> QED
    BY <1>0, <1>1, <1>2, <2>1, <2>2
<1>8. Q[m] = P[n] - P[k]
  BY <1>7
<1> QED
  BY <1>8 DEF n, m, P, Q

(***************************************************************************)
(* What is left after k messages is estimated no higher than               *)
(* running_tokens says.                                                    *)
(***************************************************************************)
LEMMA RestBelowRunning ==
  ASSUME NEW sizes \in Seq(Nat), NEW rest \in Seq(Nat), NEW k \in 0..Len(sizes),
         Len(rest) = Len(sizes) - k, \A i \in 1..Len(rest) : rest[i] = sizes[k + i]
  PROVE  Estimate(rest) <= Running(sizes)[k]
<1> DEFINE n == Len(sizes)
           all == Sums(sizes)[n]
           passed == Sums(sizes)[k]
           t == Running(sizes)[k]
<1>1. n \in Nat /\ n \in 0..n /\ Len(rest) = n - k
  OBVIOUS
<1>2. all \in Nat /\ passed \in Nat /\ t \in Int
  BY <1>1, SumsFacts, RunningFacts
<1>3. Estimate(sizes) \in Nat /\ all + 2 * n <= 4 * Estimate(sizes) + 3
  BY EstimateFacts
<1>4. 4 * (Estimate(sizes) - t) <= passed + 2 * k
  BY RunningBounds
<1>5. Estimate(rest) \in Nat /\ 4 * Estimate(rest) <= (all - passed) + 2 * (n - k)
  <2>1. Sums(rest)[Len(rest)] = all - passed
    BY SumsOfRest
  <2> QED
    BY <1>1, <2>1, EstimateFacts
<1> HIDE DEF n, all, passed, t
<1>6. Estimate(rest) <= t
  BY <1>1, <1>2, <1>3, <1>4, <1>5
<1> QED
  BY <1>6 DEF t

(***************************************************************************)
(* The estimate of a list bounds its length, when no message is shorter    *)
(* than low.                                                               *)
(***************************************************************************)
LEMMA EstimateBoundsLength ==
  ASSUME NEW sizes \in Seq(Nat), NEW low \in Nat, \A i \in 1..Len(sizes) : low <= sizes[i]
  PROVE  (low + 2) * Len(sizes) <= 4 * Estimate(sizes) + 3
<1> DEFINE n == Len(sizes)
           T == {j \in Nat : j <= n => low * j <= Sums(sizes)[j]}
<1>0. n \in Nat
  OBVIOUS
<1>1. 0 \in T
  BY SumsFacts
<1>2. ASSUME NEW j \in Nat, j \in T PROVE j + 1 \in T
  <2> SUFFICES ASSUME j + 1 <= n PROVE low * (j + 1) <= Sums(sizes)[j + 1]
    OBVIOUS
  <2>1. j + 1 \in 1..n /\ (j + 1) - 1 = j /\ j \in 0..n
    BY <1>0
  <2>2. Sums(sizes)[j + 1] = Sums(sizes)[j] + sizes[j + 1] /\ Sums(sizes)[j] \in Nat
    BY <2>1, SumsFacts
  <2>3. low * j <= Sums(sizes)[j] /\ low <= sizes[j + 1] /\ sizes[j + 1] \in Nat
    BY <1>2, <2>1
  <2>4. low * (j + 1) = low * j + low /\ low * j \in Nat
    OBVIOUS
  <2> QED
    BY <2>2, <2>3, <2>4
<1>3. Nat \subseteq T
  <2> HIDE DEF T
  <2> QED
    BY <1>1, <1>2, NumberInduction
<1>4. low * n <= Sums(sizes)[n] /\ Sums(sizes)[n] \in Nat
  BY <1>0, <1>3, SumsFacts
<1>5. Sums(sizes)[n] + 2 * n <= 4 * Estimate(sizes) + 3 /\ Estimate(sizes) \in Nat
  BY EstimateFacts
<1>6. (low + 2) * n = low * n + 2 * n /\ low * n \in Nat
  BY <1>0
<1> HIDE DEF n
<1> QED
  BY <1>0, <1>4, <1>5, <1>6 DEF n

(***************************************************************************)
(* The loop gives up between none and all of the messages.  It stops at    *)
(* the first message after which running_tokens is within the target, and  *)
(* it gives up all of them only if no earlier one was enough.              *)
(***************************************************************************)
LEMMA SplitFacts ==
  ASSUME NEW sizes \in Seq(Nat), Len(sizes) # 0, NEW target \in Int
  PROVE  LET k == SplitIdx(sizes, target)
             n == Len(sizes)
             running == Running(sizes)
         IN  /\ k \in 0..n
             /\ running[n] <= target => k \in 1..n /\ running[k] <= target
             /\ k = n => \A i \in 1..(n - 1) : ~ (running[i] <= target)
<1> DEFINE n == Len(sizes)
           running == Running(sizes)
           enough == {i \in 1..n : running[i] <= target}
           least == CHOOSE i \in enough : \A j \in enough : i <= j
           k == SplitIdx(sizes, target)
<1>0. n \in Nat \ {0} /\ enough \in SUBSET (1..n)
  OBVIOUS
<1>1. k = IF enough = {} THEN n - 1 ELSE least
  BY DEF SplitIdx
<1>2. \A i \in 1..n : i \in enough <=> running[i] <= target
  OBVIOUS
<1> HIDE DEF n, running, enough, k
<1>3. CASE enough = {}
  <2>1. ~ (running[n] <= target)
    BY <1>0, <1>2, <1>3
  <2> QED
    BY <1>0, <1>1, <1>3, <2>1 DEF n, running, k
<1>4. CASE enough # {}
  <2>1. \E i \in enough : \A j \in enough : i <= j
    <3>1. enough \in SUBSET Nat
      BY <1>0
    <3> QED
      BY <1>4, <3>1, LeastNumber
  <2>2. least \in enough /\ \A j \in enough : least <= j
    BY <2>1
  <2>3. k \in enough /\ \A j \in enough : k <= j
    BY <1>1, <1>4, <2>2
  <2>4. k \in 1..n /\ running[k] <= target
    BY <1>0, <1>2, <2>3
  <2>5. ASSUME k = n, NEW i \in 1..(n - 1) PROVE ~ (running[i] <= target)
    <3>1. i \in 1..n /\ ~ (n <= i)
      BY <1>0
    <3> QED
      BY <1>2, <2>3, <2>5, <3>1
  <2> QED
    BY <1>0, <2>4, <2>5 DEF n, running, k
<1> QED
  BY <1>3, <1>4

(***************************************************************************)
(* The target is the last number of tokens within 70% of the budget, or    *)
(* one below when the product is exact.                                    *)
(***************************************************************************)
LEMMA TargetFacts ==
  ASSUME NEW max \in Nat, NEW target \in Targets(max)
  PROVE  target \in Int /\ 10 * target <= 7 * max /\ 7 * max <= 10 * (target + 1)
<1> DEFINE exact == (7 * max) \div 10
<1>1. exact \in Nat /\ 10 * exact <= 7 * max /\ 7 * max < 10 * (exact + 1)
  OBVIOUS
<1>2. (7 * max) % 10 = 0 => 7 * max = 10 * exact
  OBVIOUS
<1>3. \/ target = exact
      \/ target = exact - 1 /\ (7 * max) % 10 = 0
  BY DEF Targets
<1> HIDE DEF exact
<1> QED
  BY <1>1, <1>2, <1>3

(***************************************************************************)
(* When everything is given up, running_tokens keeps less than one token   *)
(* for each message: the parts it lost by rounding.                        *)
(***************************************************************************)
LEMMA NothingLeft ==
  ASSUME NEW sizes \in Seq(Nat)
  PROVE  4 * Running(sizes)[Len(sizes)] <= 3 * Len(sizes)
<1> DEFINE n == Len(sizes)
           all == Sums(sizes)[n]
           t == Running(sizes)[n]
<1>1. n \in Nat /\ n \in 0..n
  OBVIOUS
<1>2. all \in Nat /\ t \in Int
  BY <1>1, SumsFacts, RunningFacts
<1>3. Estimate(sizes) \in Nat /\ 4 * Estimate(sizes) <= all + 2 * n
  BY EstimateFacts
<1>4. all + 2 * n <= 4 * (Estimate(sizes) - t) + 3 * n
  BY <1>1, RunningBounds
<1> HIDE DEF n, all, t
<1>5. 4 * t <= 3 * n
  BY <1>1, <1>2, <1>3, <1>4
<1> QED
  BY <1>5 DEF n, t

(***************************************************************************)
(* The last message is given up only if it is too large for the target, by *)
(* up to a token for every message that is rounded.                        *)
(***************************************************************************)
LEMMA LastGivenUp ==
  ASSUME NEW sizes \in Seq(Nat), Len(sizes) # 0, NEW max \in Nat, NEW target \in Targets(max),
         Estimate(sizes) > max, SplitIdx(sizes, target) = Len(sizes)
  PROVE  10 * (Estimate(<<sizes[Len(sizes)]>>) + Len(sizes)) > 7 * max
<1> DEFINE n == Len(sizes)
           t == Running(sizes)[n]
           u == Running(sizes)[n - 1]
           e == Estimate(<<sizes[n]>>)
<1>1. n \in Nat \ {0} /\ n \in 1..n /\ n - 1 \in 0..n /\ sizes[n] \in Nat
  OBVIOUS
<1>2. target \in Int /\ 7 * max <= 10 * (target + 1)
  BY TargetFacts
<1>3. t \in Int /\ u \in Int /\ e \in Nat /\ t = u - e
  <2>1. e \in Nat
    BY <1>1, EstimateOne
  <2>2. ASSUME NEW i \in 1..n
        PROVE  /\ Running(sizes)[i] \in Int /\ Running(sizes)[i - 1] \in Int
               /\ Running(sizes)[i] = Running(sizes)[i - 1] - Estimate(<<sizes[i]>>)
    <3>1. i \in 0..n /\ i - 1 \in 0..n
      OBVIOUS
    <3>2. Running(sizes)[i] \in Int /\ Running(sizes)[i - 1] \in Int
      BY <3>1, RunningFacts
    <3>3. Running(sizes)[i] = Running(sizes)[i - 1] - Estimate(<<sizes[i]>>)
      BY RunningFacts, Zenon
    <3> QED
      BY <3>2, <3>3
  <2>3. t \in Int /\ u \in Int /\ t = u - e
    BY <1>1, <2>2, Zenon
  <2> QED
    BY <2>1, <2>3
<1>4. 4 * t <= 3 * n
  BY NothingLeft
<1>5. CASE n = 1
  <2>1. u = Estimate(sizes)
    BY <1>5, RunningFacts
  <2>2. u > max
    BY <2>1
  <2> HIDE DEF n, t, u, e
  <2>3. 10 * (e + n) > 7 * max
    BY <1>1, <1>3, <1>4, <2>2
  <2> QED
    BY <2>3 DEF n, e
<1>6. CASE n # 1
  <2>1. n - 1 \in 1..(n - 1)
    BY <1>1, <1>6
  <2>2. ~ (u <= target)
    BY <1>2, <2>1, SplitFacts
  <2> HIDE DEF n, t, u, e
  <2>3. 10 * (e + n) > 7 * max
    BY <1>1, <1>2, <1>3, <1>4, <2>2
  <2> QED
    BY <2>3 DEF n, e
<1> QED
  BY <1>5, <1>6

(***************************************************************************)
(* A list of few messages, compared with the budget, always has a point    *)
(* where the loop stops, and what is left there is within 70% of the       *)
(* budget.                                                                 *)
(***************************************************************************)
LEMMA RestFits ==
  ASSUME NEW sizes \in Seq(Nat), Len(sizes) # 0, NEW max \in Nat, NEW target \in Targets(max),
         max >= 8, 33 * Len(sizes) <= 4 * max + 102
  PROVE  LET k == SplitIdx(sizes, target)
         IN  /\ k \in 1..Len(sizes)
             /\ 10 * Running(sizes)[k] <= 7 * max
<1> DEFINE n == Len(sizes)
           k == SplitIdx(sizes, target)
           last == Running(sizes)[n]
           at == Running(sizes)[k]
<1>1. n \in Nat /\ n \in 0..n
  OBVIOUS
<1>2. target \in Int /\ 10 * target <= 7 * max /\ 7 * max <= 10 * (target + 1)
  BY TargetFacts
<1>3. last \in Int /\ 4 * last <= 3 * n
  BY <1>1, NothingLeft, RunningFacts
<1>4. last <= target
  <2> HIDE DEF n, last
  <2>1. 33 * n <= 4 * max + 102
    BY DEF n
  <2> QED
    BY <1>1, <1>2, <1>3, <2>1
<1>5. k \in 1..n /\ at <= target
  BY <1>2, <1>4, SplitFacts
<1>6. at \in Int
  BY <1>1, <1>5, RunningFacts
<1> HIDE DEF at, k, n
<1>7. 10 * at <= 7 * max
  BY <1>2, <1>5, <1>6
<1> QED
  BY <1>5, <1>7 DEF at, k, n

-----------------------------------------------------------------------------
(* Lists of messages. *)

LEMMA SizesFacts ==
  ASSUME NEW l \in Seq(Message)
  PROVE  /\ SizesOf(l) \in Seq(Nat)
         /\ Len(SizesOf(l)) = Len(l)
         /\ \A i \in 1..Len(l) : SizesOf(l)[i] = l[i].size /\ Overhead <= SizesOf(l)[i]
<1>1. \A m \in Message : m.size \in Nat /\ Overhead <= m.size
  <2>1. \A s \in Sizes : s \in Nat /\ Overhead <= s
    BY ConversationAssumption DEF Overhead
  <2>2. \A s \in SummarySizes : s \in Nat /\ Overhead <= s
    BY ConversationAssumption DEF Overhead, Heading
  <2>3. \A m \in Message : m.size \in Sizes \cup SummarySizes
    BY DEF Message
  <2> QED
    BY <2>1, <2>2, <2>3
<1>2. \A i \in 1..Len(l) : l[i].size \in Nat /\ Overhead <= l[i].size
  BY <1>1
<1>3. SizesOf(l) \in Seq(Nat)
  BY <1>2 DEF SizesOf
<1>4. Len(SizesOf(l)) = Len(l) /\ \A i \in 1..Len(l) : SizesOf(l)[i] = l[i].size
  BY <1>3 DEF SizesOf
<1> QED
  BY <1>2, <1>3, <1>4

(***************************************************************************)
(* The parts of a list.                                                    *)
(***************************************************************************)
LEMMA SplitParts ==
  ASSUME NEW S, NEW l \in Seq(S), NEW k \in 0..Len(l)
  PROVE  LET a == SubSeq(l, 1, k)  b == SubSeq(l, k + 1, Len(l))
         IN  /\ a \in Seq(S) /\ b \in Seq(S)
             /\ Len(b) = Len(l) - k
             /\ \A i \in 1..Len(b) : b[i] = l[k + i]
             /\ Range(a) \subseteq S
             /\ Range(l) \subseteq Range(a) \cup Range(b)
<1> DEFINE a == SubSeq(l, 1, k)
           b == SubSeq(l, k + 1, Len(l))
<1>0. Len(l) \in Nat /\ DOMAIN l = 1..Len(l) /\ \A i \in 1..Len(l) : l[i] \in S
  OBVIOUS
<1>1. a \in Seq(S) /\ Len(a) = k /\ \A i \in 1..k : a[i] = l[i]
  BY <1>0, SubSeqProperties
<1>2. b \in Seq(S) /\ Len(b) = Len(l) - k /\ \A i \in 1..(Len(l) - k) : b[i] = l[k + i]
  <2>1. k + 1 \in 1..(Len(l) + 1) /\ Len(l) \in k..Len(l)
    BY <1>0
  <2>2. /\ b \in Seq(S) /\ Len(b) = Len(l) - (k + 1) + 1
        /\ \A i \in 1..(Len(l) - (k + 1) + 1) : b[i] = l[(k + 1) + i - 1]
    BY <2>1, SubSeqProperties
  <2> HIDE DEF b
  <2> QED
    BY <1>0, <2>2
<1>3. DOMAIN a = 1..k /\ DOMAIN b = 1..(Len(l) - k)
  BY <1>1, <1>2
<1> HIDE DEF a, b
<1>4. Range(a) \subseteq S
  BY <1>1, <1>3 DEF Range
<1>5. ASSUME NEW i \in 1..Len(l) PROVE l[i] \in Range(a) \cup Range(b)
  <2>1. CASE i <= k
    BY <1>0, <1>1, <1>3, <2>1 DEF Range
  <2>2. CASE i > k
    <3>1. i - k \in 1..(Len(l) - k) /\ k + (i - k) = i
      BY <1>0, <2>2
    <3> QED
      BY <1>2, <1>3, <3>1 DEF Range
  <2> QED
    BY <1>0, <2>1, <2>2
<1>6. Range(l) \subseteq Range(a) \cup Range(b)
  BY <1>0, <1>5 DEF Range
<1> QED
  BY <1>1, <1>2, <1>4, <1>6 DEF a, b

LEMMA AppendFacts ==
  ASSUME NEW S, NEW l \in Seq(S), NEW e \in S
  PROVE  /\ Append(l, e) \in Seq(S)
         /\ Append(l, e) # <<>>
         /\ Len(Append(l, e)) = Len(l) + 1
         /\ \A i \in 1..Len(l) : Append(l, e)[i] = l[i]
         /\ Append(l, e)[Len(l) + 1] = e
         /\ Range(Append(l, e)) = Range(l) \cup {e}
<1> DEFINE r == Append(l, e)
<1>1. /\ r \in Seq(S) /\ r # <<>>
      /\ Len(r) = Len(l) + 1
      /\ \A i \in 1..Len(l) : r[i] = l[i]
      /\ r[Len(l) + 1] = e
  BY AppendProperties
<1>2. Len(l) \in Nat /\ DOMAIN l = 1..Len(l) /\ DOMAIN r = 1..(Len(l) + 1)
  BY <1>1
<1> HIDE DEF r
<1>3. Range(r) = Range(l) \cup {e}
  BY <1>1, <1>2 DEF Range
<1> QED
  BY <1>1, <1>3 DEF r

LEMMA PrependFacts ==
  ASSUME NEW S, NEW l \in Seq(S), NEW e \in S
  PROVE  LET r == <<e>> \o l
         IN  /\ r \in Seq(S)
             /\ r # <<>>
             /\ Len(r) = Len(l) + 1
             /\ r[1] = e
             /\ \A i \in 1..Len(l) : r[i + 1] = l[i]
             /\ Range(l) \subseteq Range(r)
<1> DEFINE r == <<e>> \o l
<1>1. <<e>> \in Seq(S) /\ Len(<<e>>) = 1 /\ <<e>>[1] = e
  OBVIOUS
<1>2. /\ r \in Seq(S)
      /\ Len(r) = 1 + Len(l)
      /\ \A i \in 1..(1 + Len(l)) : r[i] = IF i <= 1 THEN <<e>>[i] ELSE l[i - 1]
  BY <1>1, ConcatProperties
<1>3. Len(l) \in Nat /\ DOMAIN l = 1..Len(l) /\ DOMAIN r = 1..(Len(l) + 1)
  BY <1>2
<1> HIDE DEF r
<1>4. r[1] = e
  BY <1>1, <1>2, <1>3
<1>5. \A i \in 1..Len(l) : r[i + 1] = l[i]
  <2> TAKE i \in 1..Len(l)
  <2>1. i + 1 \in 1..(1 + Len(l)) /\ ~ (i + 1 <= 1) /\ (i + 1) - 1 = i
    BY <1>3
  <2> QED
    BY <1>2, <2>1
<1>6. Range(l) \subseteq Range(r)
  BY <1>3, <1>5 DEF Range
<1>7. r # <<>>
  BY <1>2, <1>3
<1> QED
  BY <1>2, <1>3, <1>4, <1>5, <1>6, <1>7 DEF r

-----------------------------------------------------------------------------
(* The invariant. *)

\* Once a request has arrived the list has a message.
NonEmpty == \A r \in Requests : phase[r] # "unsent" => messages # <<>>

TypeInv == TypeOK /\ NonEmpty

Mine(r, m) == m.role = "user" /\ m.of = r

\* The list is the end of the log l, but for the first split entries.
Verbatim(list, l, split) ==
  /\ split <= Len(list)
  /\ split = 1 => list[1].role = "summary"
  /\ Len(list) - split <= Len(l)
  /\ \A i \in (split + 1)..Len(list) : list[i] = l[Len(l) - Len(list) + i]

OneAtATime == \A q, r \in Requests : Ended(q) \/ Ended(r) \/ q = r

\* While the summary is made, what was folded and what is kept make up the
\* list, the summary to incorporate is still the session's, and the request's
\* own message is in one of the two parts.
WhileSummarizing ==
  \A r \in Requests : phase[r] = "summarizing" =>
    /\ Range(messages) \subseteq folded[r] \cup Range(kept[r])
    /\ existing[r] = summary
    /\ Verbatim(kept[r], log, 0)
    /\ IF kept[r] = <<>> THEN Asks(r, folded[r]) ELSE Mine(r, kept[r][Len(kept[r])])

\* What the turn of a request will be given.
WhenReady ==
  \A r \in Requests : phase[r] = "ready" =>
    LET last == messages[Len(messages)]
    IN  /\ last.of = r
        /\ \/ last.role = "user"
           \/ last.role = "summary" /\ kept[r] = <<>> /\ Asks(r, folded[r])

NotYetPrompted ==
  \A r \in Requests : phase[r] \in {"unsent", "summarizing", "ready"} => prompt[r] = NoPrompt

ConversationInv ==
  /\ TypeInv /\ OneAtATime /\ WhileSummarizing /\ WhenReady /\ NotYetPrompted
  /\ NothingLost /\ PromptIsOwn
  /\ \E split \in 0..1 : Verbatim(messages, log, split)

-----------------------------------------------------------------------------
(* The steps. *)

\* The message a request brings, and the reply.
Question(r, size) == [role |-> "user", of |-> r, size |-> size]
Reply(r, size)    == [role |-> "assistant", of |-> r, size |-> size]
Summary(r, size)  == [role |-> "summary", of |-> r, size |-> size]

LEMMA NewMessages ==
  ASSUME NEW r \in Requests, NEW size
  PROVE  /\ size \in Sizes => Question(r, size) \in Message /\ Reply(r, size) \in Message
         /\ size \in SummarySizes => Summary(r, size) \in Message
         /\ Mine(r, Question(r, size))
         /\ Summary(r, size).role = "summary" /\ Summary(r, size).of = r
  BY ConversationAssumption DEF Question, Reply, Summary, Message, Mine

\* An arriving request is ready at once, or folds the first k messages, k > 0,
\* because the list is over budget and the loop stopped there.
Folds(r, l, k) ==
  /\ phase' = [phase EXCEPT ![r] = "summarizing"]
  /\ kept' = [kept EXCEPT ![r] = SubSeq(l, k + 1, Len(l))]
  /\ folded' = [folded EXCEPT ![r] = Range(SubSeq(l, 1, k))]
  /\ existing' = [existing EXCEPT ![r] = summary]

SplitsAt(l, k) ==
  OverBudget(l) /\ \E target \in Targets(MaxTokens) : k = SplitIdx(SizesOf(l), target)

LEMMA SendSplits ==
  ASSUME NEW r \in Requests, NEW size \in Sizes, TypeOK, Send(r, size)
  PROVE  LET l == Append(messages, Question(r, size))
         IN  /\ messages' = l
             /\ log' = Append(log, Question(r, size))
             /\ \/ /\ ~OverBudget(l) \/ SplitsAt(l, 0)
                   /\ phase' = [phase EXCEPT ![r] = "ready"] /\ UNCHANGED compactionVars
                \/ \E k \in 1..Len(l) : SplitsAt(l, k) /\ Folds(r, l, k)
<1> DEFINE l == Append(messages, Question(r, size))
           Ready == phase' = [phase EXCEPT ![r] = "ready"] /\ UNCHANGED compactionVars
<1>1. messages' = l /\ log' = Append(log, Question(r, size))
  BY DEF Send, Question
<1>2. \/ OverBudget(l) /\ StartCompaction(r, l)
      \/ ~OverBudget(l) /\ Ready
  BY DEF Send, Question
<1>3. l \in Seq(Message) /\ Len(l) \in Nat \ {0}
  BY NewMessages, AppendFacts DEF TypeOK
<1> HIDE DEF l
<1>4. ASSUME NEW target \in Targets(MaxTokens), SplitIdx(SizesOf(l), target) # 0
      PROVE  SplitIdx(SizesOf(l), target) \in 1..Len(l)
  <2>1. target \in Int
    BY ConversationAssumption, TargetFacts
  <2>2. SizesOf(l) \in Seq(Nat) /\ Len(SizesOf(l)) = Len(l)
    BY <1>3, SizesFacts
  <2>3. SplitIdx(SizesOf(l), target) \in 0..Len(l)
    BY <1>3, <2>1, <2>2, SplitFacts
  <2> QED
    BY <1>3, <1>4, <2>3
<1>5. ASSUME OverBudget(l), StartCompaction(r, l)
      PROVE  \/ SplitsAt(l, 0) /\ Ready
             \/ \E k \in 1..Len(l) : SplitsAt(l, k) /\ Folds(r, l, k)
  <2>1. PICK target \in Targets(MaxTokens) :
          LET split == SplitIdx(SizesOf(l), target) IN
            IF split = 0 THEN Ready ELSE Folds(r, l, split)
    BY <1>5 DEF StartCompaction, Folds
  <2> DEFINE split == SplitIdx(SizesOf(l), target)
  <2>2. SplitsAt(l, split)
    BY <1>5 DEF SplitsAt
  <2>3. split # 0 => split \in 1..Len(l)
    BY <1>4
  <2> HIDE DEF split, Ready
  <2>4. IF split = 0 THEN Ready ELSE Folds(r, l, split)
    BY <2>1 DEF split
  <2> QED
    BY <2>2, <2>3, <2>4
<1> QED
  BY <1>1, <1>2, <1>5 DEF l

LEMMA TypeInit == Init => TypeInv
  BY DEF Init, TypeInv, TypeOK, NonEmpty, Phases

LEMMA SendTypes ==
  ASSUME NEW r \in Requests, NEW size \in Sizes, TypeInv, Send(r, size)
  PROVE  TypeInv'
<1> DEFINE l == Append(messages, Question(r, size))
<1>0. TypeOK
  BY DEF TypeInv
<1>1. l \in Seq(Message) /\ l # <<>> /\ Append(log, Question(r, size)) \in Seq(Message)
  BY <1>0, NewMessages, AppendFacts DEF TypeOK
<1> HIDE DEF l
<1>2. /\ messages' = l /\ log' = Append(log, Question(r, size))
      /\ \/ phase' = [phase EXCEPT ![r] = "ready"] /\ UNCHANGED compactionVars
         \/ \E k \in 1..Len(l) : Folds(r, l, k)
  BY <1>0, SendSplits DEF l
<1>3. UNCHANGED <<prompt, summary, truncated>>
  BY DEF Send
<1>4. ASSUME NEW k \in 1..Len(l)
      PROVE  SubSeq(l, k + 1, Len(l)) \in Seq(Message) /\ Range(SubSeq(l, 1, k)) \subseteq Message
  BY <1>1, SplitParts
<1>5. /\ kept' \in [Requests -> Seq(Message)] /\ folded' \in [Requests -> SUBSET Message]
      /\ existing' \in [Requests -> SUBSET Message]
  BY <1>0, <1>2, <1>4 DEF TypeOK, Folds, compactionVars
<1>6. phase' \in [Requests -> Phases]
  BY <1>0, <1>2 DEF TypeOK, Phases, Folds
<1> QED
  BY <1>0, <1>1, <1>2, <1>3, <1>5, <1>6 DEF TypeInv, TypeOK, NonEmpty

LEMMA TypeStep == TypeInv /\ [Next]_vars => TypeInv'
<1> SUFFICES ASSUME TypeInv, [Next]_vars PROVE TypeInv'
  OBVIOUS
<1>0. TypeOK /\ NonEmpty
  BY DEF TypeInv
<1>1. ASSUME NEW r \in Requests, NEW size \in Sizes, Send(r, size) PROVE TypeInv'
  BY <1>1, SendTypes
<1>2. ASSUME NEW r \in Requests, NEW size \in SummarySizes, Summarized(r, size) PROVE TypeInv'
  <2>1. messages' = <<Summary(r, size)>> \o kept[r]
    BY <1>2 DEF Summarized, Summary
  <2>2. messages' \in Seq(Message) /\ messages' # <<>>
    <3>1. kept[r] \in Seq(Message)
      BY <1>0 DEF TypeOK
    <3>2. Summary(r, size) \in Message
      BY NewMessages
    <3> QED
      BY <2>1, <3>1, <3>2, PrependFacts
  <2>3. summary' \subseteq Message /\ truncated' \subseteq Message
    BY <1>0, <1>2 DEF Summarized, NewSummary, TypeOK
  <2> QED
    BY <1>0, <1>2, <2>2, <2>3
       DEF Summarized, compactionVars, TypeInv, TypeOK, NonEmpty, Phases
<1>3. ASSUME NEW r \in Requests, Begin(r) PROVE TypeInv'
  <2>1. messages[Len(messages)] \in Message
    BY <1>0, <1>3 DEF Begin, TypeOK, NonEmpty
  <2> QED
    BY <1>0, <1>3, <2>1 DEF Begin, compactionVars, TypeInv, TypeOK, NonEmpty, Phases
<1>4. ASSUME NEW r \in Requests, NEW size \in Sizes, Complete(r, size) PROVE TypeInv'
  <2>1. messages' = Append(messages, Reply(r, size)) /\ log' = Append(log, Reply(r, size))
    BY <1>4 DEF Complete, Reply
  <2>2. messages' \in Seq(Message) /\ messages' # <<>> /\ log' \in Seq(Message)
    <3>1. messages \in Seq(Message) /\ log \in Seq(Message)
      BY <1>0 DEF TypeOK
    <3>2. Reply(r, size) \in Message
      BY NewMessages
    <3> QED
      BY <2>1, <3>1, <3>2, AppendFacts
  <2> QED
    BY <1>0, <1>4, <2>2 DEF Complete, compactionVars, TypeInv, TypeOK, NonEmpty, Phases
<1>5. ASSUME NEW r \in Requests, Fail(r) PROVE TypeInv'
  BY <1>0, <1>5 DEF Fail, compactionVars, TypeInv, TypeOK, NonEmpty, Phases
<1>6. CASE UNCHANGED vars
  BY <1>0, <1>6 DEF vars, compactionVars, TypeInv, TypeOK, NonEmpty
<1> QED
  BY <1>1, <1>2, <1>3, <1>4, <1>5, <1>6 DEF Next

(***************************************************************************)
(* The history keeps its types, also when requests overlap: in particular  *)
(* a turn never finds an empty list.                                       *)
(***************************************************************************)
THEOREM ConversationTypeOK == Spec => []TypeOK
<1>1. TypeInv => TypeOK
  BY DEF TypeInv
<1> QED
  BY <1>1, TypeInit, TypeStep, PTL DEF Spec

(***************************************************************************)
(* What happens to a list that is the end of the log.                      *)
(***************************************************************************)
LEMMA VerbatimAppend ==
  ASSUME NEW list \in Seq(Message), NEW l \in Seq(Message), NEW m \in Message,
         NEW split \in 0..1, Verbatim(list, l, split)
  PROVE  Verbatim(Append(list, m), Append(l, m), split)
<1> DEFINE a == Append(list, m)
           b == Append(l, m)
<1>1. /\ Len(list) \in Nat /\ Len(a) = Len(list) + 1
      /\ (\A i \in 1..Len(list) : a[i] = list[i]) /\ a[Len(list) + 1] = m
  BY AppendFacts
<1>2. /\ Len(l) \in Nat /\ Len(b) = Len(l) + 1
      /\ (\A i \in 1..Len(l) : b[i] = l[i]) /\ b[Len(l) + 1] = m
  BY AppendFacts
<1> HIDE DEF a, b
<1>3. /\ split <= Len(list)
      /\ split = 1 => list[1].role = "summary"
      /\ Len(list) - split <= Len(l)
      /\ \A i \in (split + 1)..Len(list) : list[i] = l[Len(l) - Len(list) + i]
  BY DEF Verbatim
<1>4. ASSUME NEW i \in (split + 1)..Len(a) PROVE a[i] = b[Len(b) - Len(a) + i]
  <2>1. CASE i = Len(list) + 1
    BY <1>1, <1>2, <2>1
  <2>2. CASE i \in (split + 1)..Len(list)
    <3>1. Len(b) - Len(a) + i = Len(l) - Len(list) + i /\ Len(l) - Len(list) + i \in 1..Len(l)
      BY <1>1, <1>2, <1>3, <2>2
    <3>2. i \in 1..Len(list)
      BY <2>2
    <3> QED
      BY <1>1, <1>2, <1>3, <2>2, <3>1, <3>2
  <2> QED
    BY <1>1, <2>1, <2>2
<1>5. split = 1 => a[1].role = "summary"
  BY <1>1, <1>3
<1>6. split <= Len(a) /\ Len(a) - split <= Len(b)
  BY <1>1, <1>2, <1>3
<1>7. Verbatim(a, b, split)
  BY <1>4, <1>5, <1>6 DEF Verbatim
<1> QED
  BY <1>7 DEF a, b

LEMMA VerbatimKept ==
  ASSUME NEW list \in Seq(Message), NEW l \in Seq(Message), NEW k \in 1..Len(list),
         NEW split \in 0..1, Verbatim(list, l, split)
  PROVE  Verbatim(SubSeq(list, k + 1, Len(list)), l, 0)
<1> DEFINE b == SubSeq(list, k + 1, Len(list))
<1>1. Len(b) = Len(list) - k /\ \A i \in 1..Len(b) : b[i] = list[k + i]
  BY SplitParts
<1>2. Len(list) \in Nat /\ Len(l) \in Nat
  OBVIOUS
<1> HIDE DEF b
<1>3. ASSUME NEW i \in 1..Len(b) PROVE b[i] = l[Len(l) - Len(b) + i]
  <2>1. k + i \in (split + 1)..Len(list) /\ Len(l) - Len(list) + (k + i) = Len(l) - Len(b) + i
    BY <1>1, <1>2
  <2> QED
    BY <1>1, <2>1 DEF Verbatim
<1>4. 0 <= Len(b) /\ Len(b) - 0 <= Len(l)
  BY <1>1, <1>2 DEF Verbatim
<1>5. Verbatim(b, l, 0)
  BY <1>3, <1>4 DEF Verbatim
<1> QED
  BY <1>5 DEF b

LEMMA VerbatimSummary ==
  ASSUME NEW list \in Seq(Message), NEW l \in Seq(Message), NEW s \in Message,
         s.role = "summary", Verbatim(list, l, 0)
  PROVE  Verbatim(<<s>> \o list, l, 1)
<1> DEFINE a == <<s>> \o list
<1>1. Len(a) = Len(list) + 1 /\ a[1] = s /\ \A i \in 1..Len(list) : a[i + 1] = list[i]
  BY PrependFacts
<1>2. Len(list) \in Nat /\ Len(l) \in Nat
  OBVIOUS
<1> HIDE DEF a
<1>3. ASSUME NEW i \in 2..Len(a) PROVE a[i] = l[Len(l) - Len(a) + i]
  <2>1. i - 1 \in 1..Len(list) /\ (i - 1) + 1 = i
    BY <1>1, <1>2
  <2>2. a[i] = list[i - 1]
    BY <1>1, <2>1
  <2>3. list[i - 1] = l[Len(l) - Len(list) + (i - 1)]
    BY <2>1 DEF Verbatim
  <2>4. Len(l) - Len(list) + (i - 1) = Len(l) - Len(a) + i
    BY <1>1, <1>2
  <2> QED
    BY <2>2, <2>3, <2>4
<1>4. 1 <= Len(a) /\ Len(a) - 1 <= Len(l)
  BY <1>1, <1>2 DEF Verbatim
<1> QED
  BY <1>1, <1>3, <1>4 DEF Verbatim, a

LEMMA VerbatimIsRecent ==
  ASSUME TypeOK, NEW split \in 0..1, Verbatim(messages, log, split)
  PROVE  RecentVerbatim
<1> DEFINE n == Len(messages) - split
           recent == SubSeq(messages, split + 1, Len(messages))
           end == SubSeq(log, Len(log) - n + 1, Len(log))
<1>1. /\ messages \in Seq(Message) /\ log \in Seq(Message)
      /\ Len(messages) \in Nat /\ Len(log) \in Nat
      /\ n \in 0..Len(log) /\ split \in 0..Len(messages)
  BY DEF TypeOK, Verbatim
<1>2. /\ recent \in Seq(Message) /\ Len(recent) = n
      /\ \A i \in 1..Len(recent) : recent[i] = messages[split + i]
  BY <1>1, SplitParts
<1>3. /\ Len(log) - n \in 0..Len(log)
      /\ Len(log) - (Len(log) - n) = n
  BY <1>1
<1>4. /\ end \in Seq(Message) /\ Len(end) = n
      /\ \A i \in 1..Len(end) : end[i] = log[(Len(log) - n) + i]
  <2> HIDE DEF n
  <2> QED
    BY <1>1, <1>3, SplitParts
<1>5. ASSUME NEW i \in 1..n PROVE recent[i] = end[i]
  <2>1. split + i \in (split + 1)..Len(messages)
        /\ Len(log) - Len(messages) + (split + i) = (Len(log) - n) + i
    BY <1>1
  <2>2. messages[split + i] = log[(Len(log) - n) + i]
    BY <2>1 DEF Verbatim
  <2> HIDE DEF n, recent, end
  <2> QED
    BY <1>2, <1>4, <2>2
<1>6. recent = end
  <2> HIDE DEF n, recent, end
  <2> QED
    BY <1>2, <1>4, <1>5, SeqEqual
<1>7. Len(recent) <= Len(log) /\ recent = SubSeq(log, Len(log) - Len(recent) + 1, Len(log))
  <2>1. Len(recent) = n /\ Len(recent) <= Len(log)
    BY <1>1, <1>2
  <2>2. recent = SubSeq(log, Len(log) - n + 1, Len(log))
    BY <1>6
  <2> HIDE DEF n, recent, end
  <2> QED
    BY <2>1, <2>2
<1> QED
  BY <1>7 DEF Verbatim, RecentVerbatim

(***************************************************************************)
(* The invariant is kept, step by step, when requests do not overlap.      *)
(***************************************************************************)
LEMMA InvInit == Init => ConversationInv
<1> SUFFICES ASSUME Init PROVE ConversationInv
  OBVIOUS
<1>1. Verbatim(messages, log, 0)
  BY DEF Init, Verbatim
<1>2. NothingLost
  BY DEF Init, NothingLost, Range
<1> QED
  BY <1>1, <1>2, TypeInit
  DEF Init, ConversationInv, OneAtATime, WhileSummarizing, WhenReady, NotYetPrompted,
      PromptIsOwn, Ended

LEMMA SendKeeps ==
  ASSUME NEW r \in Requests, NEW size \in Sizes, ~Overlap, ConversationInv, Send(r, size)
  PROVE  ConversationInv'
<1> DEFINE mine == Question(r, size)
           l == Append(messages, mine)
<1>0. TypeOK /\ mine \in Message /\ Mine(r, mine)
  BY NewMessages DEF ConversationInv, TypeInv
<1> HIDE DEF mine
<1>1. /\ l \in Seq(Message) /\ Len(l) = Len(messages) + 1 /\ l[Len(l)] = mine
      /\ Range(l) = Range(messages) \cup {mine}
      /\ Range(Append(log, mine)) = Range(log) \cup {mine}
  BY <1>0, AppendFacts DEF TypeOK
<1>2. PICK split \in 0..1 : Verbatim(messages, log, split)
  BY DEF ConversationInv
<1>3. Verbatim(l, Append(log, mine), split)
  BY <1>0, <1>2, VerbatimAppend DEF TypeOK
<1> HIDE DEF l
<1>4. /\ messages' = l /\ log' = Append(log, mine)
      /\ \/ phase' = [phase EXCEPT ![r] = "ready"] /\ UNCHANGED <<kept, folded, existing>>
         \/ \E k \in 1..Len(l) : Folds(r, l, k)
  BY <1>0, SendSplits DEF l, mine, compactionVars
<1>5. /\ phase[r] = "unsent" /\ (\A q \in Requests : Ended(q))
      /\ UNCHANGED <<prompt, summary, truncated>>
      /\ prompt[r] = NoPrompt
  BY DEF Send, ConversationInv, NotYetPrompted
<1>6. TypeInv'
  BY SendTypes DEF ConversationInv
<1>7. /\ \A q \in Requests \ {r} : /\ phase'[q] = phase[q] /\ kept'[q] = kept[q]
                                  /\ folded'[q] = folded[q]
      /\ phase'[r] \in {"ready", "summarizing"}
  BY <1>0, <1>4 DEF Folds, TypeOK
<1>8. OneAtATime'
  BY <1>5, <1>7 DEF OneAtATime, Ended
<1>9. NothingLost'
  <2>1. Recalled \subseteq Recalled'
    BY <1>1, <1>4, <1>5 DEF Recalled
  <2> QED
    BY <1>1, <1>4, <1>5, <2>1 DEF ConversationInv, NothingLost
<1>10. \E s \in 0..1 : Verbatim(messages', log', s)
  BY <1>3, <1>4
<1>11. PromptIsOwn' /\ NotYetPrompted'
  BY <1>5, <1>7 DEF ConversationInv, PromptIsOwn, NotYetPrompted
<1>12. WhenReady'
  <2> SUFFICES ASSUME NEW q \in Requests, phase'[q] = "ready"
               PROVE  LET last == messages'[Len(messages')]
                      IN  last.of = q /\ last.role = "user"
    BY DEF WhenReady
  <2>1. q = r
    BY <1>5, <1>7 DEF Ended
  <2> QED
    BY <1>0, <1>1, <1>4, <2>1 DEF Mine
<1>13. WhileSummarizing'
  <2> SUFFICES ASSUME NEW q \in Requests, phase'[q] = "summarizing"
               PROVE  /\ Range(messages') \subseteq folded'[q] \cup Range(kept'[q])
                      /\ existing'[q] = summary'
                      /\ Verbatim(kept'[q], log', 0)
                      /\ IF kept'[q] = <<>> THEN Asks(q, folded'[q])
                         ELSE Mine(q, kept'[q][Len(kept'[q])])
    BY DEF WhileSummarizing
  <2>1. q = r
    BY <1>5, <1>7 DEF Ended
  <2>2. PICK k \in 1..Len(l) : Folds(r, l, k)
    BY <1>0, <1>4, <2>1 DEF TypeOK
  <2> DEFINE b == SubSeq(l, k + 1, Len(l))
  <2>3. kept'[r] = b /\ folded'[r] = Range(SubSeq(l, 1, k)) /\ existing'[r] = summary'
    BY <1>0, <1>5, <2>2 DEF Folds, TypeOK
  <2>4. /\ b \in Seq(Message) /\ Len(b) = Len(l) - k /\ (\A i \in 1..Len(b) : b[i] = l[k + i])
        /\ Range(l) \subseteq folded'[r] \cup Range(b)
    <3>1. k \in 0..Len(l)
      BY <1>1
    <3>2. /\ b \in Seq(Message) /\ Len(b) = Len(l) - k /\ (\A i \in 1..Len(b) : b[i] = l[k + i])
          /\ Range(l) \subseteq Range(SubSeq(l, 1, k)) \cup Range(b)
      BY <1>1, <3>1, SplitParts
    <3> QED
      BY <2>3, <3>2
  <2>5. Verbatim(b, log', 0)
    BY <1>0, <1>1, <1>3, <1>4, <1>6, VerbatimKept DEF TypeInv, TypeOK
  <2> HIDE DEF b
  <2>6. CASE b = <<>>
    <3>1. Range(b) = {}
      BY <2>6 DEF Range
    <3>2. mine \in folded'[r]
      BY <1>1, <2>4, <3>1
    <3> QED
      BY <1>0, <1>4, <2>1, <2>3, <2>4, <2>5, <2>6, <3>2 DEF Mine, Asks
  <2>7. CASE b # <<>>
    <3>1. Len(b) \in 1..Len(b) /\ k + Len(b) = Len(l)
      BY <1>1, <2>4, <2>7
    <3>2. b[Len(b)] = mine
      BY <1>1, <2>4, <3>1
    <3> QED
      BY <1>0, <1>4, <2>1, <2>3, <2>4, <2>5, <2>7, <3>2
  <2> QED
    BY <2>6, <2>7
<1> QED
  BY <1>6, <1>8, <1>9, <1>10, <1>11, <1>12, <1>13 DEF ConversationInv

LEMMA SummarizedKeeps ==
  ASSUME NEW r \in Requests, NEW size \in SummarySizes, ConversationInv, Summarized(r, size)
  PROVE  ConversationInv'
<1> DEFINE s == Summary(r, size)
           l == <<s>> \o kept[r]
<1>0. TypeOK /\ s \in Message /\ s.role = "summary" /\ s.of = r
  BY NewMessages DEF ConversationInv, TypeInv
<1> HIDE DEF s
<1>1. /\ kept[r] \in Seq(Message)
      /\ l \in Seq(Message) /\ Len(l) = Len(kept[r]) + 1 /\ l[1] = s
      /\ (\A i \in 1..Len(kept[r]) : l[i + 1] = kept[r][i])
      /\ Range(kept[r]) \subseteq Range(l)
  BY <1>0, PrependFacts DEF TypeOK
<1>2. phase[r] = "summarizing"
  BY DEF Summarized
<1>3. /\ Range(messages) \subseteq folded[r] \cup Range(kept[r])
      /\ existing[r] = summary
      /\ Verbatim(kept[r], log, 0)
      /\ IF kept[r] = <<>> THEN Asks(r, folded[r]) ELSE Mine(r, kept[r][Len(kept[r])])
  BY <1>2 DEF ConversationInv, WhileSummarizing
<1>4. Verbatim(l, log, 1)
  BY <1>0, <1>1, <1>3, VerbatimSummary DEF TypeOK
<1> HIDE DEF l
<1>5. /\ messages' = l /\ NewSummary(r)
      /\ phase' = [phase EXCEPT ![r] = "ready"]
      /\ UNCHANGED <<kept, folded, existing, prompt, log>>
  BY DEF Summarized, compactionVars, l, s, Summary
<1>6. TypeInv'
  <2>1. Next
    BY DEF Next
  <2> QED
    BY <2>1, TypeStep DEF ConversationInv
<1>7. \A q \in Requests \ {r} : phase'[q] = phase[q] /\ Ended(q)
  BY <1>0, <1>2, <1>5 DEF ConversationInv, OneAtATime, Ended, TypeOK
<1>8. phase'[r] = "ready"
  BY <1>0, <1>5 DEF TypeOK
<1>9. OneAtATime'
  BY <1>7 DEF OneAtATime, Ended
<1>10. WhileSummarizing'
  BY <1>7, <1>8 DEF WhileSummarizing, Ended
<1>11. NothingLost'
  <2>1. Recalled \subseteq existing[r]
    BY <1>3 DEF Recalled
  <2>2. Recalled' = summary'
    <3>1. s \in Range(messages')
      BY <1>1, <1>5 DEF Range
    <3> QED
      BY <1>0, <3>1 DEF Recalled
  <2>3. /\ existing[r] \subseteq summary' /\ truncated \subseteq truncated'
        /\ folded[r] \subseteq summary' \cup truncated'
    BY <1>3, <1>5 DEF NewSummary
  <2> QED
    BY <1>1, <1>3, <1>5, <2>1, <2>2, <2>3 DEF ConversationInv, NothingLost
<1>12. PromptIsOwn' /\ NotYetPrompted'
  BY <1>2, <1>5, <1>7, <1>8 DEF ConversationInv, PromptIsOwn, NotYetPrompted
<1>13. WhenReady'
  <2> SUFFICES LET last == l[Len(l)]
               IN  /\ last.of = r
                   /\ \/ last.role = "user"
                      \/ last.role = "summary" /\ kept[r] = <<>> /\ Asks(r, folded[r])
    BY <1>5, <1>7 DEF WhenReady, Ended
  <2>1. CASE kept[r] = <<>>
    BY <1>0, <1>1, <1>3, <2>1
  <2>2. CASE kept[r] # <<>>
    <3>1. Len(kept[r]) \in 1..Len(kept[r])
      BY <1>1, <2>2
    <3>2. l[Len(l)] = kept[r][Len(kept[r])]
      BY <1>1, <3>1
    <3> QED
      BY <1>3, <2>2, <3>2 DEF Mine
  <2> QED
    BY <2>1, <2>2
<1>14. \E split \in 0..1 : Verbatim(messages', log', split)
  BY <1>4, <1>5
<1> QED
  BY <1>6, <1>9, <1>10, <1>11, <1>12, <1>13, <1>14 DEF ConversationInv

LEMMA BeginKeeps ==
  ASSUME NEW r \in Requests, ConversationInv, Begin(r)
  PROVE  ConversationInv'
<1>0. TypeOK
  BY DEF ConversationInv, TypeInv
<1>1. /\ phase[r] = "ready" /\ phase' = [phase EXCEPT ![r] = "streaming"]
      /\ prompt' = [prompt EXCEPT ![r] = messages[Len(messages)]]
      /\ UNCHANGED <<messages, kept, folded, existing, log, summary, truncated>>
  BY DEF Begin, compactionVars
<1>2. TypeInv'
  BY TypeStep DEF ConversationInv, Next
<1>3. /\ \A q \in Requests \ {r} : phase'[q] = phase[q] /\ prompt'[q] = prompt[q]
      /\ phase'[r] = "streaming" /\ prompt'[r] = messages[Len(messages)]
  BY <1>0, <1>1 DEF TypeOK
<1>4. OneAtATime' /\ WhileSummarizing' /\ WhenReady' /\ NotYetPrompted'
  BY <1>1, <1>3
  DEF ConversationInv, OneAtATime, Ended, WhileSummarizing, WhenReady, NotYetPrompted
<1>5. PromptIsOwn'
  BY <1>1, <1>3 DEF ConversationInv, WhenReady, PromptIsOwn
<1>6. NothingLost' /\ \E split \in 0..1 : Verbatim(messages', log', split)
  BY <1>1 DEF ConversationInv, NothingLost, Recalled
<1> QED
  BY <1>2, <1>4, <1>5, <1>6 DEF ConversationInv

LEMMA CompleteKeeps ==
  ASSUME NEW r \in Requests, NEW size \in Sizes, ConversationInv, Complete(r, size)
  PROVE  ConversationInv'
<1> DEFINE reply == Reply(r, size)
<1>0. TypeOK /\ reply \in Message
  BY NewMessages DEF ConversationInv, TypeInv
<1>1. /\ phase[r] = "streaming" /\ phase' = [phase EXCEPT ![r] = "done"]
      /\ messages' = Append(messages, reply) /\ log' = Append(log, reply)
      /\ UNCHANGED <<kept, folded, existing, prompt, summary, truncated>>
  BY DEF Complete, compactionVars, Reply
<1> HIDE DEF reply
<1>2. TypeInv'
  BY TypeStep DEF ConversationInv, Next
<1>3. /\ \A q \in Requests \ {r} : phase'[q] = phase[q] /\ Ended(q)
      /\ phase'[r] = "done"
  BY <1>0, <1>1 DEF TypeOK, ConversationInv, OneAtATime, Ended
<1>4. OneAtATime' /\ WhileSummarizing' /\ WhenReady' /\ NotYetPrompted'
  BY <1>1, <1>3
  DEF ConversationInv, OneAtATime, Ended, WhileSummarizing, WhenReady, NotYetPrompted
<1>5. PromptIsOwn'
  BY <1>1 DEF ConversationInv, PromptIsOwn
<1>6. NothingLost'
  <2>1. /\ Range(messages') = Range(messages) \cup {reply}
        /\ Range(log') = Range(log) \cup {reply}
    BY <1>0, <1>1, AppendFacts DEF TypeOK
  <2>2. Recalled \subseteq Recalled'
    BY <1>1, <2>1 DEF Recalled
  <2> QED
    BY <1>1, <2>1, <2>2 DEF ConversationInv, NothingLost
<1>7. \E split \in 0..1 : Verbatim(messages', log', split)
  BY <1>0, <1>1, VerbatimAppend DEF TypeOK, ConversationInv
<1> QED
  BY <1>2, <1>4, <1>5, <1>6, <1>7 DEF ConversationInv

LEMMA FailKeeps ==
  ASSUME NEW r \in Requests, ConversationInv, Fail(r)
  PROVE  ConversationInv'
<1>0. TypeOK
  BY DEF ConversationInv, TypeInv
<1>1. /\ phase' = [phase EXCEPT ![r] = "failed"]
      /\ UNCHANGED <<messages, kept, folded, existing, prompt, log, summary, truncated>>
  BY DEF Fail, compactionVars
<1>2. TypeInv'
  BY TypeStep DEF ConversationInv, Next
<1>3. phase'[r] = "failed" /\ \A q \in Requests \ {r} : phase'[q] = phase[q]
  BY <1>0, <1>1 DEF TypeOK
<1>4. OneAtATime' /\ WhileSummarizing' /\ WhenReady' /\ NotYetPrompted'
  BY <1>1, <1>3
  DEF ConversationInv, OneAtATime, Ended, WhileSummarizing, WhenReady, NotYetPrompted
<1> QED
  BY <1>1, <1>2, <1>4 DEF ConversationInv, NothingLost, Recalled, PromptIsOwn

LEMMA InvStep == ~Overlap /\ ConversationInv /\ [Next]_vars => ConversationInv'
<1> SUFFICES ASSUME ~Overlap, ConversationInv, [Next]_vars PROVE ConversationInv'
  OBVIOUS
<1>1. CASE UNCHANGED vars
  <2>1. TypeInv'
    BY TypeStep DEF ConversationInv
  <2> QED
    BY <1>1, <2>1
    DEF vars, compactionVars, ConversationInv, OneAtATime, Ended, WhileSummarizing,
        WhenReady, NotYetPrompted, NothingLost, Recalled, PromptIsOwn
<1> QED
  BY <1>1, SendKeeps, SummarizedKeeps, BeginKeeps, CompleteKeeps, FailKeeps DEF Next

(***************************************************************************)
(* When a session's requests follow one another, every message is in the   *)
(* list or in what the list's summary was made from, wherever compaction   *)
(* splits and however often it summarises a summary, unless it was due to  *)
(* be folded when a summary call failed.                                   *)
(***************************************************************************)
THEOREM MessagesKept ==
  ASSUME ~Overlap
  PROVE  Spec => []NothingLost
<1>1. ConversationInv => NothingLost
  BY DEF ConversationInv
<1>2. ConversationInv /\ [Next]_vars => ConversationInv'
  BY InvStep
<1> QED
  BY <1>1, <1>2, InvInit, PTL DEF Spec

(***************************************************************************)
(* When a session's requests follow one another, the list is the end of    *)
(* the conversation as it happened, after at most one summary.             *)
(***************************************************************************)
THEOREM RecentKept ==
  ASSUME ~Overlap
  PROVE  Spec => []RecentVerbatim
<1>1. ConversationInv => RecentVerbatim
  BY VerbatimIsRecent DEF ConversationInv, TypeInv
<1>2. ConversationInv /\ [Next]_vars => ConversationInv'
  BY InvStep
<1> QED
  BY <1>1, <1>2, InvInit, PTL DEF Spec

(***************************************************************************)
(* When a session's requests follow one another, each turn sends the model *)
(* its own message or the summary message put in its place.                *)
(***************************************************************************)
THEOREM PromptsAreOwn ==
  ASSUME ~Overlap
  PROVE  Spec => []PromptIsOwn
<1>1. ConversationInv => PromptIsOwn
  BY DEF ConversationInv
<1>2. ConversationInv /\ [Next]_vars => ConversationInv'
  BY InvStep
<1> QED
  BY <1>1, <1>2, InvInit, PTL DEF Spec
-----------------------------------------------------------------------------
(* How much compaction keeps, when requests follow one another. *)

\* Only the arrival of a request starts a summary.
LEMMA SummaryStarts ==
  ASSUME ConversationInv, NEW r \in Requests,
         \/ \E size \in SummarySizes : Summarized(r, size)
         \/ Begin(r)
         \/ \E size \in Sizes : Complete(r, size)
         \/ Fail(r)
  PROVE  \A q \in Requests : phase'[q] # "summarizing"
<1>0. phase \in [Requests -> Phases]
  BY DEF ConversationInv, TypeInv, TypeOK
<1>1. ~ Ended(r) /\ \E p \in Phases \ {"summarizing"} : phase' = [phase EXCEPT ![r] = p]
  BY DEF Summarized, Begin, Complete, Fail, Ended, Phases
<1>2. phase'[r] # "summarizing" /\ \A q \in Requests \ {r} : phase'[q] = phase[q]
  BY <1>0, <1>1
<1>3. \A q \in Requests \ {r} : Ended(q)
  BY <1>1 DEF ConversationInv, OneAtATime
<1>4. \A q \in Requests \ {r} : phase'[q] # "summarizing"
  BY <1>2, <1>3 DEF Ended
<1> QED
  BY <1>2, <1>4

\* What an arriving request leaves: the list with its message, and, when a
\* summary starts, the rest from where the loop stopped.
LEMMA SendKeepsRest ==
  ASSUME NEW r \in Requests, NEW size \in Sizes, ~Overlap, ConversationInv, Send(r, size)
  PROVE  LET l == Append(messages, Question(r, size))
         IN  /\ l \in Seq(Message) /\ Len(l) = Len(messages) + 1 /\ messages' = l
             /\ \A q \in Requests : Ended(q)
             /\ \A q \in Requests \ {r} : phase'[q] = phase[q]
             /\ phase'[r] = "ready" => ~OverBudget(l) \/ SplitsAt(l, 0)
             /\ phase'[r] \in {"ready", "summarizing"}
             /\ phase'[r] = "summarizing" =>
                  \E k \in 1..Len(l) : SplitsAt(l, k) /\ kept'[r] = SubSeq(l, k + 1, Len(l))
<1> DEFINE l == Append(messages, Question(r, size))
<1>0. TypeOK
  BY DEF ConversationInv, TypeInv
<1>1. l \in Seq(Message) /\ Len(l) = Len(messages) + 1
  BY <1>0, NewMessages, AppendFacts DEF TypeOK
<1> HIDE DEF l
<1>2. /\ messages' = l
      /\ \/ /\ ~OverBudget(l) \/ SplitsAt(l, 0)
            /\ phase' = [phase EXCEPT ![r] = "ready"] /\ UNCHANGED compactionVars
         \/ \E k \in 1..Len(l) : SplitsAt(l, k) /\ Folds(r, l, k)
  BY <1>0, SendSplits DEF l
<1>3. \A q \in Requests : Ended(q)
  BY DEF Send
<1>4. CASE /\ ~OverBudget(l) \/ SplitsAt(l, 0)
           /\ phase' = [phase EXCEPT ![r] = "ready"]
  <2>1. phase'[r] = "ready" /\ \A q \in Requests \ {r} : phase'[q] = phase[q]
    BY <1>0, <1>4 DEF TypeOK
  <2> QED
    BY <1>1, <1>2, <1>3, <1>4, <2>1 DEF l
<1>5. CASE \E k \in 1..Len(l) : SplitsAt(l, k) /\ Folds(r, l, k)
  <2>1. PICK k \in 1..Len(l) : SplitsAt(l, k) /\ Folds(r, l, k)
    BY <1>5
  <2>2. phase'[r] = "summarizing" /\ \A q \in Requests \ {r} : phase'[q] = phase[q]
    BY <1>0, <2>1 DEF TypeOK, Folds
  <2>3. kept'[r] = SubSeq(l, k + 1, Len(l))
    BY <1>0, <2>1 DEF TypeOK, Folds
  <2> QED
    BY <1>1, <1>2, <1>3, <2>1, <2>2, <2>3 DEF l
<1> QED
  BY <1>2, <1>4, <1>5

LEMMA KeepsLastStep ==
  ASSUME ~Overlap, ConversationInv, KeepsLast, [Next]_vars
  PROVE  KeepsLast'
<1>1. ASSUME NEW r \in Requests, NEW size \in Sizes, Send(r, size) PROVE KeepsLast'
  <2> DEFINE l == Append(messages, Question(r, size))
             sizes == SizesOf(l)
             n == Len(l)
  <2>1. /\ l \in Seq(Message) /\ n = Len(messages) + 1 /\ messages' = l
        /\ \A q \in Requests : Ended(q)
        /\ \A q \in Requests \ {r} : phase'[q] = phase[q]
        /\ phase'[r] = "summarizing" =>
             \E k \in 1..n : SplitsAt(l, k) /\ kept'[r] = SubSeq(l, k + 1, n)
    BY <1>1, SendKeepsRest
  <2>2. messages \in Seq(Message)
    BY DEF ConversationInv, TypeInv, TypeOK
  <2> HIDE DEF l
  <2>3. n \in Nat \ {0}
    BY <2>1, <2>2
  <2> SUFFICES ASSUME NEW q \in Requests, phase'[q] = "summarizing", kept'[q] = <<>>
               PROVE  10 * (Estimate(<<l[n].size>>) + n) > 7 * MaxTokens
    <3>1. MaxTokens \in Nat /\ l[n] \in Message
      BY <2>1, <2>3, ConversationAssumption
    <3>2. Estimate(<<l[n].size>>) \in Nat
      <4>1. l[n].size \in Nat
        BY <3>1, ConversationAssumption DEF Message
      <4> QED
        BY <4>1, EstimateOne
    <3>3. \A q \in Requests : phase'[q] = "summarizing" /\ kept'[q] = <<>>
            => ~ (10 * (Estimate(<<l[n].size>>) + n) <= 7 * MaxTokens)
      BY <2>3, <3>1, <3>2
    <3> QED
      BY <2>1, <3>3 DEF KeepsLast
  <2>4. q = r
    BY <2>1 DEF Ended
  <2>5. PICK k \in 1..n : SplitsAt(l, k) /\ kept'[r] = SubSeq(l, k + 1, n)
    BY <2>1, <2>4
  <2>6. k = n
    <3>1. k \in 0..n
      BY <2>3
    <3>2. Len(SubSeq(l, k + 1, n)) = n - k
      BY <2>1, <3>1, SplitParts
    <3>3. n - k = 0
      BY <2>4, <2>5, <3>2
    <3> QED
      BY <2>3, <3>3
  <2>7. sizes \in Seq(Nat) /\ Len(sizes) = n /\ sizes[n] = l[n].size
    BY <2>1, <2>3, SizesFacts
  <2>8. Estimate(sizes) > MaxTokens /\ \E t \in Targets(MaxTokens) : SplitIdx(sizes, t) = n
    BY <2>5, <2>6 DEF SplitsAt, OverBudget
  <2> HIDE DEF sizes, n
  <2>9. 10 * (Estimate(<<sizes[n]>>) + n) > 7 * MaxTokens
    BY <2>3, <2>7, <2>8, LastGivenUp, ConversationAssumption
  <2> QED
    BY <2>7, <2>9
<1>2. ASSUME \A q \in Requests : phase'[q] # "summarizing" PROVE KeepsLast'
  BY <1>2 DEF KeepsLast
<1>3. CASE UNCHANGED vars
  BY <1>3 DEF vars, compactionVars, KeepsLast
<1> QED
  BY <1>1, <1>2, <1>3, SummaryStarts DEF Next

(***************************************************************************)
(* When a session's requests follow one another, compaction gives up the   *)
(* latest message only if that alone is too large for the target, by up to *)
(* a token for every message, for every budget.                            *)
(***************************************************************************)
THEOREM LatestKept ==
  ASSUME ~Overlap
  PROVE  Spec => []KeepsLast
<1>1. Init => KeepsLast
  BY DEF Init, KeepsLast
<1>2. ConversationInv /\ [Next]_vars => ConversationInv'
  BY InvStep
<1>3. ConversationInv /\ KeepsLast /\ [Next]_vars => KeepsLast'
  BY KeepsLastStep
<1> QED
  BY <1>1, <1>2, <1>3, InvInit, PTL DEF Spec

-----------------------------------------------------------------------------
(* What compaction keeps is within 70% of the budget.  For that the list   *)
(* must be short enough that the loop stops somewhere; each message and    *)
(* its comma take Overhead + 2 characters at least.                        *)

Room(list, slack) == (Overhead + 2) * Len(list) <= 4 * MaxTokens + slack

ShortList ==
  /\ Room(messages, 102)
  /\ (\A r \in Requests : phase[r] # "summarizing") => Room(messages, 69)
  /\ (\E r \in Requests : phase[r] \in {"ready", "streaming"}) => Room(messages, 36)
  /\ \A r \in Requests : phase[r] = "summarizing" =>
       (Overhead + 2) * Len(kept[r]) <= 4 * Estimate(SizesOf(kept[r])) + 3

LEMMA EstimateOfList ==
  ASSUME NEW l \in Seq(Message)
  PROVE  Estimate(SizesOf(l)) \in Nat /\ 33 * Len(l) <= 4 * Estimate(SizesOf(l)) + 3
<1> DEFINE sizes == SizesOf(l)
<1>1. /\ sizes \in Seq(Nat) /\ Len(sizes) = Len(l)
      /\ \A i \in 1..Len(sizes) : 31 <= sizes[i]
  BY SizesFacts DEF Overhead
<1> HIDE DEF sizes
<1>2. (31 + 2) * Len(sizes) <= 4 * Estimate(sizes) + 3
  BY <1>1, EstimateBoundsLength
<1>3. Estimate(sizes) \in Nat
  BY <1>1, EstimateFacts
<1> QED
  BY <1>1, <1>2, <1>3 DEF sizes

\* A budget that holds an empty message.
LEMMA LeastBudget ==
  ASSUME MaxTokens >= Estimate(<<Overhead>>)
  PROVE  MaxTokens \in Nat /\ MaxTokens >= 8
<1> DEFINE e == Estimate(<<Overhead>>)
<1>1. e \in Nat /\ 31 + 2 <= 4 * e + 3
  BY EstimateOne DEF Overhead
<1> HIDE DEF e
<1>2. e >= 8
  BY <1>1
<1> QED
  BY <1>1, <1>2, ConversationAssumption DEF e

LEMMA SendFits ==
  ASSUME NEW r \in Requests, NEW size \in Sizes, ~Overlap, MaxTokens >= Estimate(<<Overhead>>),
         ConversationInv, ShortList, Send(r, size)
  PROVE  ShortList' /\ RemainderFits'
<1> DEFINE l == Append(messages, Question(r, size))
           sizes == SizesOf(l)
           n == Len(l)
<1>0. MaxTokens \in Nat /\ MaxTokens >= 8
  BY LeastBudget
<1>1. /\ l \in Seq(Message) /\ n = Len(messages) + 1 /\ messages' = l
      /\ \A q \in Requests : Ended(q)
      /\ \A q \in Requests \ {r} : phase'[q] = phase[q]
      /\ phase'[r] = "ready" => ~OverBudget(l) \/ SplitsAt(l, 0)
      /\ phase'[r] \in {"ready", "summarizing"}
      /\ phase'[r] = "summarizing" =>
           \E k \in 1..n : SplitsAt(l, k) /\ kept'[r] = SubSeq(l, k + 1, n)
  BY SendKeepsRest
<1> HIDE DEF l
<1>2. \A q \in Requests \ {r} : Ended(q) /\ phase'[q] \in {"unsent", "done", "failed"}
  BY <1>1 DEF Ended
<1>3. Len(messages) \in Nat /\ n \in Nat \ {0}
  BY <1>1 DEF ConversationInv, TypeInv, TypeOK
<1>4. 33 * n <= 4 * MaxTokens + 102
  <2>1. \A q \in Requests : phase[q] # "summarizing"
    BY <1>1 DEF Ended
  <2>2. Room(messages, 69)
    BY <2>1 DEF ShortList
  <2>3. 33 * Len(messages) <= 4 * MaxTokens + 69
    BY <2>2 DEF Room, Overhead
  <2> HIDE DEF n
  <2> QED
    BY <1>0, <1>1, <1>3, <2>3
<1>5. sizes \in Seq(Nat) /\ Len(sizes) = n /\ \A i \in 1..n : sizes[i] = l[i].size
  BY <1>1, SizesFacts
<1>6. ASSUME NEW k \in Nat, SplitsAt(l, k)
      PROVE  k \in 1..n /\ 10 * Running(sizes)[k] <= 7 * MaxTokens
  <2>1. PICK target \in Targets(MaxTokens) : k = SplitIdx(sizes, target)
    BY <1>6 DEF SplitsAt
  <2> HIDE DEF sizes, n
  <2>2. /\ SplitIdx(sizes, target) \in 1..Len(sizes)
        /\ 10 * Running(sizes)[SplitIdx(sizes, target)] <= 7 * MaxTokens
    BY <1>0, <1>3, <1>4, <1>5, RestFits
  <2> QED
    BY <1>5, <2>1, <2>2
<1>7. CASE phase'[r] = "ready"
  <2>1. ~ SplitsAt(l, 0)
    BY <1>6
  <2>2. ~ (Estimate(sizes) > MaxTokens)
    BY <1>1, <1>7, <2>1 DEF OverBudget
  <2>3. Estimate(sizes) \in Nat /\ 33 * n <= 4 * Estimate(sizes) + 3
    BY <1>1, EstimateOfList
  <2> HIDE DEF sizes, n
  <2>4. 33 * n <= 4 * MaxTokens + 36 /\ 33 * n <= 4 * MaxTokens + 69
    BY <1>0, <1>3, <2>2, <2>3
  <2>5. Room(l, 36) /\ Room(l, 69) /\ Room(l, 102)
    BY <1>4, <2>4 DEF Room, Overhead, n
  <2>6. \A q \in Requests : phase'[q] # "summarizing"
    BY <1>2, <1>7
  <2> QED
    BY <1>1, <2>5, <2>6 DEF ShortList, RemainderFits, Room
<1>8. CASE phase'[r] = "summarizing"
  <2>1. PICK k \in 1..n : SplitsAt(l, k) /\ kept'[r] = SubSeq(l, k + 1, n)
    BY <1>1, <1>8
  <2> DEFINE b == SubSeq(l, k + 1, n)
             rest == SizesOf(b)
  <2>2. k \in Nat /\ k \in 0..n
    BY <1>3
  <2>3. b \in Seq(Message) /\ Len(b) = n - k /\ \A i \in 1..Len(b) : b[i] = l[k + i]
    BY <1>1, <2>2, SplitParts
  <2> HIDE DEF b
  <2>4. /\ rest \in Seq(Nat) /\ Len(rest) = Len(b)
        /\ \A i \in 1..Len(b) : rest[i] = b[i].size
    BY <2>3, SizesFacts
  <2>5. \A i \in 1..Len(rest) : rest[i] = sizes[k + i]
    <3>1. \A i \in 1..Len(rest) : k + i \in 1..n
      BY <1>3, <2>2, <2>3, <2>4
    <3> QED
      BY <1>5, <2>3, <2>4, <3>1
  <2> HIDE DEF rest, sizes, n
  <2>6. Estimate(rest) <= Running(sizes)[k]
    BY <1>5, <2>2, <2>3, <2>4, <2>5, RestBelowRunning
  <2>7. 10 * Running(sizes)[k] <= 7 * MaxTokens
    BY <1>6, <2>1, <2>2
  <2>8. Running(sizes)[k] \in Int /\ Estimate(rest) \in Nat
    BY <1>5, <2>2, <2>4, RunningFacts, EstimateFacts
  <2>9. 10 * Estimate(rest) <= 7 * MaxTokens
    BY <1>0, <2>6, <2>7, <2>8
  <2>10. (Overhead + 2) * Len(b) <= 4 * Estimate(rest) + 3
    BY <2>3, EstimateOfList DEF rest, Overhead
  <2>11. \A q \in Requests : phase'[q] = "summarizing" => q = r
    BY <1>2
  <2>12. Room(l, 102)
    BY <1>4 DEF Room, Overhead, n
  <2>13. \A q \in Requests : phase'[q] \notin {"ready", "streaming"}
    BY <1>2, <1>8
  <2>14. kept'[r] = b
    BY <2>1 DEF b, n
  <2>15. RemainderFits'
    BY <2>9, <2>11, <2>14 DEF RemainderFits, rest, SizesOf
  <2>16. \A q \in Requests : phase'[q] = "summarizing" =>
           (Overhead + 2) * Len(kept'[q]) <= 4 * Estimate(SizesOf(kept'[q])) + 3
    BY <2>10, <2>11, <2>14 DEF rest
  <2> QED
    BY <1>1, <1>8, <2>12, <2>13, <2>15, <2>16 DEF ShortList, Room, SizesOf
<1> QED
  BY <1>1, <1>7, <1>8

LEMMA FitsStep ==
  ASSUME ~Overlap, MaxTokens >= Estimate(<<Overhead>>),
         ConversationInv, ShortList, RemainderFits, [Next]_vars
  PROVE  ShortList' /\ RemainderFits'
<1>0. MaxTokens \in Nat /\ TypeOK /\ Len(messages) \in Nat
  BY LeastBudget DEF ConversationInv, TypeInv, TypeOK
<1>1. ASSUME NEW r \in Requests, NEW size \in Sizes, Send(r, size)
      PROVE  ShortList' /\ RemainderFits'
  BY <1>1, SendFits
<1>2. ASSUME \A q \in Requests : phase'[q] # "summarizing", Room(messages', 36)
      PROVE  ShortList' /\ RemainderFits'
  <2>1. Len(messages') \in Nat
    <3>1. TypeInv'
      BY TypeStep DEF ConversationInv
    <3> QED
      BY <3>1 DEF TypeInv, TypeOK
  <2>2. Room(messages', 69) /\ Room(messages', 102)
    BY <1>0, <1>2, <2>1 DEF Room, Overhead
  <2> QED
    BY <1>2, <2>2 DEF ShortList, RemainderFits, Room
<1>3. ASSUME NEW r \in Requests, NEW size \in SummarySizes, Summarized(r, size)
      PROVE  ShortList' /\ RemainderFits'
  <2> DEFINE est == Estimate(SizesOf(kept[r]))
             m == Len(kept[r])
  <2>1. kept[r] \in Seq(Message) /\ phase[r] = "summarizing"
        /\ messages' = <<Summary(r, size)>> \o kept[r]
    BY <1>0, <1>3 DEF Summarized, Summary, TypeOK
  <2>2. Len(messages') = m + 1
    BY <2>1, NewMessages, PrependFacts
  <2>3. est \in Nat /\ m \in Nat
    BY <2>1, EstimateOfList
  <2>4. 10 * est <= 7 * MaxTokens /\ 33 * m <= 4 * est + 3
    BY <2>1 DEF RemainderFits, ShortList, Overhead
  <2> HIDE DEF est, m
  <2>5. 33 * (m + 1) <= 4 * MaxTokens + 36
    BY <1>0, <2>3, <2>4
  <2>6. Room(messages', 36)
    BY <2>2, <2>5 DEF Room, Overhead
  <2> QED
    BY <1>2, <1>3, <2>6, SummaryStarts
<1>4. ASSUME NEW r \in Requests, Begin(r) PROVE ShortList' /\ RemainderFits'
  <2>1. Room(messages, 36) /\ messages' = messages
    BY <1>4 DEF Begin, ShortList
  <2> QED
    BY <1>2, <1>4, <2>1, SummaryStarts
<1>5. ASSUME NEW r \in Requests, NEW size \in Sizes, Complete(r, size)
      PROVE  ShortList' /\ RemainderFits'
  <2>1. Room(messages, 36) /\ messages' = Append(messages, Reply(r, size))
        /\ phase' = [phase EXCEPT ![r] = "done"] /\ phase[r] = "streaming"
    BY <1>5 DEF Complete, Reply, ShortList
  <2>2. Len(messages') = Len(messages) + 1
    BY <1>0, <2>1, NewMessages, AppendFacts DEF TypeOK
  <2>3. Room(messages', 69) /\ Room(messages', 102)
    BY <1>0, <2>1, <2>2 DEF Room, Overhead
  <2>4. \A q \in Requests : phase'[q] \notin {"ready", "streaming", "summarizing"}
    BY <1>0, <2>1 DEF TypeOK, ConversationInv, OneAtATime, Ended
  <2> QED
    BY <2>3, <2>4 DEF ShortList, RemainderFits, Room
<1>6. ASSUME NEW r \in Requests, Fail(r) PROVE ShortList' /\ RemainderFits'
  <2>1. Room(messages, 36) /\ messages' = messages
    BY <1>6 DEF Fail, ShortList
  <2> QED
    BY <1>2, <1>6, <2>1, SummaryStarts
<1>7. CASE UNCHANGED vars
  BY <1>7 DEF vars, compactionVars, ShortList, RemainderFits, Room, SizesOf
<1> QED
  BY <1>1, <1>3, <1>4, <1>5, <1>6, <1>7 DEF Next

(***************************************************************************)
(* When a session's requests follow one another and the budget holds at    *)
(* least an empty message, what compaction keeps is within 70% of the      *)
(* budget, although the loop subtracts estimates rounded one by one.       *)
(***************************************************************************)
THEOREM RemainderWithinTarget ==
  ASSUME ~Overlap, MaxTokens >= Estimate(<<Overhead>>)
  PROVE  Spec => []RemainderFits
<1>1. Init => ShortList /\ RemainderFits
  BY ConversationAssumption DEF Init, ShortList, RemainderFits, Room, Overhead
<1>2. ConversationInv /\ [Next]_vars => ConversationInv'
  BY InvStep
<1>3. ConversationInv /\ ShortList /\ RemainderFits /\ [Next]_vars
        => ShortList' /\ RemainderFits'
  BY FitsStep
<1> QED
  BY <1>1, <1>2, <1>3, InvInit, PTL DEF Spec

=============================================================================
