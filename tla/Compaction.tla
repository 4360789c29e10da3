----------------------------- MODULE Compaction -----------------------------
(***************************************************************************)
(* The arithmetic of src/compaction.py.  A message is the length of its    *)
(* JSON text; json.dumps of a list adds two characters per message.        *)
(***************************************************************************)
EXTENDS Integers, Sequences

\* The sums of the first 0, 1, 2, ... sizes.
Sums(sizes) ==
  LET part[i \in 0..Len(sizes)] == IF i = 0 THEN 0 ELSE part[i - 1] + sizes[i]
  IN  part

\* estimate_tokens(messages): four characters to a token.
Estimate(sizes) == (Sums(sizes)[Len(sizes)] + 2 * Len(sizes)) \div 4

\* int(max * 0.7) in floating point: an exact product may come out just below.
Targets(max) ==
  LET exact == (7 * max) \div 10
  IN  IF exact > 0 /\ (7 * max) % 10 = 0 THEN {exact - 1, exact} ELSE {exact}

\* running_tokens after the loop has passed the first 0, 1, 2, ... messages.
Running(sizes) ==
  LET tokens[i \in 0..Len(sizes)] ==
        IF i = 0 THEN Estimate(sizes) ELSE tokens[i - 1] - Estimate(<<sizes[i]>>)
  IN  tokens

\* Mutant of SplitIdx: the message that reaches the target is kept.
SplitIdxKeeping(sizes, target) ==
  LET n       == Len(sizes)
      running == Running(sizes)
      enough  == {i \in 1..n : running[i] <= target}
  IN  IF enough = {} THEN n - 1
      ELSE (CHOOSE i \in enough : \A j \in enough : i <= j) - 1

\* Mutant of SplitIdx: everything is summarised.
SplitIdxAll(sizes, target) == Len(sizes)

\* How many of the oldest messages the loop gives up.
SplitIdx(sizes, target) ==
  LET n       == Len(sizes)
      running == Running(sizes)
      enough  == {i \in 1..n : running[i] <= target}
  IN  IF enough = {} THEN n - 1
      ELSE CHOOSE i \in enough : \A j \in enough : i <= j
=============================================================================
