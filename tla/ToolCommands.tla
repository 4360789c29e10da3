---------------------------- MODULE ToolCommands ----------------------------
(***************************************************************************)
(* One tool call on its way into a sandbox and back: src/tools.py makes a  *)
(* command line from the arguments, the backend quotes it for a shell      *)
(* (repr() in DockerBackend.exec, shell_escape in the guest agent), that   *)
(* shell runs timeout and the shell that runs the command, and the tool    *)
(* turns the outcome into its answer.                                      *)
(*                                                                         *)
(* Text is a sequence of classes of characters: "a" is any character that  *)
(* means nothing to a shell, "$" a whole expansion with its name, "nl" a   *)
(* line break (as for any control character, repr() writes a letter for    *)
(* it), ";" an operator, a comment or a pattern character.                 *)
(***************************************************************************)
EXTENDS Naturals, Sequences, SequencesExt

CONSTANT MaxLen   \* bounds the length of an argument

Quote == "'"
DoubleQuote == "\""
Backslash == "\\"
Classes == {"a", " ", Quote, DoubleQuote, Backslash, "nl", "$", ";"}

Tools == {"read_file", "write_file", "bash_execute", "grep_search"}

VARIABLES
  backend,    \* "docker" or "firecracker"
  tool,       \* the tool called
  arg,        \* its command, path or pattern
  stage,      \* "called", "delivered", "ran" or "answered"
  command,    \* what the inner shell gets to run
  outcome,    \* return code, and what came on the two outputs
  answer      \* what the tool reports

vars == <<backend, tool, arg, stage, command, outcome, answer>>

NoOutcome == [code |-> "none", out |-> "none", err |-> FALSE]

(***************************************************************************)
(* How a program ends: it did its work (0), found nothing (1), failed with *)
(* a message (2), or timeout or the kernel killed it, without one.         *)
(***************************************************************************)
Outcomes ==
  [code : {"0"}, out : {"none", "blank", "text"}, err : {FALSE}]
    \cup [code : {"1"}, out : {"none"}, err : {FALSE}]
    \cup [code : {"2"}, out : {"none", "text"}, err : {TRUE}]
    \cup [code : {"killed"}, out : {"none", "text"}, err : {FALSE}]

Init ==
  /\ backend \in {"docker", "firecracker"}
  /\ tool \in Tools
  /\ arg \in BoundedSeq(Classes, MaxLen)
  /\ stage = "called"
  /\ command = <<>>
  /\ outcome = NoOutcome
  /\ answer = "none"

-----------------------------------------------------------------------------
(* Command lines of src/tools.py; the programs' names are plain words. *)

Name == <<"a", " ">>
Sign == <<";", " ">>   \* a pipe or a redirection

\* What stands before and after the argument.
Before ==
  [read_file    |-> Name,
   write_file   |-> Name \o Name \o Sign \o Name \o Name \o Sign,
   bash_execute |-> <<>>,
   grep_search  |-> Name]
After == [t \in Tools |-> IF t = "grep_search" THEN <<" ", "a">> ELSE <<>>]

\* f"cat {path}", f"echo {encoded} | base64 -d > {path}", f"rg {pattern} {path}"
CommandLine == Before[tool] \o arg \o After[tool]

-----------------------------------------------------------------------------
(* Quoting. *)

\* Every character of the text replaced.
Translated(text, f) == FlattenSeq([i \in 1..Len(text) |-> f[text[i]]])

\* repr() prefers single quotes, and double ones if that avoids escapes.
ReprQuote(text) ==
  IF Contains(text, Quote) /\ ~Contains(text, DoubleQuote) THEN DoubleQuote ELSE Quote

\* Mutant of Repr: the command is put in quotes as it is.
ReprVerbatim(text) == <<Quote>> \o text \o <<Quote>>

Repr(text) ==
  LET quote   == ReprQuote(text)
      escaped == [c \in Classes |-> CASE c = "nl"                 -> <<Backslash, "a">>
                                      [] c \in {Backslash, quote} -> <<Backslash, c>>
                                      [] OTHER                    -> <<c>>]
  IN  <<quote>> \o Translated(text, escaped) \o <<quote>>

\* Mutant of ShellEscape: quotes in the command are not replaced.
ShellEscapeBare(text) == <<Quote>> \o text \o <<Quote>>

ShellEscape(text) ==
  LET replaced == [c \in Classes |-> IF c = Quote THEN <<Quote, Backslash, Quote, Quote>>
                                                 ELSE <<c>>]
  IN  <<Quote>> \o Translated(text, replaced) \o <<Quote>>

-----------------------------------------------------------------------------
(* External: how a POSIX shell splits a line into words. *)

Start == [mode |-> "plain", escaped |-> FALSE, word |-> <<>>, open |-> FALSE, words |-> <<>>]

Add(st, c) == [st EXCEPT !.word = Append(@, c), !.open = TRUE, !.escaped = FALSE]

Close(st) ==
  IF st.open THEN [st EXCEPT !.words = Append(@, st.word), !.word = <<>>, !.open = FALSE]
             ELSE st

Operator(st) == [Close(st) EXCEPT !.words = Append(@, <<"operator">>)]

AfterBackslash(st, c) ==
  IF c = "nl" THEN [st EXCEPT !.escaped = FALSE]
  ELSE IF st.mode = "double" /\ c \notin {"$", DoubleQuote, Backslash}
       THEN Add(Add(st, Backslash), c)
       ELSE Add(st, c)

InSingle(st, c) == IF c = Quote THEN [st EXCEPT !.mode = "plain"] ELSE Add(st, c)

InDouble(st, c) ==
  CASE c = Backslash   -> [st EXCEPT !.escaped = TRUE]
    [] c = "$"         -> Add(st, "expanded")
    [] c = DoubleQuote -> [st EXCEPT !.mode = "plain"]
    [] OTHER           -> Add(st, c)

InPlain(st, c) ==
  CASE c = Backslash     -> [st EXCEPT !.escaped = TRUE]
    [] c = "$"           -> Add(st, "expanded")
    [] c = DoubleQuote   -> [st EXCEPT !.mode = "double", !.open = TRUE]
    [] c = Quote         -> [st EXCEPT !.mode = "single", !.open = TRUE]
    [] c = " "           -> Close(st)
    [] c \in {"nl", ";"} -> Operator(st)
    [] OTHER             -> Add(st, c)

Scan(st, c) ==
  IF st.escaped THEN AfterBackslash(st, c)
  ELSE CASE st.mode = "single" -> InSingle(st, c)
         [] st.mode = "double" -> InDouble(st, c)
         [] st.mode = "plain"  -> InPlain(st, c)

Scanned(text) ==
  LET state[i \in 0..Len(text)] == IF i = 0 THEN Start ELSE Scan(state[i - 1], text[i])
  IN  state[Len(text)]

\* The words of a line; none of a line whose quotes do not match.
Words(text) ==
  LET end == Scanned(text)
  IN  IF end.mode # "plain" THEN <<>>
      ELSE Close(IF end.escaped THEN Add(end, "unspecified") ELSE end).words

-----------------------------------------------------------------------------
\* The argument of the inner sh -c is the first word of what the outer one reads.
Deliver ==
  LET line   == CommandLine
      quoted == IF backend = "docker" THEN Repr(line) ELSE ShellEscape(line)
      words  == Words(quoted)
  IN  /\ stage = "called"
      /\ stage' = "delivered"
      /\ command' = IF words = <<>> THEN <<"unspecified">> ELSE Head(words)
      /\ UNCHANGED <<backend, tool, arg, outcome, answer>>

Run ==
  /\ stage = "delivered"
  /\ stage' = "ran"
  /\ outcome' \in Outcomes
  /\ UNCHANGED <<backend, tool, arg, command, answer>>

\* Mutant of GrepAnswer: the return code is not looked at.
GrepAnswerByOutput(o) == IF o.out = "text" THEN "matches" ELSE "no matches"

GrepAnswer(o) ==
  CASE o.code # "0" /\ o.err        -> "error"
    [] o.code = "0" /\ o.out = "text" -> "matches"
    [] OTHER                          -> "no matches"

AnswerOf(o) ==
  CASE tool = "grep_search"  -> GrepAnswer(o)
    [] tool = "bash_execute" -> o.code
    [] OTHER                 -> IF o.code # "0" THEN "error" ELSE "success"

Answer ==
  /\ stage = "ran"
  /\ stage' = "answered"
  /\ answer' = AnswerOf(outcome)
  /\ UNCHANGED <<backend, tool, arg, command, outcome>>

Next == Deliver \/ Run \/ Answer

Spec == Init /\ [][Next]_vars

-----------------------------------------------------------------------------
(***************************************************************************)
(* What repr() quotes well enough for a shell: it is Python's notation,    *)
(* which agrees with the shell's only for a command of one line, without   *)
(* backslashes if it is put in single quotes, and without double quotes    *)
(* and expansions if it contains a single quote.                           *)
(***************************************************************************)
Plain(text) ==
  /\ ~Contains(text, "nl")
  /\ IF Contains(text, Quote)
     THEN ~Contains(text, DoubleQuote) /\ ~Contains(text, "$")
     ELSE ~Contains(text, Backslash)

(***************************************************************************)
(* The command that runs is the one the tool was called with, always in a  *)
(* microVM, and in a container exactly if it is Plain (spec.md: "run any   *)
(* bash command in the sandbox").                                          *)
(***************************************************************************)
CommandArrives ==
  stage # "called" =>
    (command = CommandLine <=> backend = "firecracker" \/ Plain(CommandLine))

(***************************************************************************)
(* A path or pattern reaches its program as one argument, unchanged,       *)
(* exactly if it is not empty and means nothing to a shell: only for these *)
(* do the tools keep their promise of "the given path".  In a container    *)
(* backslashes arrive too: repr() doubles what the inner shell halves.     *)
(***************************************************************************)
ArgumentArrives ==
  stage # "called" /\ tool # "bash_execute" =>
    (Words(command) = Words(Before[tool]) \o <<arg>> \o Words(After[tool])
       <=> /\ arg # <<>>
           /\ ToSet(arg) \subseteq {"a"} \cup (IF backend = "docker" THEN {Backslash} ELSE {}))

(***************************************************************************)
(* An answer tells what happened: success is reported only of a program    *)
(* that succeeded, and "no matches" only of a search that found none, but  *)
(* for two: one that was killed, and one that matched empty lines only.    *)
(***************************************************************************)
AnswerTruthful ==
  stage = "answered" =>
    /\ answer \in {"success", "matches"} => outcome.code = "0"
    /\ answer = "no matches" =>
         \/ outcome.out = "none" /\ outcome.code \in {"0", "1"}
         \/ outcome.out = "blank"
         \/ outcome.code = "killed"
=============================================================================
