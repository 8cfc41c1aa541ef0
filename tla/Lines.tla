------------------------------- MODULE Lines -------------------------------
(***************************************************************************)
(* How the shell A07-Shells/ish.c takes a line apart, and the file system  *)
(* reader A10-FileSystems/fs.c a path.  Strings are sequences of chars,    *)
(* without the null character; places count from 1.                        *)
(***************************************************************************)
EXTENDS Integers, Sequences, FiniteSets, SequencesExt

CONSTANT Texts     \* what is taken apart: lines that getline returns, or paths

ASSUME LinesAssumption == Texts \subseteq Seq(STRING)

SPACE == "space"
NEWLINE == "newline"
AMPERSAND == "&"
SLASH == "/"

\* What is between the places of cuts, in order; the places are those of the
\* characters that the C code overwrites with the null character.
Between(s, cuts) ==
  [k \in DOMAIN cuts |-> SubSeq(s, IF k = 1 THEN 1 ELSE cuts[k - 1] + 1, cuts[k] - 1)]

\* The places of chars in s, in order: up to the n-th of them there are n.
PlacesOf(s, chars) ==
  LET places == {k \in DOMAIN s : s[k] \in chars}
  IN  [n \in 1 .. Cardinality(places) |->
         CHOOSE k \in places : Cardinality({l \in places : l <= k}) = n]

\* A newline is only at the end of what getline returns.
IsLine(s) == \A k \in 1 .. Len(s) - 1 : s[k] # NEWLINE

\* What joined by separators is s: the reference for a split.
Join(words, separator) ==
  LET joined[k \in 0 .. Len(words)] ==
        IF k = 0 THEN <<>>
        ELSE IF k = 1 THEN words[1]
        ELSE joined[k - 1] \o <<separator>> \o words[k]
  IN  joined[Len(words)]
-----------------------------------------------------------------------------
(* ish.c *)

\* main takes a line of one character for an empty one.
is_empty(line) == Len(line) <= 1

is_background(line) == line[Len(line) - 1] = AMPERSAND

\* How much is left of a background line without the ampersand and the spaces
\* before it; the first character stays, and is not looked at.
last_non_space(line) ==
  LET n == Len(line) - 2
      full == {k \in 1 .. n : k = 1 \/ line[k] # SPACE}
  IN  IF full = {} THEN 0 ELSE CHOOSE k \in full : \A l \in full : l <= k

\* The line that main passes on, and the command that it saves for a job.
munged(line) ==
  IF is_background(line) THEN SubSeq(line, 1, last_non_space(line)) \o <<NEWLINE>>
  ELSE line
command(line) == SubSeq(line, 1, last_non_space(line))

\* The assertion of parse_line: a last line without a newline ends the shell.
is_terminated(line) == line[Len(line)] = NEWLINE

\* Mutant: the words are counted without the last.
OneLess(line) == Cardinality({k \in DOMAIN line : line[k] = SPACE})

\* parse_line: how many words it counts, before it saves those it finds.
num_words(line) == 1 + Cardinality({k \in DOMAIN line : line[k] = SPACE})

parse_line(line) == Between(line, PlacesOf(line, {SPACE, NEWLINE}))

\* The words that main passes to execve.
args(line) == parse_line(munged(line))
-----------------------------------------------------------------------------
(* fs.c *)

count_dirs(text) == Cardinality({k \in DOMAIN text : text[k] = SLASH})

\* Mutant: the end of the path is no end of a name.
EndsAtSlash(text) == Between(text, PlacesOf(text, {SLASH}))

parse_path(text) == Between(text, Append(PlacesOf(text, {SLASH}), Len(text) + 1))
-----------------------------------------------------------------------------
(* Properties *)

\* What parse_line and main's treatment of & amount to: the program is given
\* the words that spaces separate, empty ones included, and of a job's line
\* what precedes the & and the spaces before it, which is also the name of the
\* job.  As many words are saved as there is room for.
LineRight(line) ==
  ~is_empty(line) /\ is_terminated(munged(line)) =>
    /\ Len(args(line)) = num_words(munged(line))
    /\ \A k \in DOMAIN args(line) : ~Contains(args(line)[k], SPACE)
    /\ ~is_background(line) => line = Append(Join(args(line), SPACE), NEWLINE)
    /\ is_background(line) =>
         /\ Join(args(line), SPACE) = command(line)
         /\ \E n \in 0 .. Len(line) :
              line = command(line) \o [k \in 1 .. n |-> SPACE]
                                   \o <<AMPERSAND, line[Len(line)]>>
         /\ Len(command(line)) > 1 => Last(command(line)) # SPACE

\* parse_path yields the names between the slashes, one more than there are
\* slashes, for which it has allocated room; the last one is what search_path
\* looks for.
PathRight(text) ==
  /\ Join(parse_path(text), SLASH) = text
  /\ Len(parse_path(text)) = count_dirs(text) + 1
  /\ \A k \in DOMAIN parse_path(text) : ~Contains(parse_path(text)[k], SLASH)
=============================================================================
