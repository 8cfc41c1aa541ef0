----------------------------- MODULE MCPrograms -----------------------------
(* Instances of Lists, Bits, Reader, Club and MDriver for TLC.  They are      *)
(* programs of their own, which share nothing: in a behaviour one of them     *)
(* runs, and the others do not begin.                                         *)
EXTENDS Lists, Bits, Reader, Club, MDriver, TLC

CONSTANT MaxLength     \* of a line or path

\* For Reader.
Chars == {"a", SPACE, NEWLINE, AMPERSAND, SLASH}
ShortTexts == UNION {[1 .. n -> Chars] : n \in 0 .. MaxLength}

\* For Club: threads of one major are interchangeable.
SameMajor == Permutations(Comp) \union Permutations(Math)

\* For MDriver: reuse of space and of an index, growing, shrinking and moving
\* blocks, and a large payload after a small one.
alloc(x, n) == [type |-> "ALLOC", index |-> x, size |-> n]
realloc(x, n) == [type |-> "REALLOC", index |-> x, size |-> n]
free(x) == [type |-> "FREE", index |-> x, size |-> 0]

Mixed == {
  <<alloc(0, 2), alloc(1, 1), free(0), alloc(0, 3), free(1), free(0)>>,
  <<alloc(0, 1), alloc(1, 4), free(0), free(1)>>,
  <<alloc(0, 2), realloc(0, 3), alloc(1, 1), realloc(0, 1)>>,
  <<alloc(0, 1), alloc(200, 1), realloc(200, 2)>>}
-----------------------------------------------------------------------------
\* The program that runs.
VARIABLE program

routine_vars == <<list_vars, word, text>>

ProgramsInit ==
  /\ program \in {"list", "words", "texts", "club", "driver"}
  /\ ListInit /\ BitsInit /\ ReaderInit /\ ClubInit
  /\ Init
  /\ program # "driver" => phase = "start" /\ trace = CHOOSE t \in Traces : TRUE

Runs(name) == program = name /\ UNCHANGED program

ProgramsNext ==
  \/ /\ Runs("list") /\ ListNext
     /\ UNCHANGED <<word, text, club_vars, vars>>
  \/ /\ Runs("words") /\ BitsInit /\ BitsNext
     /\ UNCHANGED <<list_vars, text, club_vars, vars>>
  \/ /\ Runs("texts") /\ ReaderInit /\ ReaderNext
     /\ UNCHANGED <<list_vars, word, club_vars, vars>>
  \/ Runs("club") /\ ClubNext /\ UNCHANGED <<routine_vars, vars>>
  \/ Runs("driver") /\ Next /\ UNCHANGED <<routine_vars, club_vars>>

ProgramsSpec ==
  ProgramsInit /\ [][ProgramsNext]_<<program, routine_vars, club_vars, vars>>
=============================================================================
