------------------------------- MODULE Reader -------------------------------
(***************************************************************************)
(* What the functions of Lines are given: the lines that getline returns   *)
(* to the shell, one after the other, and the paths that main of fs.c      *)
(* looks for.                                                              *)
(***************************************************************************)
EXTENDS Lines

VARIABLE text      \* the line, or path; empty at first

ReaderInit == text = <<>>
ReaderNext == text' \in Texts

ReaderSpec == ReaderInit /\ [][ReaderNext]_text
-----------------------------------------------------------------------------
(* Properties *)

\* Every line that getline returns is taken apart as it should be.
LinesRight == text # <<>> /\ IsLine(text) => LineRight(text)

\* Every path is taken apart as it should be.
PathsRight == PathRight(text)
=============================================================================
