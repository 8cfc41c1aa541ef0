------------------------------ MODULE MCShell -------------------------------
(* Instances of Shell for TLC. *)
EXTENDS Shell

TwoPids == {1, 2}
ThreePids == {1, 2, 3}

\* Two commands in the background, one of them with an argument and spaces
\* before the ampersand, one in the foreground, an empty and a last line.
FewLines ==
  {<<"a", "&", NEWLINE>>, <<"b", SPACE, "c", SPACE, SPACE, "&", NEWLINE>>,
   <<"a", NEWLINE>>, <<NEWLINE>>, <<"a", "b">>}

OneCommand == {<<"a", "&", NEWLINE>>, <<"a", NEWLINE>>, <<NEWLINE>>}
=============================================================================
