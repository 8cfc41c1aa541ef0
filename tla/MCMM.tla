-------------------------------- MODULE MCMM --------------------------------
(* Instances of MM for TLC. *)
EXTENDS MM

OneSize == {24}     \* blocks of 5 words
TwoSizes == {8, 24} \* blocks of 4 and 5 words

\* What libc's memory may hold: a word that read as a tag says that a free
\* block of no length, or one of five words, ends there.
LibcZero == {Tag(0, FALSE)}
LibcTags == {Tag(0, FALSE), Tag(5, FALSE)}
=============================================================================
