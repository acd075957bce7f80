------------------------------ MODULE MCFileInput ------------------------------
(* A small instance for TLC: the first line of the first file has no text.  *)
EXTENDS FileInput

MCBlank == {<<1, 1>>}
=============================================================================
