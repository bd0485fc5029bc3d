------------------------------ MODULE MCFileIO ------------------------------
(* FileIO with the byte sequences that callers write in the run.           *)
EXTENDS FileIO
MCData == {<<>>, <<"a", "a", "0">>}
=============================================================================
