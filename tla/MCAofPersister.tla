--------------------------- MODULE MCAofPersister ---------------------------
(***************************************************************************)
(* Instances of AofPersister: the files the server is started on.          *)
(***************************************************************************)
EXTENDS AofPersister

\* A file of an earlier run that ends in database 1.
UsedFile == {<<Push(101), Select(1), Push(102)>>}
=============================================================================
