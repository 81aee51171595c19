----------------------------- MODULE MCFileData -----------------------------
(* FileData started on what mkfs makes of one file of three units.          *)
EXTENDS FileData, Mkfs

MCImage == <<<<7, 8, 9>>>>
=============================================================================
