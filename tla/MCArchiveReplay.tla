--------------------------- MODULE MCArchiveReplay ---------------------------
(* Four messages; an archive with no, one or two recordings of earlier runs.    *)
EXTENDS ArchiveReplay

Complete == <<0, 1, 2, 3>>
Used     == {<< >>, <<Complete>>, <<Complete, <<0, 1, 3>>>>}
=============================================================================
