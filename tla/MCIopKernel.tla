---------------------------- MODULE MCIopKernel ----------------------------
(* Two file servers and the loader over one ISO thread, with the           *)
(* priorities of overlord.cpp and iso.cpp: STR 97, ramdisk 98, loader 99,  *)
(* ISO 100.                                                                *)
EXTENDS IopKernel

CONSTANTS str, server

MCRank == [t \in Threads |-> CASE t = str -> 97 [] t = server -> 98
                               [] t = Loader -> 99 [] OTHER -> 100]
=============================================================================
