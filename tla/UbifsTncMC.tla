----------------------------- MODULE UbifsTncMC ------------------------------
(***************************************************************************)
(* An index of a root inode, entries of a directory, some of which         *)
(* collide and are in two nodes, and two blocks of data.  Deletions leave  *)
(* a key in the root that is less than the first one below it.             *)
(***************************************************************************)
EXTENDS UbifsTnc

MCEntries == {<<1, 0>>, <<2, 1>>, <<2, 2>>, <<3, 1>>, <<3, 2>>, <<4, 0>>, <<5, 0>>}
MCSeeds == <<<<1, 0>>, <<2, 1>>, <<2, 2>>, <<3, 1>>, <<3, 2>>, <<4, 0>>, <<5, 0>>,
             <<3, 2>>, <<3, 1>>>>
=============================================================================
