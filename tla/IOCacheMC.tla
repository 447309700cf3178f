------------------------------ MODULE IOCacheMC ------------------------------
(***************************************************************************)
(* Small instances of IOCache.                                             *)
(***************************************************************************)
EXTENDS IOCache

ThreadSymmetry == Permutations(Threads)

OneFd == {0}
TwoFds == {0, 1}
ZeroOne == {0, 1}
ZeroOnly == {0}

CarefulClients == {}
AnyClient == {"alias", "race", "beyond"}
BeyondEnd == {"beyond"}

NoFaults == {}
SafeFaults == {"pread", "flush"}
AllFaults == {"pread", "evict", "flush", "short"}
EvictFault == {"evict"}
===============================================================================
