----------------------------- MODULE MemoryPool -----------------------------
(***************************************************************************)
(* What the memory promises its users, seen from a distance: a pool of     *)
(* facts, each with the user it belongs to.  A call made for a user adds   *)
(* one fact, and makes room for it by dropping at most one: the user's own *)
(* or one that belongs to nobody.                                          *)
(***************************************************************************)
CONSTANTS Content, User, NoUser

VARIABLE pool       \* the facts a query sees now: pairs <<content, owner>>

Remember(c, u) == pool' = pool \cup {<<c, u>>}

MayReplace(u, old) == u = NoUser \/ old[2] \in {u, NoUser}

Replace(old, c, u) ==
  /\ MayReplace(u, old)
  /\ pool' = (pool \ {old}) \cup {<<c, u>>}

Forget(old) == pool' = pool \ {old}

PoolInit == pool = {}

PoolNext ==
  \/ \E c \in Content, u \in User \cup {NoUser} :
       \/ Remember(c, u)
       \/ \E old \in pool : Replace(old, c, u)
  \/ \E old \in pool : Forget(old)

PoolSpec == PoolInit /\ [][PoolNext]_pool
=============================================================================
