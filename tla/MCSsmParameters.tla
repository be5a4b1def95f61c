-------------------------- MODULE MCSsmParameters --------------------------
(***************************************************************************)
(* Files of up to three lines over two parameters: valid, invalid, blank.  *)
(***************************************************************************)
EXTENDS SsmParameters, TLC

CONSTANTS redisHost, redisPwd

MCKeys == {redisHost, redisPwd}
MCRequired == {redisHost}

L(k, t) == [key |-> k, type |-> t]
Whole == <<L(redisHost, "String"), L(redisPwd, "SecureString")>>
MCFiles ==
    { Whole,
      <<L(None, "other"), L(redisPwd, "SecureString")>>,
      <<L(redisHost, "other"), L(redisHost, "String"), L(redisPwd, "SecureString")>>,
      <<L(redisHost, "other"), L(redisPwd, "other"), L(redisPwd, "String")>> }
Valids == {Whole}

Symmetry == Permutations(Containers)
=============================================================================
