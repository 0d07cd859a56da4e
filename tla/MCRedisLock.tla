----------------------------- MODULE MCRedisLock -----------------------------
(* Instance of RedisLock for TLC.                                          *)
EXTENDS RedisLock
CONSTANTS c1, c2, c3
MCContext == {c1, c2, c3}
==============================================================================
