---------------------------- MODULE RedisHistoryMC ----------------------------
(* An instance of RedisHistory for TLC. *)
EXTENDS RedisHistory
=============================================================================
