----------------------------- MODULE MemoryPool -----------------------------
(***************************************************************************)
(* blockchain.MemoryPool: the pending transactions, oldest first.  Every   *)
(* method holds the pool's own lock throughout, so each is one operator on *)
(* the sequence of transactions.                                           *)
(***************************************************************************)
EXTENDS Naturals, Sequences, Selection

(* The oldest transactions, size of them or all there are.                 *)
Get(pool, size) == SubSeq(pool, 1, IF size < Len(pool) THEN size ELSE Len(pool))

(* The newest capacity transactions of s: older ones make room.            *)
Newest(s, capacity) ==
  SubSeq(s, IF Len(s) > capacity THEN Len(s) - capacity + 1 ELSE 1, Len(s))

(* AddTxn drops one transaction where AddTxns drops as many as it takes;   *)
(* a pool within its capacity never needs more than one.                   *)
AddTxns(pool, incoming, capacity) == Newest(pool \o incoming, capacity)

\* A faulty variant, for the mutation runs: a full pool takes one more.
AddTxnOver(pool, t, capacity) == AddTxns(pool, <<t>>, capacity + 1)

AddTxn(pool, t, capacity) == AddTxns(pool, <<t>>, capacity)

RemoveTxns(pool, txns) ==
  Selected(pool, {pool[i] : i \in DOMAIN pool} \ txns)
=============================================================================
