-------------------------------- MODULE Sums --------------------------------
(***************************************************************************)
(* Finite sums over an index 1..n.  The program never holds such a sum     *)
(* itself: an instruction sees one account at a time, and the totals it    *)
(* keeps (Protocol::total_user_collateral, Market::oi_long, ...) are what   *)
(* the invariants compare with the sum over every account.                 *)
(***************************************************************************)
EXTENDS Integers

\* f[1] + ... + f[n].
SumTo(f, n) ==
    LET s[i \in 0..n] == IF i = 0 THEN 0 ELSE s[i - 1] + f[i] IN s[n]
=============================================================================
