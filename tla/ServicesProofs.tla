-------------------------- MODULE ServicesProofs --------------------------
(***************************************************************************)
(* The indexer implements the feed it promises, for every page size, any   *)
(* number of workers, crashes and null answers and a history of any        *)
(* length.  The rows placed are always the first n transactions, row n     *)
(* numbered n; and while a sync runs, what it has listed descends without  *)
(* a gap and stays above n, which is what lets one Insert append it.       *)
(*                                                                         *)
(* The faucet keeps its limits for any wallets, addresses, window and      *)
(* PerIp.  The payments that landed, or still may, and whose claim is over *)
(* (Ended) are all in the limiter's books, in memory and in the file: the  *)
(* wallet has a time at least as late, and at any later moment T the list  *)
(* of the address ends in as many times in T's window as it got payments   *)
(* in that window.  A claim that passed check() therefore may send.        *)
(***************************************************************************)
EXTENDS NoxIndexer, Faucet, FiniteSetTheorems, SequenceTheorems, TLAPS

(* The tables hold the first n transactions of the program. *)
Placed(n) ==
    /\ n \in 0..height
    /\ txs = [s \in 1..n |-> txs[s]]
    /\ \A s \in 1..n : txs[s].ord = s

SyncTyped ==
    /\ sync = [until |-> sync.until, sigs |-> sync.sigs, listed |-> sync.listed,
               next |-> sync.next, inflight |-> sync.inflight, got |-> sync.got]
    /\ sync.until \in Nat
    /\ sync.sigs \in Seq(Nat)
    /\ sync.listed \in BOOLEAN

(* sigs descends without a gap, from a transaction that is confirmed.  *)
Descends(sigs) ==
    \A i \in 1..Len(sigs) : sigs[i] = sigs[1] - i + 1 /\ sigs[i] <= height

(* All of sigs lies above until; a complete list reaches down to it. *)
Covers(sigs, until, complete) ==
    /\ \A i \in 1..Len(sigs) : until < sigs[i]
    /\ complete => Len(sigs) > 0 /\ sigs[Len(sigs)] = until + 1

IInv ==
    /\ height \in Nat
    /\ SyncTyped
    /\ Descends(sync.sigs)
    /\ Covers(sync.sigs, sync.until, sync.listed)
    /\ \E n \in 0..height : Placed(n) /\ (syncing => sync.until = n)
    /\ ~ syncing => sync.sigs = <<>>

(* The row with the greatest number is the last one placed. *)
LEMMA NewestIsLast ==
  ASSUME NEW n \in Nat, height \in Nat, Placed(n)
  PROVE  NewestSignature = n /\ MaxOrd = n
<1>1. DOMAIN txs = 1..n /\ \A s \in 1..n : txs[s].ord = s
  BY DEF Placed
<1>2. CASE n = 0
  <2>1. txs = NoRows
    <3>1. 1..n = {}
      BY <1>2
    <3>2. txs = [s \in {} |-> txs[s]]
      BY <3>1 DEF Placed
    <3> QED
      BY <3>2 DEF NoRows
  <2> QED
    BY <2>1, <1>2 DEF NewestSignature, MaxOrd
<1>3. CASE n > 0
  <2>1. txs # NoRows
    <3>1. n \in DOMAIN txs
      BY <1>1, <1>3
    <3>2. DOMAIN NoRows = {}
      BY DEF NoRows
    <3> QED
      BY <3>1, <3>2
  <2>2. \A s \in DOMAIN txs :
          (\A t \in DOMAIN txs : txs[t].ord <= txs[s].ord) <=> s = n
    BY <1>1, <1>3
  <2>3. NewestSignature = n
    BY <2>1, <2>2, <1>1, <1>3 DEF NewestSignature
  <2> QED
    BY <2>1, <2>3, <1>1, <1>3 DEF MaxOrd
<1> QED
  BY <1>2, <1>3

(* What readers are shown of the first n transactions. *)
LEMMA ServedIsPrefix ==
  ASSUME NEW n \in Nat, height \in Nat, Placed(n)
  PROVE  Served = [k \in 1..n |-> k]
<1>1. DOMAIN txs = 1..n /\ \A s \in 1..n : txs[s].ord = s
  BY DEF Placed
<1>2. Cardinality(DOMAIN txs) = n
  BY <1>1, FS_Interval
<1>3. \A k \in 1..n : (CHOOSE s \in DOMAIN txs : txs[s].ord = k) = k
  BY <1>1
<1> QED
  BY <1>2, <1>3 DEF Served

(* A page holds the signatures from the top downwards, and stops early     *)
(* only where the table begins.                                            *)
Top(before) == IF before = 0 THEN height ELSE before - 1

LEMMA PageHolds ==
  ASSUME height \in Nat, NEW before \in Nat, NEW until \in Nat
  PROVE  \E size \in 0..PageSize :
            /\ Page(before, until) = [i \in 1..size |-> Top(before) - i + 1]
            /\ size > 0 => size <= Top(before) - until
            /\ size < PageSize => IF Top(before) <= until THEN size = 0
                                  ELSE size = Top(before) - until
<1> DEFINE top == Top(before)
           size == IF top <= until THEN 0
                   ELSE IF top - until < PageSize THEN top - until ELSE PageSize
<1>1. size \in 0..PageSize
  BY SizesAssumption DEF Top
<1>2. Page(before, until) = [i \in 1..size |-> top - i + 1]
  BY DEF Page, Top
<1>3. /\ size > 0 => size <= top - until
      /\ size < PageSize => IF top <= until THEN size = 0 ELSE size = top - until
  BY SizesAssumption DEF Top
<1> QED
  BY <1>1, <1>2, <1>3

LEMMA InitIInv == Init => IInv
<1> SUFFICES ASSUME Init PROVE IInv
  OBVIOUS
<1>1. height = 0 /\ txs = NoRows /\ ~ syncing /\ sync = NoSync
  BY DEF Init
<1>2. SyncTyped /\ sync.sigs = <<>> /\ Len(sync.sigs) = 0 /\ ~ sync.listed
  BY <1>1 DEF NoSync, SyncTyped
<1>3. Placed(0)
  BY <1>1 DEF Placed, NoRows
<1> QED
  BY <1>1, <1>2, <1>3 DEF IInv, Descends, Covers

(* A page that arrives goes on where the list ended. *)
LEMMA ListStep ==
  ASSUME IInv, NEW before \in 0..MaxTxs, List(before)
  PROVE  SyncTyped' /\ Descends(sync.sigs)' /\ Covers(sync.sigs, sync.until, sync.listed)'
         /\ (syncing' => sync'.until = sync.until) /\ (~ syncing' => sync'.sigs = <<>>)
<1> DEFINE page == Page(before, sync.until)
           all  == sync.sigs \o page
           last == Len(page) < PageSize
           len  == Len(sync.sigs)
           top  == Top(before)
<1>1. /\ height \in Nat /\ sync.until \in Nat /\ sync.sigs \in Seq(Nat) /\ len \in Nat
      /\ height' = height
      /\ Descends(sync.sigs) /\ Covers(sync.sigs, sync.until, FALSE)
      /\ SyncTyped
  BY DEF IInv, SyncTyped, List, Covers
<1>2. before \in Nat /\ top \in Int /\ before = Before
  BY <1>1, SizesAssumption DEF List, Top
<1>3. /\ len = 0 => before = 0 /\ top = height
      /\ len > 0 => /\ sync.sigs[len] = sync.sigs[1] - len + 1
                    /\ before = sync.sigs[len] /\ top = sync.sigs[1] - len
                    /\ sync.until <= top /\ sync.sigs[1] <= height /\ sync.sigs[1] \in Nat
  <2>1. CASE len = 0
    BY <2>1, <1>1, <1>2 DEF Before, Top
  <2>2. CASE len > 0
    <3>1. sync.sigs # <<>> /\ 1 \in 1..len /\ len \in 1..len
      BY <2>2, <1>1
    <3>2. before = sync.sigs[len]
      BY <3>1, <1>2 DEF Before
    <3>3. sync.sigs[len] = sync.sigs[1] - len + 1 /\ sync.sigs[1] <= height
      BY <3>1, <1>1 DEF Descends
    <3>4. sync.until < sync.sigs[len]
      BY <3>1, <1>1 DEF Covers
    <3>5. sync.sigs[1] \in Nat /\ sync.sigs[len] \in Nat
      BY <3>1, <1>1
    <3>6. top = sync.sigs[1] - len
      <4>1. before # 0 /\ before \in Nat
        BY <3>2, <3>4, <3>5, <1>1
      <4>2. top = before - 1 /\ len \in Nat
        BY <4>1, <1>1 DEF Top
      <4> QED
        BY <3>2, <3>3, <3>5, <4>2
    <3> QED
      BY <3>2, <3>3, <3>4, <3>5, <3>6, <2>2, <1>1
  <2> QED
    BY <2>1, <2>2, <1>1
<1>4. PICK size \in 0..PageSize :
            /\ page = [i \in 1..size |-> top - i + 1]
            /\ size > 0 => size <= top - sync.until
            /\ size < PageSize => IF top <= sync.until THEN size = 0
                                  ELSE size = top - sync.until
  BY <1>1, <1>2, PageHolds
<1> HIDE DEF top, len
<1>5. size \in Nat /\ \A i \in 1..size : top - i + 1 \in Nat /\ sync.until < top - i + 1
  BY <1>4, <1>1, <1>2, SizesAssumption
<1>6. page \in Seq(Nat) /\ Len(page) = size
  BY <1>4, <1>5
<1> HIDE DEF page
<1>7. /\ all \in Seq(Nat) /\ Len(all) = len + size
      /\ \A i \in 1..len : all[i] = sync.sigs[i]
      /\ \A i \in 1..len + size : i > len => all[i] = top - (i - len) + 1
  <2>1. all \in Seq(Nat) /\ Len(all) = len + size
    <3>1. sync.sigs \in Seq(Nat) /\ page \in Seq(Nat)
      BY <1>1, <1>6
    <3>2. all \in Seq(Nat) /\ Len(all) = Len(sync.sigs) + Len(page)
      BY <3>1
    <3> QED
      BY <3>2, <1>6 DEF len
  <2>2. \A i \in 1..len + size : i > len => i - len \in 1..size
    BY <1>1, <1>5
  <2>3. \A i \in 1..len : all[i] = sync.sigs[i]
    BY <1>1, <1>5, <1>6 DEF len
  <2>4. \A i \in 1..len + size : i > len => all[i] = page[i - len]
    BY <1>1, <1>5, <1>6 DEF len
  <2>5. \A j \in 1..size : page[j] = top - j + 1
    BY <1>4
  <2> QED
    BY <2>1, <2>2, <2>3, <2>4, <2>5
<1> HIDE DEF all
<1>8. \A i \in 1..len + size :
        all[i] = all[1] - i + 1 /\ all[i] <= height /\ sync.until < all[i]
  <2> SUFFICES ASSUME NEW i \in 1..len + size
               PROVE  all[i] = all[1] - i + 1 /\ all[i] <= height /\ sync.until < all[i]
    OBVIOUS
  <2>1. CASE i <= len
    <3>1. i \in 1..len /\ 1 \in 1..len
      BY <2>1, <1>1
    <3> QED
      BY <3>1, <1>7, <1>1 DEF Descends, Covers, len
  <2>2. CASE i > len /\ len = 0
    <3>1. i \in 1..size /\ 1 \in 1..len + size /\ 1 > len /\ i - len = i
      BY <2>2, <1>5
    <3>2. all[i] = top - i + 1 /\ all[1] = top
      BY <3>1, <2>2, <1>7, <1>2
    <3>3. top = height /\ sync.until < top - i + 1
      BY <3>1, <2>2, <1>3, <1>5
    <3> QED
      BY <3>1, <3>2, <3>3, <1>1
  <2>3. CASE i > len /\ len > 0
    <3>1. i - len \in 1..size /\ 1 \in 1..len
      BY <2>3, <1>1, <1>5
    <3>2. all[i] = top - (i - len) + 1 /\ all[1] = sync.sigs[1]
      BY <3>1, <2>3, <1>7
    <3>3. sync.until < top - (i - len) + 1
      BY <3>1, <1>5
    <3>4. top = sync.sigs[1] - len /\ sync.sigs[1] <= height /\ sync.sigs[1] \in Nat
      BY <1>3, <2>3
    <3> QED
      <4>1. i \in Int /\ i >= 1 /\ len \in Int /\ height \in Int
        BY <1>1, <1>5
      <4>2. all[i] = sync.sigs[1] - i + 1
        BY <3>2, <3>4, <4>1
      <4> QED
        BY <3>2, <3>3, <3>4, <4>1, <4>2
  <2> QED
    BY <2>1, <2>2, <2>3, <1>1, <1>5
<1>9. last /\ len + size > 0 => all[len + size] = sync.until + 1
  <2> SUFFICES ASSUME last, len + size > 0 PROVE all[len + size] = sync.until + 1
    OBVIOUS
  <2>1. size < PageSize
    BY <1>6
  <2>2. CASE size = 0
    <3>1. len > 0 /\ top <= sync.until
      BY <2>1, <2>2, <1>4, <1>1, <1>2
    <3>2. /\ sync.until <= top /\ sync.sigs[len] = sync.sigs[1] - len + 1
          /\ top = sync.sigs[1] - len /\ sync.sigs[1] \in Nat /\ len \in 1..len
      BY <3>1, <1>3, <1>1
    <3>3. all[len] = sync.sigs[len]
      BY <3>2, <1>7
    <3>4. top = sync.until
      <4>1. top \in Int /\ sync.until \in Int
        BY <3>2, <1>1
      <4> HIDE DEF top
      <4> QED
        BY <3>1, <3>2, <4>1
    <3>5. len + size = len
      BY <3>2, <2>2
    <3> QED
      BY <3>2, <3>3, <3>4, <3>5, <1>1
  <2>3. CASE size > 0
    <3>1. size = top - sync.until
      BY <2>1, <2>3, <1>4, <1>1, <1>2, <1>5
    <3>2. len + size \in 1..len + size /\ len + size > len /\ (len + size) - len = size
      BY <2>3, <1>1, <1>5
    <3>3. all[len + size] = top - size + 1
      BY <3>2, <1>7
    <3> QED
      BY <3>1, <3>3, <1>1, <1>2, <1>5
  <2> QED
    BY <2>2, <2>3, <1>5
<1>10. CASE last /\ all = <<>>
  <2>1. sync' = NoSync /\ ~ syncing'
    BY <1>10 DEF List, page, all
  <2> QED
    BY <2>1, <1>1 DEF NoSync, SyncTyped, Descends, Covers
<1>11. CASE ~ (last /\ all = <<>>)
  <2>1. sync' = [sync EXCEPT !.sigs = all, !.listed = last] /\ syncing'
    BY <1>11 DEF List, page, all
  <2>2. /\ sync'.sigs = all /\ sync'.listed = last /\ sync'.until = sync.until
        /\ sync' = [until |-> sync.until, sigs |-> all, listed |-> last, next |-> sync.next,
                    inflight |-> sync.inflight, got |-> sync.got]
        /\ sync'.next = sync.next /\ sync'.inflight = sync.inflight /\ sync'.got = sync.got
    BY <2>1, <1>1 DEF SyncTyped
  <2>3. SyncTyped'
    BY <2>2, <1>1, <1>7 DEF SyncTyped
  <2>4. last => len + size > 0
    <3>1. all # <<>> => Len(all) > 0
      BY <1>7
    <3> QED
      BY <3>1, <1>11, <1>7
  <2>5. Descends(sync.sigs)'
    BY <2>2, <1>7, <1>8, <1>1 DEF Descends
  <2>6. Covers(sync.sigs, sync.until, sync.listed)'
    BY <2>2, <2>4, <1>7, <1>8, <1>9, <1>1 DEF Covers
  <2> QED
    BY <2>1, <2>2, <2>3, <2>5, <2>6
<1> QED
  BY <1>10, <1>11

(* One database transaction appends the whole list behind what was placed. *)
LEMMA InsertStep ==
  ASSUME IInv, Insert, NEW n \in 0..height, Placed(n), sync.until = n
  PROVE  \E m \in n + 1..height : Placed(m)'
<1> DEFINE len   == Len(sync.sigs)
           new   == {sync.sigs[i] : i \in DOMAIN sync.sigs}
<1>1. /\ height \in Nat /\ height' = height /\ n \in Nat /\ len \in Nat /\ len > 0
      /\ sync.sigs \in Seq(Nat) /\ DOMAIN sync.sigs = 1..len
      /\ txs' = Inserted
  BY DEF IInv, SyncTyped, Covers, Insert
<1>2. /\ \A i \in 1..len : sync.sigs[i] = sync.sigs[1] - i + 1 /\ sync.sigs[i] <= height
      /\ sync.sigs[len] = n + 1
  BY DEF IInv, Insert, Covers, Descends
<1> HIDE DEF len
<1> PICK after \in Nat : after = n + len
  BY <1>1
<1>3. sync.sigs[1] = after
  <2>1. 1 \in 1..len /\ len \in 1..len
    BY <1>1
  <2>2. sync.sigs[1] \in Nat
    BY <1>1, <2>1 DEF len
  <2>3. sync.sigs[len] = sync.sigs[1] - len + 1
    BY <1>2, <2>1
  <2>4. len \in Nat /\ n \in Nat /\ sync.sigs[len] = n + 1
    BY <1>1, <1>2
  <2> QED
    BY <2>2, <2>3, <2>4
<1>4. after \in n + 1..height
  <2>1. 1 \in 1..len
    BY <1>1
  <2> QED
    BY <1>1, <1>2, <1>3, <2>1
<1>5. \A i \in 1..len : sync.sigs[i] = after - i + 1
  BY <1>2, <1>3
<1>6. new = n + 1..after
  <2>1. \A i \in 1..len : after - i + 1 \in n + 1..after
    BY <1>1
  <2>2. \A s \in n + 1..after : after - s + 1 \in 1..len /\ s = after - (after - s + 1) + 1
    BY <1>1
  <2>3. new \subseteq n + 1..after
    BY <1>1, <1>5, <2>1 DEF new
  <2>4. \A s \in n + 1..after : s \in new
    <3> SUFFICES ASSUME NEW s \in n + 1..after PROVE s \in new
      OBVIOUS
    <3> DEFINE i == after - s + 1
    <3>1. i \in DOMAIN sync.sigs
      BY <1>1, <2>2
    <3>2. sync.sigs[i] = s
      BY <1>1, <1>5, <2>2
    <3> QED
      BY <3>1, <3>2 DEF new
  <2> QED
    BY <2>3, <2>4
<1>7. DOMAIN txs = 1..n /\ \A s \in 1..n : txs[s].ord = s
  BY DEF Placed
<1>8. Fresh = 1..len
  <2>1. \A i \in 1..len : after - i + 1 \notin 1..n
    BY <1>1
  <2> QED
    BY <1>1, <1>5, <1>7, <2>1 DEF Fresh
<1>9. \A s \in n + 1..after : IndexOf(s) = after - s + 1
  <2> SUFFICES ASSUME NEW s \in n + 1..after PROVE IndexOf(s) = after - s + 1
    OBVIOUS
  <2>1. after - s + 1 \in 1..len
    BY <1>1
  <2>2. \A i \in 1..len : sync.sigs[i] = s <=> i = after - s + 1
    <3> SUFFICES ASSUME NEW i \in 1..len PROVE sync.sigs[i] = s <=> i = after - s + 1
      OBVIOUS
    <3>1. sync.sigs[i] = after - i + 1
      BY <1>5
    <3> QED
      BY <3>1, <1>1
  <2> QED
    BY <1>1, <2>1, <2>2 DEF IndexOf
<1>10. \A s \in n + 1..after :
          Cardinality({j \in Fresh : j >= IndexOf(s)}) = s - n
  <2> SUFFICES ASSUME NEW s \in n + 1..after
               PROVE  Cardinality({j \in Fresh : j >= IndexOf(s)}) = s - n
    OBVIOUS
  <2>1. {j \in Fresh : j >= IndexOf(s)} = after - s + 1..len
    BY <1>1, <1>8, <1>9
  <2>2. /\ after - s + 1 \in Int /\ len \in Int /\ ~ (after - s + 1 > len)
        /\ len - (after - s + 1) + 1 = s - n
    BY <1>1
  <2>3. Cardinality(after - s + 1..len) = len - (after - s + 1) + 1
    BY <2>2, FS_Interval
  <2> QED
    BY <2>1, <2>2, <2>3
<1>11. DOMAIN txs \cup new = 1..after
  BY <1>1, <1>6, <1>7
<1>12. Inserted = [s \in 1..after |->
          IF s \in 1..n THEN txs[s]
          ELSE [ord   |-> MaxOrd + Cardinality({j \in Fresh : j >= IndexOf(s)}),
                whole |-> sync.got[IndexOf(s)]]]
  BY <1>7, <1>11 DEF Inserted
<1>13. MaxOrd = n
  BY <1>1, NewestIsLast
<1>14. ASSUME NEW s \in 1..after PROVE txs'[s].ord = s
  <2>1. CASE s \in 1..n
    <3>1. txs'[s] = txs[s]
      BY <1>1, <1>12, <2>1
    <3> QED
      BY <3>1, <1>7, <2>1
  <2>2. CASE s \notin 1..n
    <3>1. s \in n + 1..after
      BY <1>1, <2>2
    <3>2. txs'[s].ord = MaxOrd + Cardinality({j \in Fresh : j >= IndexOf(s)})
      BY <1>1, <1>12, <2>2
    <3> QED
      BY <1>1, <1>10, <1>13, <3>1, <3>2
  <2> QED
    BY <2>1, <2>2
<1>15. txs' = [s \in 1..after |-> txs'[s]]
  BY <1>1, <1>12
<1>16. Placed(after)'
  <2>1. after \in 0..height'
    BY <1>1, <1>4
  <2> QED
    BY <2>1, <1>14, <1>15 DEF Placed
<1> QED
  BY <1>4, <1>16

(* What every step but an Insert leaves of the tables, and what it makes   *)
(* of them: a step is Confirm, Serve or a stutter of the feed.             *)
LEMMA NextIInv ==
  ASSUME IInv, [Next]_vars
  PROVE  IInv' /\ [Feed!Next]_(Feed!vars)
<1>1. PICK n \in 0..height : Placed(n) /\ (syncing => sync.until = n)
  BY DEF IInv
<1>2. height \in Nat /\ n \in Nat /\ SyncTyped /\ Descends(sync.sigs)
      /\ Covers(sync.sigs, sync.until, sync.listed)
      /\ (~ syncing => sync.sigs = <<>>)
  BY DEF IInv
<1>3. ASSUME height' = height, txs' = txs, SyncTyped', Descends(sync.sigs)',
             Covers(sync.sigs, sync.until, sync.listed)', syncing' => sync'.until = n,
             ~ syncing' => sync'.sigs = <<>>
      PROVE  IInv' /\ [Feed!Next]_(Feed!vars)
  <2>1. Placed(n)'
    BY <1>1, <1>3 DEF Placed
  <2>2. Served' = Served
    BY <1>3 DEF Served
  <2> QED
    BY <1>1, <1>2, <1>3, <2>1, <2>2 DEF IInv, Feed!vars
(* A step that leaves of the sync what the invariant speaks of. *)
<1>4. ASSUME height' = height, txs' = txs, SyncTyped', sync'.sigs = sync.sigs,
             sync'.until = sync.until, sync'.listed = sync.listed, syncing' = syncing
      PROVE  IInv' /\ [Feed!Next]_(Feed!vars)
  <2>1. Descends(sync.sigs)' /\ Covers(sync.sigs, sync.until, sync.listed)'
    BY <1>2, <1>4 DEF Descends, Covers
  <2> QED
    BY <1>1, <1>2, <1>3, <1>4, <2>1
(* A step after which no sync runs. *)
<1>5. ASSUME height' = height, txs' = txs, sync' = NoSync, syncing' = FALSE
      PROVE  IInv' /\ [Feed!Next]_(Feed!vars)
  <2>1. SyncTyped' /\ Descends(sync.sigs)' /\ Covers(sync.sigs, sync.until, sync.listed)'
    BY <1>5 DEF NoSync, SyncTyped, Descends, Covers
  <2> QED
    BY <1>3, <1>5, <2>1 DEF NoSync
<1>6. CASE Confirm
  <2>1. /\ height' = height + 1 /\ txs' = txs /\ sync' = sync /\ syncing' = syncing
        /\ height < MaxTxs
    BY <1>6 DEF Confirm
  <2>2. Placed(n)' /\ n \in 0..height'
    BY <1>1, <1>2, <2>1 DEF Placed
  <2>3. SyncTyped' /\ Covers(sync.sigs, sync.until, sync.listed)'
    BY <1>2, <2>1 DEF SyncTyped, Covers
  <2>4. Descends(sync.sigs)'
    <3>1. \A i \in 1..Len(sync.sigs) : sync.sigs[i] \in Nat
      BY <1>2 DEF SyncTyped
    <3> QED
      BY <1>2, <2>1, <3>1 DEF Descends
  <2>5. IInv'
    BY <1>1, <1>2, <2>1, <2>2, <2>3, <2>4 DEF IInv
  <2>6. Served' = Served
    BY <2>1 DEF Served
  <2> QED
    BY <2>1, <2>5, <2>6 DEF Feed!Next, Feed!Confirm
<1>7. CASE Start
  <2>1. /\ height' = height /\ txs' = txs
        /\ sync' = [NoSync EXCEPT !.until = NewestSignature]
    BY <1>7 DEF Start
  <2>2. NewestSignature = n
    BY <1>1, <1>2, NewestIsLast
  <2>3. sync' = [until |-> n, sigs |-> <<>>, listed |-> FALSE, next |-> 1, inflight |-> {},
                 got |-> NoRows]
    BY <2>1, <2>2 DEF NoSync
  <2>4. SyncTyped' /\ Descends(sync.sigs)' /\ Covers(sync.sigs, sync.until, sync.listed)'
        /\ sync'.until = n /\ sync'.sigs = <<>>
    BY <2>3, <1>2 DEF SyncTyped, Descends, Covers
  <2> QED
    BY <1>3, <2>1, <2>4
<1>8. CASE \E before \in 0..MaxTxs : List(before)
  <2>1. PICK before \in 0..MaxTxs : List(before)
    BY <1>8
  <2>2. height' = height /\ txs' = txs /\ syncing
    BY <2>1 DEF List
  <2>3. /\ SyncTyped' /\ Descends(sync.sigs)'
        /\ Covers(sync.sigs, sync.until, sync.listed)'
        /\ (syncing' => sync'.until = sync.until) /\ (~ syncing' => sync'.sigs = <<>>)
    BY <2>1, ListStep
  <2> QED
    BY <1>1, <1>3, <2>2, <2>3
<1>9. CASE Take
  <2>1. /\ height' = height /\ txs' = txs /\ syncing' = syncing
        /\ \E g \in {sync.got, Got(sync.next, fetched[sync.sigs[sync.next]])},
              f \in {sync.inflight, sync.inflight \cup {sync.next}} :
              sync' = [sync EXCEPT !.next = sync.next + 1, !.got = g, !.inflight = f]
    BY <1>2, <1>9 DEF Take, SyncTyped
  <2>2. PICK g, f : sync' = [sync EXCEPT !.next = sync.next + 1, !.got = g, !.inflight = f]
    BY <2>1
  <2>3. SyncTyped' /\ sync'.sigs = sync.sigs /\ sync'.until = sync.until
        /\ sync'.listed = sync.listed
    BY <1>2, <2>2 DEF SyncTyped
  <2> QED
    BY <1>4, <2>1, <2>3
<1>10. CASE \E s \in Signatures : Fetch(s)
  <2>1. PICK i, whole : /\ height' = height /\ txs' = txs /\ syncing' = syncing
                        /\ sync' = [sync EXCEPT !.inflight = @ \ {i}, !.got = Got(i, whole)]
    BY <1>10 DEF Fetch
  <2>2. SyncTyped' /\ sync'.sigs = sync.sigs /\ sync'.until = sync.until
        /\ sync'.listed = sync.listed
    BY <1>2, <2>1 DEF SyncTyped
  <2> QED
    BY <1>4, <2>1, <2>2
<1>11. CASE Fail
  BY <1>5, <1>11 DEF Fail
<1>12. CASE \E s \in Signatures : StrayFetch(s)
  <2>1. height' = height /\ txs' = txs /\ sync' = sync /\ syncing' = syncing
    BY <1>12 DEF StrayFetch
  <2> QED
    BY <1>2, <1>4, <2>1 DEF SyncTyped
<1>13. CASE Insert
  <2>1. height' = height /\ syncing /\ syncing' = FALSE /\ sync' = NoSync
    BY <1>13 DEF Insert
  <2>2. PICK m \in n + 1..height : Placed(m)'
    BY <1>1, <1>13, <2>1, InsertStep
  <2>3. SyncTyped' /\ Descends(sync.sigs)' /\ Covers(sync.sigs, sync.until, sync.listed)'
    BY <2>1 DEF NoSync, SyncTyped, Descends, Covers
  <2>4. m \in Nat /\ m \in 0..height'
    BY <1>2, <2>1
  <2>5. IInv'
    BY <1>2, <2>1, <2>2, <2>3, <2>4 DEF IInv, NoSync
  <2>6. Served = [k \in 1..n |-> k] /\ Len(Served) = n
    <3>1. Served = [k \in 1..n |-> k]
      BY <1>1, <1>2, ServedIsPrefix
    <3> QED
      BY <3>1, <1>2
  <2>7. Served' = [k \in 1..m |-> k]
    <3>1. height' \in Nat
      BY <1>2, <2>1
    <3>2. Cardinality(1..m) = m
      BY <2>4, FS_Interval
    <3>3. /\ DOMAIN txs' = 1..m
          /\ \A k \in 1..m : (CHOOSE s \in DOMAIN txs' : txs'[s].ord = k) = k
      BY <2>2 DEF Placed
    <3> QED
      BY <3>2, <3>3 DEF Served
  <2>8. Feed!Serve
    BY <2>1, <2>2, <2>6, <2>7 DEF Feed!Serve
  <2> QED
    BY <2>5, <2>8 DEF Feed!Next
<1>14. CASE Crash
  BY <1>5, <1>14 DEF Crash
<1>15. CASE UNCHANGED vars
  <2>1. height' = height /\ txs' = txs /\ sync' = sync /\ syncing' = syncing
    BY <1>15 DEF vars
  <2> QED
    BY <1>2, <1>4, <2>1 DEF SyncTyped
<1> QED
  BY <1>6, <1>7, <1>8, <1>9, <1>10, <1>11, <1>12, <1>13, <1>14, <1>15 DEF Next

(* The indexer implements the feed: readers are shown the transactions of  *)
(* the program in chain order with none left out, whatever pages, workers, *)
(* failures and crashes came between (syncOnce, insertNewestFirst).        *)
THEOREM IndexerServesFeed == Spec => FeedRefinement
<1>1. Init => Feed!Init
  <2> SUFFICES ASSUME Init PROVE Feed!Init
    OBVIOUS
  <2>1. height = 0 /\ 0 \in Nat /\ Placed(0)
    BY DEF Init, Placed, NoRows
  <2>2. Served = [k \in 1..0 |-> k]
    BY <2>1, ServedIsPrefix
  <2>3. Served = <<>>
    BY <2>2
  <2> QED
    BY <2>1, <2>3 DEF Feed!Init
<1> QED
  BY <1>1, InitIInv, NextIInv, PTL DEF Spec, FeedRefinement, Feed!Spec

(* What a sync lists is never stored yet, so nothing is placed twice (the  *)
(* newest stored signature is the `until` of every page).                  *)
THEOREM ListedNeverStored == Spec => []ListedAreNew
<1>1. IInv => ListedAreNew
  <2> SUFFICES ASSUME IInv, NEW i \in DOMAIN sync.sigs PROVE sync.sigs[i] \notin DOMAIN txs
    BY DEF ListedAreNew
  <2>1. PICK n \in 0..height : Placed(n) /\ (syncing => sync.until = n)
    BY DEF IInv
  <2>2. sync.sigs \in Seq(Nat) /\ i \in 1..Len(sync.sigs)
    BY DEF IInv, SyncTyped
  <2>3. syncing /\ sync.until < sync.sigs[i]
    BY <2>2 DEF IInv, Covers
  <2>4. DOMAIN txs = 1..n /\ sync.until = n /\ sync.sigs[i] \in Nat
    BY <2>1, <2>2, <2>3 DEF Placed
  <2> QED
    BY <2>1, <2>3, <2>4
<1> QED
  BY <1>1, InitIInv, NextIInv, PTL DEF Spec

-----------------------------------------------------------------------------
(* The faucet's limits, for any wallets, addresses, window and queue. *)

SendRecord == [wallet : Wallets, ip : Ips, at : Nat,
               state : {"inflight", "landed", "failed"}, past : BOOLEAN, tracked : BOOLEAN]

Limiters == [wallets : [Wallets -> Nat], ips : [Ips -> Seq(Nat)], pending : SUBSET Wallets]

Waits(c) == c.phase \in {"confirming", "height"}
Claims == {Idle} \cup [phase : {"reading", "sending"}, wallet : Wallets, ip : Ips]
                 \cup [phase : {"confirming", "height"}, wallet : Wallets, ip : Ips, tx : Nat]

FaucetTyped ==
    /\ now \in Nat \ {0}
    /\ queue \in Seq([wallet : Wallets, ip : Ips])
    /\ current \in Claims
    /\ memory \in Limiters
    /\ file \in [wallets : [Wallets -> Nat], ips : [Ips -> Seq(Nat)]]
    /\ sends \in Seq(SendRecord)
    /\ \A i \in DOMAIN sends : sends[i].at \in 1..now

(* The tracked payments, and those that may still become one, of sends ss; *)
(* and those among them whose claim is over, when c is the one served.     *)
Owed(ss, i) ==
    ss[i].tracked /\ (ss[i].state = "landed" \/ (ss[i].state = "inflight" /\ ~ ss[i].past))
Ended(ss, c) == {i \in DOMAIN ss : Owed(ss, i) /\ ~ (Waits(c) /\ c.tx = i)}

(* The wallets' times ws remember each ended payment for as long as the    *)
(* window lasts, and name no wallet that nothing was sent to.              *)
Honours(ss, E, ws, t) == \A i \in E : ss[i].at + Window <= t \/ ws[ss[i].wallet] >= ss[i].at
Blames(ss, ws) == \A w \in Wallets : ws[w] # 0 => \E i \in DOMAIN ss : ss[i].wallet = w

(* The ended payments of address a that are in the window at time T; and   *)
(* the list of the address has a time for each, among the last ones.       *)
Late(ss, E, a, T) == {i \in E : ss[i].ip = a /\ ss[i].at + Window > T}
Fills(ts, n, T) ==
    /\ n <= Len(ts)
    /\ \A k \in 1..Len(ts) : k > Len(ts) - n => ts[k] + Window > T
Counts(ss, E, is, t) ==
    \A a \in Ips, T \in Nat : T >= t => Fills(is[a], Cardinality(Late(ss, E, a, T)), T)

Sound(ss, E, ws, is, t) ==
    Honours(ss, E, ws, t) /\ Blames(ss, ws) /\ Counts(ss, E, is, t)

(* The claim that is served: nothing was paid to its wallet in the window, *)
(* and less than PerIp to its address; then its own transaction.           *)
MayPay(ss, E, w, a, t) ==
    /\ \A i \in E : ss[i].wallet = w => ss[i].at + Window <= t
    /\ Cardinality(Late(ss, E, a, t)) < PerIp
Serves(ss, c, t) ==
    /\ c.phase \in {"reading", "sending"} => MayPay(ss, Ended(ss, c), c.wallet, c.ip, t)
    /\ Waits(c) => c.tx \in DOMAIN ss /\ ss[c.tx].wallet = c.wallet /\ ss[c.tx].ip = c.ip

(* What the limits promise of payments, of what may become one already.    *)
OwedOnce(ss) ==
    \A i, j \in DOMAIN ss : i < j /\ Owed(ss, i) /\ Owed(ss, j) /\ ss[i].wallet = ss[j].wallet
                              => ss[i].at + Window <= ss[j].at
Beside(ss, j) ==
    {i \in 1..j : Owed(ss, i) /\ ss[i].ip = ss[j].ip /\ ss[i].at + Window > ss[j].at}
OwedPerIp(ss) == \A j \in DOMAIN ss : Owed(ss, j) => Cardinality(Beside(ss, j)) <= PerIp

FaucetInv ==
    /\ FaucetTyped
    /\ Sound(sends, Ended(sends, current), memory.wallets, memory.ips, now)
    /\ Sound(sends, Ended(sends, current), file.wallets, file.ips, now)
    /\ Serves(sends, current, now)
    /\ OwedOnce(sends) /\ OwedPerIp(sends)

-----------------------------------------------------------------------------
(* Lists of times *)

LEMMA FillsFewer ==
  ASSUME NEW ts \in Seq(Nat), NEW n \in Nat, NEW m \in Nat, m <= n, NEW T \in Nat, Fills(ts, n, T)
  PROVE  Fills(ts, m, T)
BY DEF Fills

(* One time more covers one payment more, while it is in the window.       *)
LEMMA FillsAppend ==
  ASSUME NEW ts \in Seq(Nat), NEW n \in Nat, NEW t \in Nat, NEW T \in Nat,
         Fills(ts, n, T), T < t + Window
  PROVE  Fills(Append(ts, t), n + 1, T)
<1>1. /\ Len(ts) \in Nat /\ Len(Append(ts, t)) = Len(ts) + 1
      /\ Append(ts, t)[Len(ts) + 1] = t
      /\ \A k \in 1..Len(ts) : Append(ts, t)[k] = ts[k]
  BY AppendProperties
<1>2. Window \in Nat
  BY FaucetAssumption
<1>3. ASSUME NEW k \in 1..Len(ts) + 1, k > (Len(ts) + 1) - (n + 1)
      PROVE  Append(ts, t)[k] + Window > T
  <2>1. CASE k = Len(ts) + 1
    BY <1>1, <1>2, <2>1
  <2>2. CASE k # Len(ts) + 1
    <3>1. k \in 1..Len(ts) /\ k > Len(ts) - n
      BY <1>1, <1>3, <2>2
    <3> QED
      BY <1>1, <3>1 DEF Fills
  <2> QED
    BY <2>1, <2>2
<1> QED
  BY <1>1, <1>3 DEF Fills

(* Pruning takes times away that the window has left behind, and these are *)
(* not among the last n.                                                   *)
LEMMA FillsRecent ==
  ASSUME now \in Nat, NEW ts \in Seq(Nat)
  PROVE  /\ Recent(ts) \in Seq(Nat)
         /\ \A n \in Nat, T \in Nat : T >= now /\ Fills(ts, n, T) => Fills(Recent(ts), n, T)
<1> DEFINE old == {i \in DOMAIN ts : ~ InWindow(ts[i])}
           c   == Cardinality(old)
           L   == Len(ts)
<1>1. L = Len(ts) /\ L \in Nat /\ DOMAIN ts = 1..L /\ Window \in Nat
  BY FaucetAssumption
<1>0. \A k \in 1..L : ts[k] \in Nat
  OBVIOUS
<1>2. ASSUME NEW n \in 0..L, \A k \in 1..L : k > L - n => InWindow(ts[k])
      PROVE  c \in Nat /\ c <= L - n
  <2>1. old \in SUBSET (1..(L - n))
    BY <1>1, <1>2
  <2>2. IsFiniteSet(1..(L - n)) /\ Cardinality(1..(L - n)) = L - n
    <3>1. 1 \in Int /\ L - n \in Int /\ L - n >= 0
      BY <1>1
    <3> HIDE DEF L
    <3>2. /\ IsFiniteSet(1..(L - n))
          /\ Cardinality(1..(L - n)) = IF 1 > L - n THEN 0 ELSE (L - n) - 1 + 1
      BY <3>1, FS_Interval
    <3> QED
      BY <3>1, <3>2
  <2> HIDE DEF old
  <2>3. IsFiniteSet(old) /\ Cardinality(old) <= Cardinality(1..(L - n))
    BY <2>1, <2>2, FS_Subset
  <2>4. Cardinality(old) \in Nat
    BY <2>3, FS_CardinalityType
  <2> QED
    BY <2>2, <2>3, <2>4
<1>3. c \in Nat /\ c <= L
  <2>1. 0 \in 0..L /\ \A k \in 1..L : k > L - 0 => InWindow(ts[k])
    BY <1>1
  <2>2. c \in Nat /\ c <= L - 0
    BY <1>2, <2>1
  <2> QED
    BY <1>1, <2>2
<1>4. Recent(ts) = SubSeq(ts, c + 1, L)
  BY DEF Recent
<1> HIDE DEF c, old, L
<1>5. /\ SubSeq(ts, c + 1, L) \in Seq(Nat)
      /\ Len(SubSeq(ts, c + 1, L)) = L - c
      /\ \A k \in 1..(L - c) : SubSeq(ts, c + 1, L)[k] = ts[k + c]
  <2>1. /\ c + 1 \in Int /\ L \in Int /\ L - (c + 1) + 1 = L - c
        /\ (IF c + 1 <= L THEN L - (c + 1) + 1 ELSE 0) = L - c
        /\ \A i \in 1..(L - c) : (c + 1) + i - 1 = i + c
        /\ \A i \in (c + 1)..L : ts[i] \in Nat
    BY <1>0, <1>1, <1>3
  <2>2. /\ SubSeq(ts, c + 1, L) \in Seq(Nat)
        /\ Len(SubSeq(ts, c + 1, L)) = IF c + 1 <= L THEN L - (c + 1) + 1 ELSE 0
        /\ \A i \in 1..(L - (c + 1) + 1) : SubSeq(ts, c + 1, L)[i] = ts[(c + 1) + i - 1]
    BY <2>1, SubSeqProperties
  <2> DEFINE r == SubSeq(ts, c + 1, L)
  <2>3. r \in Seq(Nat) /\ Len(r) = L - c
    BY <2>1, <2>2
  <2>4. \A i \in 1..(L - c) : r[i] = ts[i + c]
    BY <2>1, <2>2
  <2> QED
    BY <2>3, <2>4
<1>6. ASSUME NEW n \in Nat, NEW T \in Nat, T >= now, Fills(ts, n, T)
      PROVE  Fills(Recent(ts), n, T)
  <2>1. n \in 0..L /\ \A k \in 1..L : k > L - n => ts[k] + Window > T
    BY <1>1, <1>6 DEF Fills
  <2>2. c <= L - n
    <3>1. ASSUME NEW k \in 1..L, k > L - n PROVE InWindow(ts[k])
      <4>1. ts[k] \in Nat /\ ts[k] + Window > T /\ T >= now /\ T \in Nat /\ Window \in Nat
        BY <1>0, <1>1, <1>6, <2>1, <3>1
      <4> QED
        BY <4>1 DEF InWindow
    <3> QED
      BY <1>2, <2>1, <3>1
  <2>3. n <= L - c
    BY <1>1, <1>3, <2>1, <2>2
  <2>4. ASSUME NEW k \in 1..(L - c), k > (L - c) - n
        PROVE  ts[k + c] + Window > T
    BY <1>1, <1>3, <2>1, <2>4
  <2> QED
    BY <1>4, <1>5, <2>3, <2>4 DEF Fills
<1> QED
  BY <1>4, <1>5, <1>6

-----------------------------------------------------------------------------
(* What the limiter's books remember of the payments *)

LEMMA EndedFinite ==
  ASSUME NEW ss \in Seq(SendRecord), NEW c
  PROVE  /\ IsFiniteSet(Ended(ss, c)) /\ Ended(ss, c) \subseteq DOMAIN ss
         /\ \A i \in DOMAIN ss : /\ ss[i] \in SendRecord /\ ss[i].at \in Nat
                                 /\ ss[i].wallet \in Wallets /\ ss[i].ip \in Ips
<1>1. Ended(ss, c) \in SUBSET (1..Len(ss)) /\ DOMAIN ss = 1..Len(ss) /\ Len(ss) \in Int
  BY DEF Ended
<1>2. IsFiniteSet(1..Len(ss))
  BY <1>1, FS_Interval
<1>3. \A i \in DOMAIN ss : ss[i] \in SendRecord
  BY <1>1
<1> QED
  BY <1>1, <1>2, <1>3, FS_Subset DEF SendRecord

LEMMA LateCounted ==
  ASSUME NEW E, IsFiniteSet(E), NEW ss, NEW a, NEW T
  PROVE  IsFiniteSet(Late(ss, E, a, T)) /\ Cardinality(Late(ss, E, a, T)) \in Nat
<1>1. Late(ss, E, a, T) \in SUBSET E
  BY DEF Late
<1>2. IsFiniteSet(Late(ss, E, a, T))
  BY <1>1, FS_Subset
<1> QED
  BY <1>2, FS_CardinalityType

(* Fewer ended payments, and later: no more of them are in the window.     *)
LEMMA LateFewer ==
  ASSUME NEW E, IsFiniteSet(E), NEW ss, NEW tt, NEW D \in SUBSET E,
         \A i \in D : tt[i].ip = ss[i].ip /\ tt[i].at = ss[i].at /\ ss[i].at \in Nat,
         NEW a, NEW T \in Nat, NEW U \in Nat, T <= U
  PROVE  Cardinality(Late(tt, D, a, U)) <= Cardinality(Late(ss, E, a, T))
<1>1. \A i \in D : tt[i].at + Window > U => ss[i].at + Window > T
  BY FaucetAssumption
<1>2. Late(tt, D, a, U) \in SUBSET Late(ss, E, a, T)
  BY <1>1 DEF Late
<1>3. IsFiniteSet(Late(ss, E, a, T))
  BY LateCounted
<1> QED
  BY <1>2, <1>3, FS_Subset

LEMMA SoundKept ==
  ASSUME NEW ss, NEW tt, NEW E, IsFiniteSet(E), NEW D \in SUBSET E,
         E \subseteq DOMAIN ss, DOMAIN ss \subseteq DOMAIN tt,
         \A i \in DOMAIN ss : /\ tt[i].wallet = ss[i].wallet /\ tt[i].ip = ss[i].ip
                              /\ tt[i].at = ss[i].at /\ ss[i].at \in Nat,
         NEW ws, NEW is \in [Ips -> Seq(Nat)], NEW t \in Nat, NEW u \in Nat, t <= u,
         Sound(ss, E, ws, is, t)
  PROVE  Sound(tt, D, ws, is, u)
<1>1. Honours(tt, D, ws, u)
  <2> SUFFICES ASSUME NEW i \in D, ~ (ws[tt[i].wallet] >= tt[i].at)
               PROVE  tt[i].at + Window <= u
    BY DEF Honours
  <2>1. ss[i].at + Window <= t /\ tt[i].at = ss[i].at /\ ss[i].at \in Nat
    BY DEF Sound, Honours
  <2> QED
    BY <2>1, FaucetAssumption
<1>2. Blames(tt, ws)
  BY DEF Sound, Blames
<1>3. Counts(tt, D, is, u)
  <2> SUFFICES ASSUME NEW a \in Ips, NEW T \in Nat, T >= u
               PROVE  Fills(is[a], Cardinality(Late(tt, D, a, T)), T)
    BY DEF Counts
  <2>1. Fills(is[a], Cardinality(Late(ss, E, a, T)), T)
    BY DEF Sound, Counts
  <2>2. IsFiniteSet(D)
    BY FS_Subset
  <2>3. /\ Cardinality(Late(ss, E, a, T)) \in Nat /\ Cardinality(Late(tt, D, a, T)) \in Nat
    BY <2>2, LateCounted
  <2>4. Cardinality(Late(tt, D, a, T)) <= Cardinality(Late(ss, E, a, T))
    <3>1. \A i \in D : tt[i].ip = ss[i].ip /\ tt[i].at = ss[i].at /\ ss[i].at \in Nat
      OBVIOUS
    <3>2. T <= T
      OBVIOUS
    <3> QED
      BY <3>1, <3>2, LateFewer
  <2>5. is[a] \in Seq(Nat)
    OBVIOUS
  <2> QED
    BY <2>1, <2>3, <2>4, <2>5, FillsFewer
<1> QED
  BY <1>1, <1>2, <1>3 DEF Sound

(* Pruning forgets only what the window has left behind. *)
Kept(ws) == [w \in Wallets |-> IF InWindow(ws[w]) THEN ws[w] ELSE 0]
KeptLists(is) == [a \in Ips |-> Recent(is[a])]

LEMMA SoundPruned ==
  ASSUME now \in Nat, NEW ss \in Seq(SendRecord), NEW c, NEW ws \in [Wallets -> Nat],
         NEW is \in [Ips -> Seq(Nat)], \A i \in DOMAIN ss : ss[i].at > 0,
         Sound(ss, Ended(ss, c), ws, is, now)
  PROVE  /\ Kept(ws) \in [Wallets -> Nat] /\ KeptLists(is) \in [Ips -> Seq(Nat)]
         /\ Sound(ss, Ended(ss, c), Kept(ws), KeptLists(is), now)
<1> DEFINE E == Ended(ss, c)
<1>0. /\ IsFiniteSet(E)
      /\ \A i \in E : i \in DOMAIN ss /\ ss[i].at \in Nat /\ ss[i].at > 0 /\ ss[i].wallet \in Wallets
  BY EndedFinite
<1> HIDE DEF E
<1>1. Kept(ws) \in [Wallets -> Nat] /\ KeptLists(is) \in [Ips -> Seq(Nat)]
  BY FillsRecent DEF Kept, KeptLists
<1>2. Honours(ss, E, Kept(ws), now)
  <2> SUFFICES ASSUME NEW i \in E, ~ (Kept(ws)[ss[i].wallet] >= ss[i].at)
               PROVE  ss[i].at + Window <= now
    BY DEF Honours
  <2> DEFINE w == ss[i].wallet
  <2>1. /\ ss[i].at \in Nat /\ ss[i].at > 0 /\ w \in Wallets /\ ws[w] \in Nat /\ Window \in Nat
        /\ ss[i].at + Window <= now \/ ws[w] >= ss[i].at
    BY <1>0, FaucetAssumption DEF Sound, Honours, E
  <2>2. Kept(ws)[w] = IF ws[w] + Window > now THEN ws[w] ELSE 0
    BY <2>1 DEF Kept, InWindow
  <2> QED
    BY <2>1, <2>2
<1>3. Blames(ss, Kept(ws))
  BY DEF Sound, Blames, Kept
<1>4. Counts(ss, E, KeptLists(is), now)
  <2> SUFFICES ASSUME NEW a \in Ips, NEW T \in Nat, T >= now
               PROVE  Fills(KeptLists(is)[a], Cardinality(Late(ss, E, a, T)), T)
    BY DEF Counts
  <2>1. Fills(is[a], Cardinality(Late(ss, E, a, T)), T)
    BY DEF Sound, Counts, E
  <2>2. Cardinality(Late(ss, E, a, T)) \in Nat
    BY <1>0, LateCounted
  <2>3. is[a] \in Seq(Nat) /\ KeptLists(is)[a] = Recent(is[a])
    BY DEF KeptLists
  <2> QED
    BY <2>1, <2>2, <2>3, FillsRecent
<1> QED
  BY <1>1, <1>2, <1>3, <1>4 DEF Sound, E

(* Counting a claim makes up for the one transaction it sent. *)
Stamped(ws, w) == [ws EXCEPT ![w] = now]
Added(is, a) == [is EXCEPT ![a] = Append(is[a], now)]

LEMMA SoundCounted ==
  ASSUME now \in Nat, NEW ss, NEW E, IsFiniteSet(E), NEW x \in DOMAIN ss,
         NEW D, D \subseteq E \cup {x}, E \subseteq DOMAIN ss,
         \A i \in DOMAIN ss : ss[i].at \in 1..now /\ ss[i].wallet \in Wallets,
         NEW ws \in [Wallets -> Nat], NEW is \in [Ips -> Seq(Nat)],
         NEW w \in Wallets, NEW a \in Ips, ss[x].wallet = w, ss[x].ip = a,
         Sound(ss, E, ws, is, now)
  PROVE  /\ Stamped(ws, w) \in [Wallets -> Nat] /\ Added(is, a) \in [Ips -> Seq(Nat)]
         /\ Sound(ss, D, Stamped(ws, w), Added(is, a), now)
<1>0. \A i \in DOMAIN ss : ss[i].at \in Nat /\ ss[i].at <= now
  OBVIOUS
<1>1. Stamped(ws, w) \in [Wallets -> Nat] /\ Added(is, a) \in [Ips -> Seq(Nat)]
  <2>1. Append(is[a], now) \in Seq(Nat)
    OBVIOUS
  <2> QED
    BY <2>1 DEF Stamped, Added
<1>2. Honours(ss, D, Stamped(ws, w), now)
  <2> SUFFICES ASSUME NEW i \in D
               PROVE  ss[i].at + Window <= now \/ Stamped(ws, w)[ss[i].wallet] >= ss[i].at
    BY DEF Honours
  <2>1. CASE ss[i].wallet = w
    BY <1>0, <2>1 DEF Stamped
  <2>2. CASE ss[i].wallet # w
    <3>1. i \in E /\ Stamped(ws, w)[ss[i].wallet] = ws[ss[i].wallet]
      BY <2>2 DEF Stamped
    <3> QED
      BY <3>1 DEF Sound, Honours
  <2> QED
    BY <2>1, <2>2
<1>3. Blames(ss, Stamped(ws, w))
  BY DEF Sound, Blames, Stamped
<1>4. Counts(ss, D, Added(is, a), now)
  <2> SUFFICES ASSUME NEW b \in Ips, NEW T \in Nat, T >= now
               PROVE  Fills(Added(is, a)[b], Cardinality(Late(ss, D, b, T)), T)
    BY DEF Counts
  <2> DEFINE n == Cardinality(Late(ss, E, b, T))
             m == Cardinality(Late(ss, D, b, T))
  <2>1. Fills(is[b], n, T) /\ is[b] \in Seq(Nat)
    BY DEF Sound, Counts
  <2>2. IsFiniteSet(Late(ss, E, b, T)) /\ n \in Nat
    BY LateCounted
  <2>3. IsFiniteSet(E \cup {x})
    BY FS_AddElement
  <2>4. IsFiniteSet(D) /\ m \in Nat
    BY <2>3, FS_Subset, LateCounted
  <2>5. CASE b # a
    <3>1. Late(ss, D, b, T) \in SUBSET Late(ss, E, b, T)
      BY <2>5 DEF Late
    <3>2. m <= n
      BY <2>2, <3>1, FS_Subset
    <3>3. Added(is, a)[b] = is[b]
      BY <2>5 DEF Added
    <3> HIDE DEF m, n
    <3>4. Fills(is[b], m, T)
      BY <2>1, <2>2, <2>4, <3>2, FillsFewer
    <3> QED
      BY <3>3, <3>4 DEF m
  <2>6. CASE b = a /\ T < now + Window
    <3>1. Late(ss, D, b, T) \in SUBSET (Late(ss, E, b, T) \cup {x})
      BY DEF Late
    <3>2. /\ IsFiniteSet(Late(ss, E, b, T) \cup {x})
          /\ Cardinality(Late(ss, E, b, T) \cup {x}) <= n + 1
      <4>1. /\ IsFiniteSet(Late(ss, E, b, T) \cup {x})
            /\ Cardinality(Late(ss, E, b, T) \cup {x})
                 = IF x \in Late(ss, E, b, T) THEN n ELSE n + 1
        BY <2>2, FS_AddElement
      <4> HIDE DEF n
      <4> QED
        BY <2>2, <4>1
    <3>3. m <= Cardinality(Late(ss, E, b, T) \cup {x})
      BY <3>1, <3>2, FS_Subset
    <3>4. Cardinality(Late(ss, E, b, T) \cup {x}) \in Nat
      BY <3>2, FS_CardinalityType
    <3> HIDE DEF n, m
    <3>5. m <= n + 1 /\ n + 1 \in Nat
      BY <2>2, <2>4, <3>2, <3>3, <3>4
    <3>6. Fills(Append(is[b], now), n + 1, T)
      BY <2>1, <2>2, <2>6, FillsAppend
    <3>7. Append(is[b], now) \in Seq(Nat)
      BY <2>1
    <3>8. Fills(Append(is[b], now), m, T)
      BY <2>4, <3>5, <3>6, <3>7, FillsFewer
    <3>9. Added(is, a)[b] = Append(is[b], now)
      BY <2>6 DEF Added
    <3> QED
      BY <3>8, <3>9 DEF m
  <2>7. CASE b = a /\ T >= now + Window
    <3>1. ASSUME NEW i \in D PROVE ~ (ss[i].at + Window > T)
      <4>1. ss[i].at \in Nat /\ ss[i].at <= now /\ Window \in Nat
        BY <1>0, FaucetAssumption
      <4> QED
        BY <2>7, <4>1
    <3>2. Late(ss, D, b, T) = {}
      BY <3>1 DEF Late
    <3>3. m = 0
      BY <3>2, FS_EmptySet
    <3>4. Added(is, a)[b] \in Seq(Nat)
      BY <1>1
    <3>5. Fills(Added(is, a)[b], 0, T)
      BY <3>4 DEF Fills
    <3> QED
      BY <3>3, <3>5
  <2>8. now + Window \in Nat
    BY FaucetAssumption
  <2> QED
    BY <2>5, <2>6, <2>7, <2>8
<1> QED
  BY <1>1, <1>2, <1>3, <1>4 DEF Sound

-----------------------------------------------------------------------------
(* Sends that go on from ss to tt: none is forgotten. *)
Same(ss, tt) ==
    /\ DOMAIN ss \subseteq DOMAIN tt
    /\ \A i \in DOMAIN ss : /\ tt[i].wallet = ss[i].wallet /\ tt[i].ip = ss[i].ip
                            /\ tt[i].at = ss[i].at

LEMMA BesideCounted ==
  ASSUME NEW ss \in Seq(SendRecord), NEW j \in DOMAIN ss
  PROVE  IsFiniteSet(Beside(ss, j)) /\ Cardinality(Beside(ss, j)) \in Nat
<1>1. Beside(ss, j) \in SUBSET (1..j)
  BY DEF Beside
<1>2. IsFiniteSet(1..j)
  <2>1. j \in Int
    OBVIOUS
  <2> QED
    BY <2>1, FS_Interval
<1>3. IsFiniteSet(Beside(ss, j))
  BY <1>1, <1>2, FS_Subset
<1> QED
  BY <1>3, FS_CardinalityType

(* While no payment becomes possible that was not, the limits stay kept.   *)
LEMMA LimitsKept ==
  ASSUME NEW ss \in Seq(SendRecord), NEW tt \in Seq(SendRecord), Same(ss, tt),
         \A i \in DOMAIN tt : Owed(tt, i) => i \in DOMAIN ss /\ Owed(ss, i),
         OwedOnce(ss), OwedPerIp(ss)
  PROVE  OwedOnce(tt) /\ OwedPerIp(tt)
<1>1. OwedOnce(tt)
  BY DEF OwedOnce, Same
<1>2. OwedPerIp(tt)
  <2> SUFFICES ASSUME NEW j \in DOMAIN tt, Owed(tt, j)
               PROVE  Cardinality(Beside(tt, j)) <= PerIp
    BY DEF OwedPerIp
  <2>1. j \in DOMAIN ss /\ Owed(ss, j) /\ 1..j \subseteq DOMAIN ss
    <3>1. j \in DOMAIN ss /\ Owed(ss, j) /\ DOMAIN ss = 1..Len(ss) /\ Len(ss) \in Nat
      OBVIOUS
    <3> QED
      BY <3>1
  <2>2. Beside(tt, j) \in SUBSET Beside(ss, j)
    BY <2>1 DEF Beside, Same
  <2>3. IsFiniteSet(Beside(ss, j)) /\ Cardinality(Beside(ss, j)) \in Nat
    BY <2>1, BesideCounted
  <2>4. IsFiniteSet(Beside(tt, j)) /\ Cardinality(Beside(tt, j)) <= Cardinality(Beside(ss, j))
    BY <2>2, <2>3, FS_Subset
  <2>5. Cardinality(Beside(ss, j)) <= PerIp
    BY <2>1 DEF OwedPerIp
  <2>6. Cardinality(Beside(tt, j)) \in Nat /\ PerIp \in Nat
    BY <2>4, FS_CardinalityType, FaucetAssumption
  <2> QED
    BY <2>3, <2>4, <2>5, <2>6
<1> QED
  BY <1>1, <1>2

LEMMA ServesKept ==
  ASSUME NEW ss \in Seq(SendRecord), NEW tt, Same(ss, tt), NEW c,
         Ended(tt, c) \subseteq Ended(ss, c), NEW t \in Nat, NEW u \in Nat, t <= u,
         Serves(ss, c, t)
  PROVE  Serves(tt, c, u)
<1> DEFINE E == Ended(ss, c)
           D == Ended(tt, c)
<1>1. /\ IsFiniteSet(E) /\ D \in SUBSET E /\ E \subseteq DOMAIN ss
      /\ \A i \in DOMAIN ss : ss[i].at \in Nat
  BY EndedFinite
<1> HIDE DEF E, D
<1>2. ASSUME MayPay(ss, E, c.wallet, c.ip, t)
      PROVE  MayPay(tt, D, c.wallet, c.ip, u)
  <2>1. \A i \in D : tt[i].ip = ss[i].ip /\ tt[i].at = ss[i].at /\ ss[i].at \in Nat
                       /\ tt[i].wallet = ss[i].wallet
    BY <1>1 DEF Same
  <2>2. ASSUME NEW i \in D, tt[i].wallet = c.wallet PROVE tt[i].at + Window <= u
    <3>1. i \in E /\ ss[i].wallet = c.wallet /\ ss[i].at \in Nat /\ tt[i].at = ss[i].at
      BY <1>1, <2>1, <2>2
    <3>2. ss[i].at + Window <= t
      BY <1>2, <3>1 DEF MayPay
    <3>3. Window \in Nat
      BY FaucetAssumption
    <3>4. ss[i].at + Window <= u
      BY <3>1, <3>2, <3>3
    <3> QED
      BY <3>1, <3>4
  <2>3. IsFiniteSet(D)
    BY <1>1, FS_Subset
  <2>4. /\ Cardinality(Late(ss, E, c.ip, t)) \in Nat /\ Cardinality(Late(tt, D, c.ip, u)) \in Nat
        /\ Cardinality(Late(tt, D, c.ip, u)) <= Cardinality(Late(ss, E, c.ip, t))
    BY <1>1, <2>1, <2>3, LateCounted, LateFewer
  <2>5. Cardinality(Late(tt, D, c.ip, u)) < PerIp
    BY <1>2, <2>4, FaucetAssumption DEF MayPay
  <2> QED
    BY <2>2, <2>5 DEF MayPay
<1> QED
  BY <1>2 DEF Serves, Same, E, D

(* A step that counts no claim: what memory holds afterwards was sound     *)
(* before, and no payment becomes possible.                                *)
Quiet ==
    /\ file' = file /\ memory' \in Limiters
    /\ Sound(sends, Ended(sends, current), memory'.wallets, memory'.ips, now)
    /\ now' \in Nat /\ now <= now'
    /\ queue' \in Seq([wallet : Wallets, ip : Ips]) /\ current' \in Claims
    /\ sends' \in Seq(SendRecord) /\ Same(sends, sends')
    /\ \A i \in DOMAIN sends' : sends'[i].at \in 1..now'
    /\ \A i \in DOMAIN sends' : Owed(sends', i) => i \in DOMAIN sends /\ Owed(sends, i)
    /\ Ended(sends', current') \subseteq Ended(sends, current)
    /\ Serves(sends', current', now')

LEMMA QuietStep ==
  ASSUME FaucetInv, Quiet
  PROVE  FaucetInv'
<1>1. /\ now \in Nat /\ now > 0 /\ now' \in Nat /\ now <= now'
      /\ sends \in Seq(SendRecord) /\ sends' \in Seq(SendRecord) /\ Same(sends, sends')
      /\ file' = file
  BY DEF FaucetInv, FaucetTyped, Quiet
<1>2. FaucetTyped'
  BY <1>1 DEF FaucetInv, FaucetTyped, Quiet
<1> DEFINE E == Ended(sends, current)
           D == Ended(sends', current')
<1>3. /\ IsFiniteSet(E) /\ E \subseteq DOMAIN sends /\ D \in SUBSET E
      /\ \A i \in DOMAIN sends : sends[i].at \in Nat
  BY <1>1, EndedFinite DEF Quiet
<1> HIDE DEF E, D
<1>4. ASSUME NEW ws, NEW is \in [Ips -> Seq(Nat)], Sound(sends, E, ws, is, now)
      PROVE  Sound(sends', D, ws, is, now')
  <2>1. \A i \in DOMAIN sends : /\ sends'[i].wallet = sends[i].wallet /\ sends'[i].ip = sends[i].ip
                                /\ sends'[i].at = sends[i].at /\ sends[i].at \in Nat
    BY <1>1, <1>3 DEF Same
  <2>2. DOMAIN sends \subseteq DOMAIN sends'
    BY <1>1 DEF Same
  <2> QED
    BY <1>1, <1>3, <1>4, <2>1, <2>2, SoundKept
<1>5. memory'.ips \in [Ips -> Seq(Nat)] /\ file.ips \in [Ips -> Seq(Nat)]
  BY DEF Quiet, FaucetInv, FaucetTyped, Limiters
<1>6. Sound(sends', D, memory'.wallets, memory'.ips, now')
  BY <1>4, <1>5 DEF Quiet, E
<1>7. Sound(sends', D, file.wallets, file.ips, now')
  BY <1>4, <1>5 DEF FaucetInv, E
<1>8. OwedOnce(sends') /\ OwedPerIp(sends')
  BY <1>1, LimitsKept DEF Quiet, FaucetInv
<1>9. Serves(sends', current', now')
  BY DEF Quiet
<1> QED
  BY <1>1, <1>2, <1>6, <1>7, <1>8, <1>9 DEF FaucetInv, D

(* The chain and the clock as they were. *)
LEMMA CalmStep ==
  ASSUME FaucetInv, sends' = sends, now' = now, file' = file,
         queue' \in Seq([wallet : Wallets, ip : Ips]), current' \in Claims,
         memory' \in Limiters,
         Sound(sends, Ended(sends, current), memory'.wallets, memory'.ips, now),
         Ended(sends, current') \subseteq Ended(sends, current), Serves(sends, current', now)
  PROVE  FaucetInv'
<1>1. Same(sends, sends')
  BY DEF Same
<1>2. now \in Nat /\ now <= now'
  BY DEF FaucetInv, FaucetTyped
<1>3. Quiet
  BY <1>1, <1>2 DEF Quiet, FaucetInv, FaucetTyped
<1> QED
  BY <1>3, QuietStep

LEMMA IdleServes ==
  ASSUME NEW ss, NEW t
  PROVE  Serves(ss, Idle, t) /\ Idle \in Claims /\ ~ Waits(Idle)
BY DEF Serves, Waits, Idle, Claims

LEMMA RequestStep ==
  ASSUME FaucetInv, NEW w \in Wallets, NEW a \in Ips, Request(w, a)
  PROVE  FaucetInv'
<1>1. [wallet |-> w, ip |-> a] \in [wallet : Wallets, ip : Ips]
  OBVIOUS
<1>2. queue' \in Seq([wallet : Wallets, ip : Ips])
  BY <1>1 DEF Request, FaucetInv, FaucetTyped
<1>3. UNCHANGED <<now, current, memory, file, sends>>
  BY DEF Request
<1> QED
  BY <1>2, <1>3, CalmStep DEF FaucetInv, FaucetTyped

(* What pruning, a release and a count make of the limiter. *)
LEMMA PrunedParts ==
  ASSUME NEW m \in Limiters, now \in Nat
  PROVE  /\ Pruned(m) \in Limiters
         /\ Pruned(m).wallets = Kept(m.wallets) /\ Pruned(m).ips = KeptLists(m.ips)
<1>1. Kept(m.wallets) \in [Wallets -> Nat] /\ KeptLists(m.ips) \in [Ips -> Seq(Nat)]
  BY FillsRecent DEF Kept, KeptLists, Limiters
<1>2. Pruned(m) = [m EXCEPT !.wallets = Kept(m.wallets), !.ips = KeptLists(m.ips)]
  BY Zenon DEF Pruned, Kept, KeptLists
<1> QED
  BY <1>1, <1>2 DEF Limiters

LEMMA ReleasedParts ==
  ASSUME NEW m \in Limiters, NEW w
  PROVE  /\ Released(m, w) \in Limiters
         /\ Released(m, w).wallets = m.wallets /\ Released(m, w).ips = m.ips
  BY DEF Released, Limiters

LEMMA CountedParts ==
  ASSUME now \in Nat, NEW m \in Limiters, NEW w \in Wallets, NEW a \in Ips
  PROVE  /\ Counted(m, w, a) \in Limiters
         /\ Counted(m, w, a).wallets = Stamped(m.wallets, w)
         /\ Counted(m, w, a).ips = Added(m.ips, a)
<1>1. /\ m.wallets \in [Wallets -> Nat] /\ m.ips \in [Ips -> Seq(Nat)]
      /\ m.pending \in SUBSET Wallets
  BY DEF Limiters
<1>2. Stamped(m.wallets, w) \in [Wallets -> Nat] /\ Added(m.ips, a) \in [Ips -> Seq(Nat)]
  <2>1. Append(m.ips[a], now) \in Seq(Nat)
    BY <1>1
  <2> QED
    BY <1>1, <2>1 DEF Stamped, Added
<1>3. Counted(m, w, a) = [wallets |-> Stamped(m.wallets, w), ips |-> Added(m.ips, a),
                          pending |-> m.pending \ {w}]
  <2> DEFINE m1 == [m EXCEPT !.pending = m.pending \ {w}]
             m2 == [m1 EXCEPT !.wallets = [m1.wallets EXCEPT ![w] = now]]
             m3 == [m2 EXCEPT !.ips = [m2.ips EXCEPT ![a] = Append(m.ips[a], now)]]
             ws == Stamped(m.wallets, w)
             is == Added(m.ips, a)
             ps == m.pending \ {w}
  <2>1. Counted(m, w, a) = m3
    BY DEF Counted
  <2>2. m = [wallets |-> m.wallets, ips |-> m.ips, pending |-> m.pending]
    BY DEF Limiters
  <2>3. m1 = [wallets |-> m.wallets, ips |-> m.ips, pending |-> ps]
    BY <2>2
  <2> HIDE DEF m1, ps
  <2>4. m2 = [wallets |-> ws, ips |-> m.ips, pending |-> ps]
    BY <2>3 DEF Stamped
  <2> HIDE DEF m2, ws
  <2> DEFINE m3ips == [m2.ips EXCEPT ![a] = Append(m.ips[a], now)]
  <2>5. m3ips = is
    BY <2>4 DEF Added
  <2>6. m3 = [m2 EXCEPT !.ips = m3ips]
    OBVIOUS
  <2> HIDE DEF m3ips, is, m3
  <2>7. m3 = [wallets |-> ws, ips |-> is, pending |-> ps]
    BY <2>4, <2>5, <2>6
  <2> QED
    BY <2>1, <2>7 DEF ws, ps, is
<1> QED
  BY <1>1, <1>2, <1>3 DEF Limiters

LEMMA BeginStep ==
  ASSUME FaucetInv, Begin
  PROVE  FaucetInv'
<1> DEFINE c == Head(queue)
           m == Pruned(memory)
           E == Ended(sends, current)
<1>1. /\ c \in [wallet : Wallets, ip : Ips]
      /\ queue' \in Seq([wallet : Wallets, ip : Ips])
      /\ UNCHANGED <<now, file, sends>> /\ current = Idle
  <2> DEFINE T == [wallet : Wallets, ip : Ips]
  <2>1. queue \in Seq(T) /\ queue # <<>> /\ queue' = Tail(queue)
    BY DEF Begin, FaucetInv, FaucetTyped
  <2> HIDE DEF T
  <2>2. Head(queue) \in T /\ Tail(queue) \in Seq(T)
    BY <2>1
  <2>3. UNCHANGED <<now, file, sends>> /\ current = Idle
    BY DEF Begin, Finish
  <2> QED
    BY <2>1, <2>2, <2>3 DEF T
<1>2. /\ now \in Nat /\ memory \in Limiters /\ sends \in Seq(SendRecord)
      /\ \A i \in DOMAIN sends : sends[i].at \in Nat /\ sends[i].at > 0 /\ sends[i].wallet \in Wallets
      /\ memory.wallets \in [Wallets -> Nat] /\ memory.ips \in [Ips -> Seq(Nat)]
      /\ Sound(sends, E, memory.wallets, memory.ips, now)
  BY EndedFinite DEF FaucetInv, FaucetTyped, Limiters
<1>3. /\ m \in Limiters
      /\ m.wallets = Kept(memory.wallets) /\ m.ips = KeptLists(memory.ips)
  BY <1>2, PrunedParts
<1>4. Sound(sends, E, m.wallets, m.ips, now)
  BY <1>2, <1>3, SoundPruned
<1>5. CASE ~ Allowed(m, c.wallet, c.ip)
  <2>1. memory' = m /\ current' = Idle
    BY <1>5 DEF Begin, Finish
  <2>2. Serves(sends, current', now) /\ current' \in Claims /\ Ended(sends, current') \subseteq E
    BY <1>1, <2>1, IdleServes
  <2> HIDE DEF m
  <2> QED
    BY <1>1, <1>3, <1>4, <2>1, <2>2, CalmStep DEF E
<1>6. CASE Allowed(m, c.wallet, c.ip)
  <2> DEFINE next == [phase |-> "reading", wallet |-> c.wallet, ip |-> c.ip]
             kept == [m EXCEPT !.pending = m.pending \cup {c.wallet}]
  <2>1. memory' = kept /\ current' = next
    BY <1>6 DEF Begin
  <2>2. m.wallets[c.wallet] = 0 /\ Len(m.ips[c.ip]) < PerIp
    BY <1>6 DEF Allowed
  <2>3. c.wallet \in Wallets /\ c.ip \in Ips
    BY <1>1
  <2> HIDE DEF m, c
  <2>4. kept \in Limiters /\ kept.wallets = m.wallets /\ kept.ips = m.ips
    BY <1>3, <2>3 DEF Limiters
  <2>5. next \in Claims /\ Ended(sends, next) = E
    BY <1>1, <2>3, IdleServes DEF Claims, Ended, Waits
  <2>6. MayPay(sends, E, c.wallet, c.ip, now)
    <3>1. ASSUME NEW i \in E, sends[i].wallet = c.wallet PROVE sends[i].at + Window <= now
      <4>1. i \in DOMAIN sends
        BY DEF Ended
      <4>2. sends[i].at \in Nat /\ sends[i].at > 0 /\ ~ (m.wallets[sends[i].wallet] >= sends[i].at)
        BY <1>2, <2>2, <3>1, <4>1
      <4> HIDE DEF E
      <4> QED
        BY <1>4, <4>2 DEF Sound, Honours
    <3>2. Fills(m.ips[c.ip], Cardinality(Late(sends, E, c.ip, now)), now)
      BY <1>2, <1>4, <2>3 DEF Sound, Counts
    <3>3. Cardinality(Late(sends, E, c.ip, now)) <= Len(m.ips[c.ip])
      BY <3>2 DEF Fills
    <3>4. IsFiniteSet(E)
      BY <1>2, EndedFinite
    <3>5. Cardinality(Late(sends, E, c.ip, now)) \in Nat /\ Len(m.ips[c.ip]) \in Nat
      <4>1. m.ips \in [Ips -> Seq(Nat)]
        BY <1>3 DEF Limiters
      <4>2. Len(m.ips[c.ip]) \in Nat
        BY <2>3, <4>1
      <4> HIDE DEF E
      <4> QED
        BY <3>4, <4>2, LateCounted
    <3>6. PerIp \in Nat
      BY FaucetAssumption
    <3>7. Cardinality(Late(sends, E, c.ip, now)) < PerIp
      BY <2>2, <3>3, <3>5, <3>6
    <3> QED
      BY <3>1, <3>7 DEF MayPay
  <2>7. Serves(sends, next, now)
    <3>1. next.phase = "reading" /\ next.wallet = c.wallet /\ next.ip = c.ip /\ ~ Waits(next)
      BY DEF Waits
    <3> HIDE DEF next
    <3> QED
      BY <2>5, <2>6, <3>1 DEF Serves
  <2> HIDE DEF kept, next
  <2> QED
    BY <1>1, <1>4, <2>1, <2>4, <2>5, <2>7, CalmStep DEF E
<1> QED
  BY <1>5, <1>6

(* A claim goes on to its next call. *)
LEMMA GoesOn ==
  ASSUME FaucetInv, UNCHANGED <<now, queue, memory, file, sends>>,
         \/ /\ current.phase = "reading"
            /\ current' = [current EXCEPT !.phase = "sending"]
         \/ /\ current.phase = "confirming"
            /\ current' = [current EXCEPT !.phase = "height"]
         \/ /\ current.phase = "height"
            /\ current' = [current EXCEPT !.phase = "confirming"]
  PROVE  FaucetInv'
<1>1. current \in Claims /\ Serves(sends, current, now)
  BY DEF FaucetInv, FaucetTyped
<1>2. ASSUME current.phase = "reading", current' = [current EXCEPT !.phase = "sending"]
      PROVE  /\ current' \in Claims /\ current'.phase = "sending" /\ ~ Waits(current')
             /\ current'.wallet = current.wallet /\ current'.ip = current.ip
             /\ ~ Waits(current)
  BY <1>1, <1>2 DEF Claims, Idle, Waits
<1>3. ASSUME Waits(current),
             \E phase \in {"confirming", "height"} : current' = [current EXCEPT !.phase = phase]
      PROVE  /\ current' \in Claims /\ Waits(current') /\ current'.tx = current.tx
             /\ current'.wallet = current.wallet /\ current'.ip = current.ip
  <2>1. current \in [phase : {"confirming", "height"}, wallet : Wallets, ip : Ips, tx : Nat]
    BY <1>1, <1>3 DEF Claims, Idle, Waits
  <2> QED
    BY <1>3, <2>1 DEF Claims, Waits
<1>4. \/ current.phase = "reading" /\ current' = [current EXCEPT !.phase = "sending"]
      \/ /\ Waits(current)
         /\ \E phase \in {"confirming", "height"} : current' = [current EXCEPT !.phase = phase]
  BY DEF Waits
<1>5. Ended(sends, current') = Ended(sends, current) /\ current' \in Claims
  BY <1>2, <1>3, <1>4 DEF Ended
<1>6. Serves(sends, current', now)
  <2>1. CASE current.phase = "reading" /\ current' = [current EXCEPT !.phase = "sending"]
    BY <1>1, <1>2, <1>5, <2>1 DEF Serves
  <2>2. CASE /\ Waits(current)
             /\ \E phase \in {"confirming", "height"} : current' = [current EXCEPT !.phase = phase]
    BY <1>1, <1>3, <2>2 DEF Serves, Waits
  <2> QED
    BY <1>4, <2>1, <2>2
<1>7. Ended(sends, current') \subseteq Ended(sends, current)
  BY <1>5
<1> QED
  BY <1>5, <1>6, <1>7, CalmStep DEF FaucetInv, FaucetTyped

(* A payment of the current claim, of which the server keeps track or not. *)
LEMMA SentKept ==
  ASSUME FaucetInv, current.phase = "sending", NEW b \in BOOLEAN
  PROVE  LET tt == Sent(b)
             n  == Len(sends) + 1
         IN  /\ tt \in Seq(SendRecord) /\ Same(sends, tt) /\ n \in Nat
             /\ DOMAIN sends = 1..Len(sends) /\ Len(sends) \in Nat /\ DOMAIN tt = 1..n
             /\ \A i \in 1..Len(sends) : tt[i] = sends[i]
             /\ tt[n].wallet = current.wallet /\ tt[n].ip = current.ip /\ tt[n].at = now
             /\ Owed(tt, n) <=> b
             /\ \A i \in DOMAIN tt : tt[i].at \in 1..now
<1> DEFINE x == [wallet |-> current.wallet, ip |-> current.ip, at |-> now,
                 state |-> "inflight", past |-> FALSE, tracked |-> b]
           tt == Append(sends, x)
           n  == Len(sends) + 1
<1>1. current.wallet \in Wallets /\ current.ip \in Ips /\ now \in Nat /\ now > 0
  BY DEF FaucetInv, FaucetTyped, Claims, Idle
<1>2. /\ x \in SendRecord /\ x.wallet = current.wallet /\ x.ip = current.ip /\ x.at = now
      /\ x.state = "inflight" /\ ~ x.past /\ (x.tracked <=> b)
  BY <1>1 DEF SendRecord
<1>3. sends \in Seq(SendRecord) /\ \A i \in DOMAIN sends : sends[i].at \in 1..now
  BY DEF FaucetInv, FaucetTyped
<1>4. Sent(b) = tt
  BY DEF Sent
<1> HIDE DEF x
<1>5. /\ tt \in Seq(SendRecord) /\ Len(sends) \in Nat /\ n \in Nat
      /\ DOMAIN sends = 1..Len(sends) /\ DOMAIN tt = 1..n /\ tt[n] = x
      /\ \A i \in 1..Len(sends) : tt[i] = sends[i]
  BY <1>2, <1>3, AppendProperties
<1> HIDE DEF tt
<1>6. DOMAIN sends \subseteq DOMAIN tt
  BY <1>5
<1>7. Same(sends, tt)
  BY <1>5, <1>6 DEF Same
<1>8. Owed(tt, n) <=> b
  BY <1>2, <1>5 DEF Owed
<1>9. \A i \in DOMAIN tt : tt[i].at \in 1..now
  <2> SUFFICES ASSUME NEW i \in DOMAIN tt PROVE tt[i].at \in 1..now
    OBVIOUS
  <2>1. CASE i = n
    BY <1>1, <1>2, <1>5, <2>1
  <2>2. CASE i # n
    <3>1. i \in 1..Len(sends)
      BY <1>5, <2>2
    <3> QED
      BY <1>3, <1>5, <3>1
  <2> QED
    BY <2>1, <2>2
<1> QED
  BY <1>2, <1>4, <1>5, <1>7, <1>8, <1>9

(* The payment that is sent is the first one to its wallet in a window,    *)
(* and at most the PerIp-th to its address.                                *)
LEMMA SendLimits ==
  ASSUME FaucetInv, current.phase = "sending"
  PROVE  OwedOnce(Sent(TRUE)) /\ OwedPerIp(Sent(TRUE))
<1> DEFINE tt == Sent(TRUE)
           n  == Len(sends) + 1
           E  == Ended(sends, current)
<1>1. /\ Len(sends) \in Nat /\ DOMAIN sends = 1..Len(sends) /\ DOMAIN tt = 1..n
      /\ \A i \in 1..Len(sends) : tt[i] = sends[i]
      /\ tt[n].wallet = current.wallet /\ tt[n].ip = current.ip /\ tt[n].at = now
  BY SentKept
<1>2. MayPay(sends, E, current.wallet, current.ip, now)
  BY DEF FaucetInv, Serves
<1>3. \A i \in DOMAIN sends : Owed(sends, i) <=> i \in E
  BY DEF Ended, Waits
<1>4. IsFiniteSet(E) /\ E \subseteq DOMAIN sends
  BY EndedFinite DEF FaucetInv, FaucetTyped
<1>5. \A i \in 1..Len(sends) : Owed(tt, i) <=> Owed(sends, i)
  BY <1>1 DEF Owed
<1> HIDE DEF tt, E
<1>6. OwedOnce(tt)
  <2> SUFFICES ASSUME NEW i \in 1..n, NEW j \in 1..n, i < j, Owed(tt, i), Owed(tt, j),
                      tt[i].wallet = tt[j].wallet
               PROVE  tt[i].at + Window <= tt[j].at
    BY <1>1 DEF OwedOnce
  <2>1. i \in 1..Len(sends)
    BY <1>1
  <2>2. CASE j = n
    BY <1>1, <1>2, <1>3, <1>5, <2>1, <2>2 DEF MayPay
  <2>3. CASE j # n
    <3>1. j \in 1..Len(sends)
      BY <1>1, <2>3
    <3> QED
      BY <1>1, <1>5, <2>1, <3>1 DEF FaucetInv, OwedOnce
  <2> QED
    BY <2>2, <2>3
<1>7. OwedPerIp(tt)
  <2> SUFFICES ASSUME NEW j \in 1..n, Owed(tt, j)
               PROVE  Cardinality(Beside(tt, j)) <= PerIp
    BY <1>1 DEF OwedPerIp
  <2>1. CASE j = n
    <3> DEFINE late == Late(sends, E, current.ip, now)
    <3>1. IsFiniteSet(late) /\ Cardinality(late) \in Nat
      BY <1>4, LateCounted
    <3>2. Beside(tt, j) \in SUBSET (late \cup {n})
      <4> SUFFICES ASSUME NEW i \in Beside(tt, j), i # n
                   PROVE  i \in late
        OBVIOUS
      <4>1. i \in 1..Len(sends) /\ Owed(tt, i) /\ tt[i].ip = tt[j].ip /\ tt[i].at + Window > tt[j].at
        BY <1>1, <2>1 DEF Beside
      <4>2. i \in E /\ sends[i].ip = current.ip /\ sends[i].at + Window > now
        BY <1>1, <1>3, <1>5, <2>1, <4>1
      <4> QED
        BY <4>2 DEF Late
    <3>3. Cardinality(late) < PerIp /\ PerIp \in Nat
      BY <1>2, FaucetAssumption DEF MayPay
    <3> HIDE DEF late
    <3>4. /\ IsFiniteSet(late \cup {n})
          /\ Cardinality(late \cup {n}) = IF n \in late THEN Cardinality(late) ELSE Cardinality(late) + 1
      BY <3>1, FS_AddElement
    <3>5. /\ IsFiniteSet(Beside(tt, j))
          /\ Cardinality(Beside(tt, j)) <= Cardinality(late \cup {n})
      BY <3>2, <3>4, FS_Subset
    <3>6. Cardinality(Beside(tt, j)) \in Nat
      BY <3>5, FS_CardinalityType
    <3> QED
      BY <3>1, <3>3, <3>4, <3>5, <3>6
  <2>2. CASE j # n
    <3>1. j \in 1..Len(sends) /\ 1..j \subseteq 1..Len(sends) /\ j \in 1..j
      BY <1>1, <2>2
    <3>2. Beside(tt, j) = Beside(sends, j)
      BY <1>1, <1>5, <3>1 DEF Beside
    <3>3. Owed(sends, j)
      BY <1>5, <3>1
    <3> QED
      BY <1>1, <3>1, <3>2, <3>3 DEF FaucetInv, OwedPerIp
  <2> QED
    BY <2>1, <2>2
<1> QED
  BY <1>6, <1>7 DEF tt

LEMMA SendStep ==
  ASSUME FaucetInv, Send
  PROVE  FaucetInv'
<1> DEFINE tt == Sent(TRUE)
           n  == Len(sends) + 1
           c  == [phase |-> "confirming", wallet |-> current.wallet, ip |-> current.ip, tx |-> n]
           E  == Ended(sends, current)
<1>1. /\ current.phase = "sending" /\ sends' = tt /\ current' = c
      /\ UNCHANGED <<now, queue, memory, file>>
  BY DEF Send, Clock
<1>2. /\ tt \in Seq(SendRecord) /\ Same(sends, tt) /\ n \in Nat
      /\ DOMAIN sends = 1..Len(sends) /\ Len(sends) \in Nat /\ DOMAIN tt = 1..n
      /\ \A i \in 1..Len(sends) : tt[i] = sends[i]
      /\ tt[n].wallet = current.wallet /\ tt[n].ip = current.ip
      /\ \A i \in DOMAIN tt : tt[i].at \in 1..now
  BY <1>1, SentKept
<1>3. OwedOnce(tt) /\ OwedPerIp(tt)
  BY <1>1, SendLimits
<1> HIDE DEF tt
<1>4. c \in Claims /\ Waits(c) /\ c.tx = n /\ c.wallet = current.wallet /\ c.ip = current.ip
  <2>1. current.wallet \in Wallets /\ current.ip \in Ips
    BY <1>1 DEF FaucetInv, FaucetTyped, Claims, Idle
  <2> QED
    BY <1>2, <2>1 DEF Claims, Waits
<1> HIDE DEF c
<1>5. Ended(tt, c) \subseteq E
  <2> SUFFICES ASSUME NEW i \in Ended(tt, c) PROVE i \in E
    OBVIOUS
  <2>1. i \in 1..n /\ i # n /\ Owed(tt, i)
    BY <1>2, <1>4 DEF Ended
  <2>2. i \in 1..Len(sends)
    BY <1>2, <2>1
  <2>3. Owed(sends, i)
    BY <1>2, <2>1, <2>2 DEF Owed
  <2> QED
    BY <1>1, <1>2, <2>2, <2>3 DEF Ended, Waits
<1>6. Serves(tt, c, now)
  <2>1. c.tx \in DOMAIN tt /\ c.phase \notin {"reading", "sending"}
    BY <1>2, <1>4 DEF Waits
  <2> QED
    BY <1>2, <1>4, <2>1 DEF Serves
<1>7. ASSUME NEW ws, NEW is \in [Ips -> Seq(Nat)], Sound(sends, E, ws, is, now)
      PROVE  Sound(tt, Ended(tt, c), ws, is, now)
  <2>1. /\ IsFiniteSet(E) /\ E \subseteq DOMAIN sends
        /\ \A i \in DOMAIN sends : sends[i].at \in Nat
    BY EndedFinite DEF FaucetInv, FaucetTyped
  <2>2. \A i \in DOMAIN sends : /\ tt[i].wallet = sends[i].wallet /\ tt[i].ip = sends[i].ip
                                /\ tt[i].at = sends[i].at /\ sends[i].at \in Nat
    BY <1>2, <2>1 DEF Same
  <2>3. now \in Nat /\ now <= now /\ DOMAIN sends \subseteq DOMAIN tt
    BY <1>2 DEF FaucetInv, FaucetTyped, Same
  <2> HIDE DEF E
  <2>4. Ended(tt, c) \in SUBSET E
    BY <1>5
  <2> QED
    BY <1>7, <2>1, <2>2, <2>3, <2>4, SoundKept
<1>8. memory.ips \in [Ips -> Seq(Nat)] /\ file.ips \in [Ips -> Seq(Nat)]
  BY DEF FaucetInv, FaucetTyped, Limiters
<1>9. /\ Sound(tt, Ended(tt, c), memory.wallets, memory.ips, now)
      /\ Sound(tt, Ended(tt, c), file.wallets, file.ips, now)
  BY <1>7, <1>8 DEF FaucetInv
<1>10. FaucetTyped'
  BY <1>1, <1>2, <1>4 DEF FaucetInv, FaucetTyped
<1> QED
  BY <1>1, <1>3, <1>6, <1>9, <1>10 DEF FaucetInv

(* The claim is released: its payment, if any, is none that is owed, or    *)
(* none that the server keeps track of.                                    *)
LEMMA GiveUpStep ==
  ASSUME FaucetInv, GiveUp, now' = now, sends' \in Seq(SendRecord), Same(sends, sends'),
         \A i \in DOMAIN sends' : sends'[i].at \in 1..now,
         \A i \in DOMAIN sends' : Owed(sends', i) => i \in DOMAIN sends /\ Owed(sends, i),
         Ended(sends', Idle) \subseteq Ended(sends, current)
  PROVE  FaucetInv'
<1>1. /\ memory' = Released(memory, current.wallet) /\ current' = Idle
      /\ UNCHANGED <<queue, file>>
  BY DEF GiveUp, Finish
<1>2. /\ memory' \in Limiters
      /\ memory'.wallets = memory.wallets /\ memory'.ips = memory.ips
  BY <1>1, ReleasedParts DEF FaucetInv, FaucetTyped
<1>3. Serves(sends', Idle, now') /\ Idle \in Claims
  BY IdleServes
<1>4. now \in Nat /\ now <= now
  BY DEF FaucetInv, FaucetTyped
<1>5. Quiet
  BY <1>1, <1>2, <1>3, <1>4 DEF Quiet, FaucetInv, FaucetTyped
<1> QED
  BY <1>5, QuietStep

(* ... released, and the chain as it was. *)
LEMMA ReleaseStep ==
  ASSUME FaucetInv, GiveUp, now' = now, sends' = sends,
         Waits(current) => ~ Owed(sends, current.tx)
  PROVE  FaucetInv'
<1>1. Ended(sends', Idle) \subseteq Ended(sends, current)
  BY DEF Ended
<1>2. /\ sends' \in Seq(SendRecord) /\ \A i \in DOMAIN sends' : sends'[i].at \in 1..now
      /\ Same(sends, sends')
  BY DEF FaucetInv, FaucetTyped, Same
<1> QED
  BY <1>1, <1>2, GiveUpStep

LEMMA SendFailsStep ==
  ASSUME FaucetInv, SendFails
  PROVE  FaucetInv'
<1>1. /\ current.phase = "sending" /\ GiveUp /\ now' = now
      /\ sends' = sends \/ sends' = Sent(FALSE)
  BY DEF SendFails, Clock
<1>2. CASE sends' = sends
  BY <1>1, <1>2, ReleaseStep DEF Waits
<1>3. CASE sends' = Sent(FALSE)
  <2> DEFINE tt == Sent(FALSE)
             n  == Len(sends) + 1
  <2>1. /\ tt \in Seq(SendRecord) /\ Same(sends, tt)
        /\ DOMAIN sends = 1..Len(sends) /\ Len(sends) \in Nat /\ DOMAIN tt = 1..n
        /\ \A i \in 1..Len(sends) : tt[i] = sends[i]
        /\ ~ Owed(tt, n)
        /\ \A i \in DOMAIN tt : tt[i].at \in 1..now
    BY <1>1, SentKept
  <2> HIDE DEF tt
  <2>2. \A i \in DOMAIN tt : Owed(tt, i) => i \in DOMAIN sends /\ Owed(sends, i)
    <3> SUFFICES ASSUME NEW i \in DOMAIN tt, Owed(tt, i) PROVE i \in DOMAIN sends /\ Owed(sends, i)
      OBVIOUS
    <3>1. i \in 1..Len(sends)
      BY <2>1
    <3> QED
      BY <2>1, <3>1 DEF Owed
  <2>3. Ended(tt, Idle) \subseteq Ended(sends, current)
    BY <1>1, <2>2 DEF Ended, Waits
  <2> QED
    BY <1>1, <1>3, <2>1, <2>2, <2>3, GiveUpStep DEF tt
<1> QED
  BY <1>1, <1>2, <1>3

(* One transaction changes on the chain, or is lost track of: no payment   *)
(* becomes possible that was not.                                          *)
LEMMA OneChanges ==
  ASSUME FaucetInv, NEW i \in DOMAIN sends, NEW r \in SendRecord, NEW tt,
         tt = [sends EXCEPT ![i] = r],
         r.wallet = sends[i].wallet, r.ip = sends[i].ip, r.at = sends[i].at,
         Owed(tt, i) => Owed(sends, i)
  PROVE  /\ tt \in Seq(SendRecord) /\ Same(sends, tt) /\ DOMAIN tt = DOMAIN sends
         /\ \A j \in DOMAIN tt : tt[j].at \in 1..now
         /\ \A j \in DOMAIN tt : Owed(tt, j) => j \in DOMAIN sends /\ Owed(sends, j)
<1>1. sends \in Seq(SendRecord) /\ \A j \in DOMAIN sends : sends[j].at \in 1..now
  BY DEF FaucetInv, FaucetTyped
<1>2. /\ tt \in Seq(SendRecord) /\ DOMAIN tt = DOMAIN sends
      /\ tt[i] = r /\ \A j \in DOMAIN sends : j # i => tt[j] = sends[j]
  BY <1>1
<1>3. Same(sends, tt)
  <2>1. \A j \in DOMAIN sends : /\ tt[j].wallet = sends[j].wallet /\ tt[j].ip = sends[j].ip
                                /\ tt[j].at = sends[j].at
    BY <1>2
  <2> QED
    BY <1>2, <2>1 DEF Same
<1>4. \A j \in DOMAIN tt : tt[j].at \in 1..now
  BY <1>1, <1>2
<1>5. \A j \in DOMAIN tt : Owed(tt, j) => j \in DOMAIN sends /\ Owed(sends, j)
  BY <1>2 DEF Owed
<1> QED
  BY <1>2, <1>3, <1>4, <1>5

LEMMA UntrackedKept ==
  ASSUME FaucetInv, Waits(current)
  PROVE  /\ Untracked \in Seq(SendRecord) /\ Same(sends, Untracked)
         /\ \A j \in DOMAIN Untracked : Untracked[j].at \in 1..now
         /\ \A j \in DOMAIN Untracked :
               Owed(Untracked, j) => j \in DOMAIN sends /\ Owed(sends, j)
         /\ Ended(Untracked, Idle) \subseteq Ended(sends, current)
<1> DEFINE x == current.tx
           r == [sends[x] EXCEPT !.tracked = FALSE]
<1>1. x \in DOMAIN sends /\ sends[x] \in SendRecord
  BY DEF FaucetInv, FaucetTyped, Serves
<1>2. /\ r \in SendRecord /\ r.wallet = sends[x].wallet /\ r.ip = sends[x].ip
      /\ r.at = sends[x].at /\ r.tracked = FALSE
  BY <1>1 DEF SendRecord
<1>3. Untracked = [sends EXCEPT ![x] = r]
  BY DEF Untracked
<1> HIDE DEF r
<1>4. Untracked[x] = r
  BY <1>1, <1>3
<1>5. ~ Owed(Untracked, x)
  BY <1>2, <1>4 DEF Owed
<1>6. /\ Untracked \in Seq(SendRecord) /\ Same(sends, Untracked)
      /\ DOMAIN Untracked = DOMAIN sends
      /\ \A j \in DOMAIN Untracked : Untracked[j].at \in 1..now
      /\ \A j \in DOMAIN Untracked :
            Owed(Untracked, j) => j \in DOMAIN sends /\ Owed(sends, j)
  <2> DEFINE tt == Untracked
  <2>1. tt = [sends EXCEPT ![x] = r] /\ (Owed(tt, x) => Owed(sends, x))
    BY <1>3, <1>5
  <2> HIDE DEF tt, x
  <2>2. /\ tt \in Seq(SendRecord) /\ Same(sends, tt) /\ DOMAIN tt = DOMAIN sends
        /\ \A j \in DOMAIN tt : tt[j].at \in 1..now
        /\ \A j \in DOMAIN tt : Owed(tt, j) => j \in DOMAIN sends /\ Owed(sends, j)
    BY <1>1, <1>2, <2>1, OneChanges
  <2> QED
    BY <2>2 DEF tt
<1>7. Ended(Untracked, Idle) \subseteq Ended(sends, current)
  BY <1>5, <1>6 DEF Ended
<1> QED
  BY <1>6, <1>7

LEMMA PollHeightStep ==
  ASSUME FaucetInv, PollHeight
  PROVE  FaucetInv'
<1> DEFINE x == current.tx
<1>1. current.phase = "height" /\ Waits(current)
  BY DEF PollHeight, Waits
<1>2. CASE /\ current' = [current EXCEPT !.phase = "confirming"]
           /\ UNCHANGED <<Clock, sends, queue, waiting, memory, file>>
  BY <1>1, <1>2, GoesOn DEF Clock
<1>3. CASE sends[x].past /\ GiveUp /\ sends[x].state = "landed" /\ sends' = Untracked /\ now' = now
  BY <1>1, <1>3, UntrackedKept, GiveUpStep
<1>4. CASE sends[x].past /\ GiveUp /\ sends[x].state # "landed" /\ sends' = sends /\ now' = now
  <2>1. ~ Owed(sends, x)
    BY <1>4 DEF Owed
  <2> QED
    BY <1>4, <2>1, ReleaseStep
<1> QED
  BY <1>2, <1>3, <1>4 DEF PollHeight, Clock

(* A claim that is counted, once or twice. *)
LEMMA CommitStep ==
  ASSUME FaucetInv, Waits(current), Commit
  PROVE  FaucetInv'
<1> DEFINE w == current.wallet
           a == current.ip
           x == current.tx
           once  == Counted(memory, w, a)
           twice == Counted(once, w, a)
           E == Ended(sends, current)
           D == Ended(sends, Idle)
<1>1. /\ now \in Nat /\ w \in Wallets /\ a \in Ips /\ memory \in Limiters
      /\ x \in DOMAIN sends /\ sends[x].wallet = w /\ sends[x].ip = a
      /\ memory.wallets \in [Wallets -> Nat] /\ memory.ips \in [Ips -> Seq(Nat)]
      /\ Sound(sends, E, memory.wallets, memory.ips, now)
  BY DEF FaucetInv, FaucetTyped, Serves, Waits, Claims, Idle, Limiters
<1>2. /\ IsFiniteSet(E) /\ E \subseteq DOMAIN sends /\ IsFiniteSet(D) /\ D \subseteq DOMAIN sends
      /\ \A i \in DOMAIN sends : sends[i].at \in 1..now /\ sends[i].wallet \in Wallets
  BY EndedFinite DEF FaucetInv, FaucetTyped
<1>3. D \subseteq E \cup {x} /\ D \subseteq D \cup {x}
  BY DEF Ended
<1>4. memory' \in {once, twice} /\ file' = Saved(memory') /\ current' = Idle
      /\ UNCHANGED <<now, queue, sends>>
  BY DEF Commit, Finish, Clock
<1> HIDE DEF w, a, x, E, D
<1>5. /\ once \in Limiters
      /\ once.wallets = Stamped(memory.wallets, w) /\ once.ips = Added(memory.ips, a)
  BY <1>1, CountedParts
<1>6. /\ once.wallets \in [Wallets -> Nat] /\ once.ips \in [Ips -> Seq(Nat)]
      /\ Sound(sends, D, once.wallets, once.ips, now)
  <2> DEFINE ws == memory.wallets
             is == memory.ips
  <2>1. /\ ws \in [Wallets -> Nat] /\ is \in [Ips -> Seq(Nat)] /\ w \in Wallets /\ a \in Ips
        /\ now \in Nat /\ x \in DOMAIN sends /\ sends[x].wallet = w /\ sends[x].ip = a
        /\ Sound(sends, E, ws, is, now)
    BY <1>1
  <2>2. once.wallets = Stamped(ws, w) /\ once.ips = Added(is, a)
    BY <1>5
  <2> HIDE DEF ws, is, once
  <2>3. /\ Stamped(ws, w) \in [Wallets -> Nat] /\ Added(is, a) \in [Ips -> Seq(Nat)]
        /\ Sound(sends, D, Stamped(ws, w), Added(is, a), now)
    BY <1>2, <1>3, <2>1, SoundCounted
  <2> QED
    BY <2>2, <2>3
<1> HIDE DEF once
<1>7. /\ twice \in Limiters
      /\ twice.wallets = Stamped(once.wallets, w) /\ twice.ips = Added(once.ips, a)
  BY <1>1, <1>5, CountedParts
<1>8. Sound(sends, D, twice.wallets, twice.ips, now)
  <2>1. Sound(sends, D, Stamped(once.wallets, w), Added(once.ips, a), now)
    BY <1>1, <1>2, <1>3, <1>6, SoundCounted
  <2> QED
    BY <1>7, <2>1
<1> HIDE DEF twice
<1>9. memory' \in Limiters /\ Sound(sends, D, memory'.wallets, memory'.ips, now)
  BY <1>4, <1>5, <1>6, <1>7, <1>8
<1>10. /\ file'.wallets = memory'.wallets /\ file'.ips = memory'.ips
       /\ file' \in [wallets : [Wallets -> Nat], ips : [Ips -> Seq(Nat)]]
  BY <1>4, <1>9 DEF Saved, Limiters
<1>11. FaucetTyped'
  BY <1>4, <1>9, <1>10, IdleServes DEF FaucetInv, FaucetTyped
<1>12. Serves(sends, Idle, now)
  BY IdleServes
<1> QED
  BY <1>4, <1>9, <1>10, <1>11, <1>12 DEF FaucetInv, D

LEMMA PollStep ==
  ASSUME FaucetInv, Poll
  PROVE  FaucetInv'
<1> DEFINE x == current.tx
<1>1. current.phase = "confirming" /\ Waits(current)
  BY DEF Poll, Waits
<1>2. CASE Commit
  BY <1>1, <1>2, CommitStep
<1>3. CASE sends[x].state = "failed" /\ GiveUp /\ UNCHANGED <<Clock, sends>>
  <2>1. ~ Owed(sends, x) /\ now' = now /\ sends' = sends
    BY <1>3 DEF Owed, Clock
  <2> QED
    BY <1>3, <2>1, ReleaseStep
<1>4. CASE /\ current' = [current EXCEPT !.phase = "height"]
           /\ UNCHANGED <<Clock, sends, queue, waiting, memory, file>>
  BY <1>1, <1>4, GoesOn DEF Clock
<1> QED
  BY <1>2, <1>3, <1>4 DEF Poll

(* What the file held is sound, and so is what a restart makes of it. *)
LEMMA KilledStep ==
  ASSUME FaucetInv, Killed
  PROVE  FaucetInv'
<1> DEFINE m == Loaded(file)
           E == Ended(sends, current)
<1>1. /\ queue' = <<>> /\ current' = Idle /\ memory' = Pruned(m)
      /\ UNCHANGED <<now, file>>
      /\ sends' = IF Waits(current) THEN Untracked ELSE sends
  BY DEF Killed, Waits
<1>2. m \in Limiters /\ m.wallets = file.wallets /\ m.ips = file.ips
  BY DEF FaucetInv, FaucetTyped, Loaded, Limiters
<1>3. /\ now \in Nat /\ sends \in Seq(SendRecord)
      /\ file.wallets \in [Wallets -> Nat] /\ file.ips \in [Ips -> Seq(Nat)]
      /\ \A i \in DOMAIN sends : sends[i].at \in 1..now /\ sends[i].at > 0
      /\ Sound(sends, E, file.wallets, file.ips, now)
  BY DEF FaucetInv, FaucetTyped
<1> HIDE DEF m
<1>4. /\ memory' \in Limiters
      /\ memory'.wallets = Kept(file.wallets) /\ memory'.ips = KeptLists(file.ips)
  BY <1>1, <1>2, <1>3, PrunedParts
<1>5. Sound(sends, E, memory'.wallets, memory'.ips, now)
  BY <1>3, <1>4, SoundPruned
<1>6. /\ sends' \in Seq(SendRecord) /\ Same(sends, sends')
      /\ \A i \in DOMAIN sends' : sends'[i].at \in 1..now
      /\ \A i \in DOMAIN sends' : Owed(sends', i) => i \in DOMAIN sends /\ Owed(sends, i)
      /\ Ended(sends', Idle) \subseteq E
  <2>1. CASE Waits(current)
    BY <1>1, <2>1, UntrackedKept
  <2>2. CASE ~ Waits(current)
    BY <1>1, <1>3, <2>2 DEF Same, Ended
  <2> QED
    BY <2>1, <2>2
<1>7. Serves(sends', Idle, now') /\ Idle \in Claims
  BY IdleServes
<1>8. now <= now /\ <<>> \in Seq([wallet : Wallets, ip : Ips])
  BY <1>3
<1>9. Quiet
  BY <1>1, <1>3, <1>4, <1>5, <1>6, <1>7, <1>8 DEF Quiet
<1> QED
  BY <1>9, QuietStep

LEMMA ChainStep ==
  ASSUME FaucetInv, NEW i \in DOMAIN sends, Land(i) \/ HeightPasses(i)
  PROVE  FaucetInv'
<1>1. UNCHANGED <<now, queue, current, memory, file>>
  BY DEF Land, HeightPasses, Clock, server
<1>2. sends[i] \in SendRecord
  BY DEF FaucetInv, FaucetTyped
<1>3. \E r \in SendRecord :
         /\ sends' = [sends EXCEPT ![i] = r]
         /\ r.wallet = sends[i].wallet /\ r.ip = sends[i].ip /\ r.at = sends[i].at
         /\ r.tracked = sends[i].tracked
         /\ \/ r.state = sends[i].state /\ r.past
            \/ sends[i].state = "inflight" /\ ~ sends[i].past
  <2>1. CASE Land(i)
    <3> PICK state \in {"landed", "failed"} : sends' = [sends EXCEPT ![i].state = state]
      BY <2>1 DEF Land
    <3> DEFINE r == [sends[i] EXCEPT !.state = state]
    <3>1. r \in SendRecord /\ sends' = [sends EXCEPT ![i] = r]
      BY <1>2 DEF SendRecord
    <3>2. /\ r.wallet = sends[i].wallet /\ r.ip = sends[i].ip /\ r.at = sends[i].at
          /\ r.tracked = sends[i].tracked
      BY <1>2 DEF SendRecord
    <3>3. sends[i].state = "inflight" /\ ~ sends[i].past
      BY <2>1 DEF Land
    <3> HIDE DEF r
    <3> QED
      BY <3>1, <3>2, <3>3
  <2>2. CASE HeightPasses(i)
    <3> DEFINE r == [sends[i] EXCEPT !.past = TRUE]
    <3>1. r \in SendRecord /\ sends' = [sends EXCEPT ![i] = r]
      BY <1>2, <2>2 DEF SendRecord, HeightPasses
    <3>2. /\ r.wallet = sends[i].wallet /\ r.ip = sends[i].ip /\ r.at = sends[i].at
          /\ r.tracked = sends[i].tracked /\ r.state = sends[i].state /\ r.past
      BY <1>2 DEF SendRecord
    <3> HIDE DEF r
    <3> QED
      BY <3>1, <3>2
  <2> QED
    BY <2>1, <2>2
<1> PICK r \in SendRecord :
         /\ sends' = [sends EXCEPT ![i] = r]
         /\ r.wallet = sends[i].wallet /\ r.ip = sends[i].ip /\ r.at = sends[i].at
         /\ r.tracked = sends[i].tracked
         /\ \/ r.state = sends[i].state /\ r.past
            \/ sends[i].state = "inflight" /\ ~ sends[i].past
  BY <1>3
<1>4. Owed(sends', i) => Owed(sends, i)
  <2>1. sends'[i] = r
    BY DEF FaucetInv, FaucetTyped
  <2> QED
    BY <2>1 DEF Owed
<1>5. /\ sends' \in Seq(SendRecord) /\ Same(sends, sends') /\ DOMAIN sends' = DOMAIN sends
      /\ \A j \in DOMAIN sends' : sends'[j].at \in 1..now
      /\ \A j \in DOMAIN sends' : Owed(sends', j) => j \in DOMAIN sends /\ Owed(sends, j)
  BY <1>4, OneChanges
<1>6. Ended(sends', current) \subseteq Ended(sends, current)
  BY <1>5 DEF Ended
<1>7. now \in Nat /\ now <= now /\ sends \in Seq(SendRecord) /\ Serves(sends, current, now)
  BY DEF FaucetInv, FaucetTyped
<1>8. Serves(sends', current, now)
  BY <1>5, <1>6, <1>7, ServesKept
<1>9. Quiet
  BY <1>1, <1>5, <1>6, <1>7, <1>8 DEF Quiet, FaucetInv, FaucetTyped
<1> QED
  BY <1>9, QuietStep

LEMMA TickStep ==
  ASSUME FaucetInv, now' \in Nat, now <= now',
         UNCHANGED <<queue, current, memory, file, sends>>
  PROVE  FaucetInv'
<1>1. /\ now \in Nat /\ now > 0 /\ sends \in Seq(SendRecord)
      /\ \A i \in DOMAIN sends : sends[i].at \in 1..now
      /\ Serves(sends, current, now)
  BY DEF FaucetInv, FaucetTyped
<1>2. Same(sends, sends) /\ Ended(sends, current) \subseteq Ended(sends, current)
  BY DEF Same
<1>3. Serves(sends, current, now')
  BY <1>1, <1>2, ServesKept
<1>4. \A i \in DOMAIN sends : sends[i].at \in 1..now'
  BY <1>1
<1>5. Quiet
  BY <1>1, <1>2, <1>3, <1>4 DEF Quiet, FaucetInv, FaucetTyped
<1> QED
  BY <1>5, QuietStep

LEMMA FaucetStarts == FaucetInit => FaucetInv
<1> SUFFICES ASSUME FaucetInit PROVE FaucetInv
  OBVIOUS
<1> DEFINE none  == [w \in Wallets |-> 0]
           empty == [a \in Ips |-> <<>>]
<1>1. none \in [Wallets -> Nat] /\ empty \in [Ips -> Seq(Nat)]
  OBVIOUS
<1>2. /\ memory = [wallets |-> none, ips |-> empty, pending |-> {}]
      /\ file = [wallets |-> none, ips |-> empty] /\ sends = <<>> /\ queue = <<>>
      /\ current = Idle /\ now = 1
  BY DEF FaucetInit, Loaded, NoClaims
<1>3. DOMAIN sends = {} /\ sends \in Seq(SendRecord) /\ Ended(sends, current) = {}
  BY <1>2 DEF Ended
<1>4. Sound(sends, {}, none, empty, 1)
  <2>1. \A a \in Ips, T \in Nat : Late(sends, {}, a, T) = {}
    BY DEF Late
  <2>2. \A a \in Ips, T \in Nat : Fills(empty[a], 0, T)
    BY DEF Fills
  <2>3. Counts(sends, {}, empty, 1)
    <3> HIDE DEF empty
    <3> QED
      BY <2>1, <2>2, FS_EmptySet DEF Counts
  <2> QED
    BY <2>3 DEF Sound, Honours, Blames
<1> HIDE DEF none, empty
<1>5. FaucetTyped
  <2>1. memory \in Limiters
    BY <1>1, <1>2 DEF Limiters
  <2>2. file \in [wallets : [Wallets -> Nat], ips : [Ips -> Seq(Nat)]]
    BY <1>1, <1>2
  <2>3. queue \in Seq([wallet : Wallets, ip : Ips]) /\ now \in Nat \ {0} /\ current \in Claims
    BY <1>2, IdleServes
  <2> QED
    BY <1>3, <2>1, <2>2, <2>3 DEF FaucetTyped
<1>6. Serves(sends, current, now) /\ OwedOnce(sends) /\ OwedPerIp(sends)
  BY <1>2, <1>3, IdleServes DEF OwedOnce, OwedPerIp
<1> QED
  BY <1>2, <1>3, <1>4, <1>5, <1>6 DEF FaucetInv

LEMMA FaucetStep == FaucetInv /\ [FaucetNext]_faucetVars => FaucetInv'
<1> SUFFICES ASSUME FaucetInv, [FaucetNext]_faucetVars PROVE FaucetInv'
  OBVIOUS
<1>1. CASE \E w \in Wallets, a \in Ips : Request(w, a)
  BY <1>1, RequestStep
<1>2. CASE Begin
  BY <1>2, BeginStep
<1>3. CASE Read
  BY <1>3, GoesOn DEF Read, Clock
<1>4. CASE ReadFails
  BY <1>4, ReleaseStep DEF ReadFails, Clock, Waits
<1>5. CASE Send
  BY <1>5, SendStep
<1>6. CASE SendFails
  BY <1>6, SendFailsStep
<1>7. CASE Poll
  BY <1>7, PollStep
<1>8. CASE PollHeight
  BY <1>8, PollHeightStep
<1>9. CASE PollFails
  BY <1>9, CommitStep DEF PollFails, Waits
<1>10. CASE Timeout
  BY <1>10, CommitStep DEF Timeout, Waits
<1>11. CASE Killed
  BY <1>11, KilledStep
<1>12. CASE \E i \in DOMAIN sends : Land(i) \/ HeightPasses(i)
  BY <1>12, ChainStep
<1>13. CASE Tick
  BY <1>13, TickStep DEF Tick, server, FaucetInv, FaucetTyped
<1>14. CASE UNCHANGED faucetVars
  BY <1>14, TickStep DEF faucetVars, FaucetInv, FaucetTyped
<1> QED
  BY <1>1, <1>2, <1>3, <1>4, <1>5, <1>6, <1>7, <1>8, <1>9, <1>10, <1>11, <1>12, <1>13, <1>14
     DEF FaucetNext

(* ClaimLimiter: whatever poll or save fails, whatever transaction lands   *)
(* late and whenever the process dies, the payments it tracked to a wallet *)
(* are a window apart, no address gets more than PerIp in a window, and no *)
(* wallet is locked out that nothing was sent to.                          *)
THEOREM FaucetLimitsHold == FaucetInit /\ [][FaucetNext]_faucetVars => []LimitsHold
<1>1. FaucetInv => LimitsHold
  <2> SUFFICES ASSUME FaucetInv PROVE LimitsHold
    OBVIOUS
  <2>1. sends \in Seq(SendRecord) /\ \A i \in DOMAIN sends : Paid(i) => Owed(sends, i)
    BY DEF FaucetInv, FaucetTyped, Paid, Owed
  <2>2. PaidOncePerWindow
    BY <2>1 DEF FaucetInv, OwedOnce, PaidOncePerWindow
  <2>3. PaidWithinPerIp
    <3> SUFFICES ASSUME NEW j \in DOMAIN sends, Paid(j)
                 PROVE  Cardinality({i \in 1..j : Paid(i) /\ sends[i].ip = sends[j].ip
                                       /\ sends[i].at + Window > sends[j].at}) <= PerIp
      BY DEF PaidWithinPerIp
    <3> DEFINE paid == {i \in 1..j : Paid(i) /\ sends[i].ip = sends[j].ip
                                       /\ sends[i].at + Window > sends[j].at}
    <3>1. 1..j \subseteq DOMAIN sends
      BY <2>1
    <3>2. paid \in SUBSET Beside(sends, j)
      BY <2>1, <3>1 DEF Beside
    <3>3. IsFiniteSet(Beside(sends, j)) /\ Cardinality(Beside(sends, j)) \in Nat
      BY <2>1, BesideCounted
    <3>4. Cardinality(Beside(sends, j)) <= PerIp /\ PerIp \in Nat
      BY <2>1, FaucetAssumption DEF FaucetInv, OwedPerIp
    <3> HIDE DEF paid
    <3>5. IsFiniteSet(paid) /\ Cardinality(paid) <= Cardinality(Beside(sends, j))
      BY <3>2, <3>3, FS_Subset
    <3>6. Cardinality(paid) \in Nat
      BY <3>5, FS_CardinalityType
    <3>7. Cardinality(paid) <= PerIp
      BY <3>3, <3>4, <3>5, <3>6
    <3> QED
      BY <3>7 DEF paid
  <2>4. LockedOutOnlyIfSent
    BY DEF FaucetInv, Sound, Blames, LockedOutOnlyIfSent
  <2> QED
    BY <2>2, <2>3, <2>4 DEF LimitsHold
<1> QED
  BY <1>1, FaucetStarts, FaucetStep, PTL
=============================================================================
