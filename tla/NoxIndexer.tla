----------------------------- MODULE NoxIndexer -----------------------------
(***************************************************************************)
(* The NOXFUNDS indexer service: clients/js/src/nox/indexer.ts kept in     *)
(* step with the chain by services/indexer/indexer.ts.  A sync lists the   *)
(* signatures newer than the newest stored, page by page and newest first, *)
(* fetches the transactions with a few workers that write each one to a    *)
(* cache as it arrives, and places them all in order in one database       *)
(* transaction.  A call may fail, a fetch may find nothing, the process    *)
(* may be killed; the database survives.                                   *)
(*                                                                         *)
(* A signature is the place of its transaction in the program's history.   *)
(* What a row holds is abstracted to whether the transaction was there     *)
(* when it was fetched ("whole") or the RPC answered null.                 *)
(***************************************************************************)
EXTENDS Naturals, Sequences, FiniteSets

CONSTANTS
    MaxTxs,     \* bound: transactions the program ever confirms
    MaxCrashes, \* bound: how often the process is killed
    PageSize,   \* signatures in one page (1000)
    Workers,    \* getTransaction calls in flight (2)
    NullAnswers \* whether getTransaction may answer null for a listed signature

ASSUME SizesAssumption ==
    /\ MaxTxs \in Nat
    /\ MaxCrashes \in Nat
    /\ PageSize \in Nat \ {0}
    /\ Workers \in Nat \ {0}
    /\ NullAnswers \in BOOLEAN

VARIABLES
    height,    \* the chain: transactions confirmed so far
    txs,       \* the table of placed transactions: signature -> ord and content
    fetched,   \* the table of transactions fetched and not placed: signature -> whole
    syncing,   \* status.syncing
    sync,      \* the local state of the sync that runs
    strays,    \* signatures that workers of an abandoned sync may still fetch
    crashes    \* how often the process was killed so far

vars == <<height, txs, fetched, syncing, sync, strays, crashes>>

Signatures == 1..MaxTxs

(* No table has a row yet. *)
NoRows == [s \in {} |-> s]

(* sigs lists signatures newest first; got maps an index of it to what was *)
(* fetched there, next is the index the next free worker takes.            *)
NoSync == [until |-> 0, sigs |-> <<>>, listed |-> FALSE, next |-> 1, inflight |-> {},
           got |-> NoRows]

Init ==
    /\ height = 0
    /\ txs = NoRows
    /\ fetched = NoRows
    /\ syncing = FALSE
    /\ sync = NoSync
    /\ strays = {}
    /\ crashes = 0

(* newestSignature() and maxOrd(): ORDER BY ord DESC LIMIT 1; 0 for none. *)
NewestSignature ==
    IF txs = NoRows THEN 0
    ELSE CHOOSE s \in DOMAIN txs : \A t \in DOMAIN txs : txs[t].ord <= txs[s].ord

MaxOrd == IF txs = NoRows THEN 0 ELSE txs[NewestSignature].ord

(* One page of getSignaturesForAddress: the newest signatures below        *)
(* `before` (or from the tip) and above `until`.                           *)
Page(before, until) ==
    LET top  == IF before = 0 THEN height ELSE before - 1
        size == IF top <= until THEN 0
                ELSE IF top - until < PageSize THEN top - until ELSE PageSize
    IN  [i \in 1..size |-> top - i + 1]

(* What insertNewestFirst leaves: a signature already stored is skipped,   *)
(* the others get numbers that ascend from the oldest.                     *)
Fresh == {i \in DOMAIN sync.sigs : sync.sigs[i] \notin DOMAIN txs}

IndexOf(s) == CHOOSE i \in DOMAIN sync.sigs : sync.sigs[i] = s

(* A mutant: numbered as the RPC lists them, newest first. *)
NewestFirstInserted ==
    [s \in DOMAIN txs \cup {sync.sigs[i] : i \in DOMAIN sync.sigs} |->
        IF s \in DOMAIN txs THEN txs[s]
        ELSE [ord   |-> MaxOrd + Cardinality({j \in Fresh : j <= IndexOf(s)}),
              whole |-> sync.got[IndexOf(s)]]]

Inserted ==
    [s \in DOMAIN txs \cup {sync.sigs[i] : i \in DOMAIN sync.sigs} |->
        IF s \in DOMAIN txs THEN txs[s]
        ELSE [ord   |-> MaxOrd + Cardinality({j \in Fresh : j >= IndexOf(s)}),
              whole |-> sync.got[IndexOf(s)]]]

Got(i, whole) ==
    [j \in DOMAIN sync.got \cup {i} |-> IF j = i THEN whole ELSE sync.got[j]]

(* A mutant: a sync that fails keeps nothing of what it fetched. *)
ForgottenCached(cache, s, whole) == cache

Cached(cache, s, whole) ==
    [t \in DOMAIN cache \cup {s} |-> IF t = s THEN whole ELSE cache[t]]

-----------------------------------------------------------------------------
(* The program confirms a transaction. *)
Confirm ==
    /\ height < MaxTxs
    /\ height' = height + 1
    /\ UNCHANGED <<txs, fetched, syncing, sync, strays, crashes>>

(* The timer: a sync starts unless one is running. *)
Start ==
    /\ ~ syncing
    /\ syncing' = TRUE
    /\ sync' = [NoSync EXCEPT !.until = NewestSignature]
    /\ UNCHANGED <<height, txs, fetched, strays, crashes>>

(* Where the next page starts: below the last signature listed. *)
Before == IF sync.sigs = <<>> THEN 0 ELSE sync.sigs[Len(sync.sigs)]

(* One page arrives.  A page that is not full is the last one; a sync that *)
(* lists nothing ends there.                                               *)
List(before) ==
    /\ syncing
    /\ ~ sync.listed
    /\ before = Before
    /\ LET page == Page(before, sync.until)
           all  == sync.sigs \o page
           last == Len(page) < PageSize
       IN  IF last /\ all = <<>>
           THEN sync' = NoSync /\ syncing' = FALSE
           ELSE sync' = [sync EXCEPT !.sigs = all, !.listed = last] /\ UNCHANGED syncing
    /\ UNCHANGED <<height, txs, fetched, strays, crashes>>

(* A free worker takes the next signature: from the cache, or by a call. *)
Take ==
    /\ syncing
    /\ sync.listed
    /\ sync.next <= Len(sync.sigs)
    /\ Cardinality(sync.inflight) < Workers
    /\ LET i == sync.next
           s == sync.sigs[i]
       IN  sync' = IF s \in DOMAIN fetched
                   THEN [sync EXCEPT !.next = i + 1, !.got = Got(i, fetched[s])]
                   ELSE [sync EXCEPT !.next = i + 1, !.inflight = @ \cup {i}]
    /\ UNCHANGED <<height, txs, fetched, syncing, strays, crashes>>

(* getTransaction answers, with the transaction or with null. *)
Fetch(s) ==
    \E i \in sync.inflight, whole \in {TRUE, ~ NullAnswers} :
        /\ sync.sigs[i] = s
        /\ fetched' = Cached(fetched, s, whole)
        /\ sync' = [sync EXCEPT !.inflight = @ \ {i},
                                !.got = Got(i, whole)]
        /\ UNCHANGED <<height, txs, syncing, strays, crashes>>

(* A call fails for good: the sync is abandoned.  The other workers are    *)
(* not stopped and go on down the list.                                    *)
Fail ==
    /\ syncing
    /\ \/ ~ sync.listed
       \/ sync.inflight # {}
    /\ syncing' = FALSE
    /\ sync' = NoSync
    /\ strays' = IF sync.listed /\ Workers > 1
                 THEN strays \cup {sync.sigs[i] : i \in DOMAIN sync.sigs \ DOMAIN sync.got}
                 ELSE strays
    /\ UNCHANGED <<height, txs, fetched, crashes>>

(* A worker of an abandoned sync writes what it fetched. *)
StrayFetch(s) ==
    /\ s \in strays
    /\ strays' = strays \ {s}
    /\ \E whole \in {TRUE, ~ NullAnswers} : fetched' = Cached(fetched, s, whole)
    /\ UNCHANGED <<height, txs, syncing, sync, crashes>>

(* Everything is fetched: one database transaction places it. *)
Insert ==
    /\ syncing
    /\ sync.listed
    /\ DOMAIN sync.got = DOMAIN sync.sigs
    /\ txs' = Inserted
    /\ fetched' = [s \in DOMAIN fetched \ {sync.sigs[i] : i \in DOMAIN sync.sigs} |-> fetched[s]]
    /\ syncing' = FALSE
    /\ sync' = NoSync
    /\ UNCHANGED <<height, strays, crashes>>

(* The process is killed and restarted: what is in memory is lost. *)
Crash ==
    /\ crashes < MaxCrashes
    /\ crashes' = crashes + 1
    /\ syncing' = FALSE
    /\ sync' = NoSync
    /\ strays' = {}
    /\ UNCHANGED <<height, txs, fetched>>

Next ==
    \/ Confirm
    \/ Start
    \/ \E before \in 0..MaxTxs : List(before)
    \/ Take
    \/ \E s \in Signatures : Fetch(s)
    \/ Fail
    \/ \E s \in Signatures : StrayFetch(s)
    \/ Insert
    \/ Crash

(* The timer keeps firing, and what needs no call goes on.  The endpoint   *)
(* may fail any number of times, and with it the sync, but a call that is  *)
(* made again and again is answered some time.                             *)
Fairness ==
    /\ WF_vars(Start)
    /\ WF_vars(Take)
    /\ WF_vars(Insert)
    /\ \A before \in 0..MaxTxs : SF_vars(List(before))
    /\ \A s \in Signatures : SF_vars(Fetch(s))

Spec == Init /\ [][Next]_vars /\ Fairness
-----------------------------------------------------------------------------
(* What readers are shown: ORDER BY ord ASC. *)
Served == [k \in 1..Cardinality(DOMAIN txs) |-> CHOOSE s \in DOMAIN txs : txs[s].ord = k]

Feed == INSTANCE NoxFeed WITH served <- Served

(* The stored rows are the program's transactions in chain order with none *)
(* left out, whatever pages, failures, stray workers and crashes came      *)
(* between: the indexer implements the feed (syncOnce, insertNewestFirst). *)
FeedRefinement == Feed!Spec

(* Every confirmed transaction is served some time: what a sync fetched    *)
(* before it failed is not lost, so the next one gets further (cacheTx).   *)
CatchesUp == Feed!CaughtUp

(* What a sync lists is not stored, so nothing is fetched or placed twice  *)
(* however the syncs before it ended (newestSignature as `until`).         *)
ListedAreNew == \A i \in DOMAIN sync.sigs : sync.sigs[i] \notin DOMAIN txs
=============================================================================
