------------------------------- MODULE Faucet -------------------------------
(***************************************************************************)
(* The devnet faucet: services/faucet/faucet.mjs with the claim limiter of *)
(* services/faucet/lib.mjs.  Claims are served one at a time.  A claim     *)
(* checks the limiter, reserves the wallet, reads balances, sends one      *)
(* transaction and waits until it is confirmed, has failed, has expired,   *)
(* or the wait is too long; then the claim is counted and written to a     *)
(* file, or released.  Any call may fail, an error may hide that the       *)
(* transaction was accepted, saving may fail, the process may be killed    *)
(* and is started again from the file.                                     *)
(*                                                                         *)
(* Balances are abstracted to what reading them decides: they cover the    *)
(* claim or they do not, and a transaction may fail whatever was read.     *)
(* What a caller is told is left out: the limits are on what is paid.      *)
(***************************************************************************)
EXTENDS Naturals, Sequences, FiniteSets

CONSTANTS
    Wallets,     \* claimants
    Ips,         \* caller addresses
    PerIp,       \* PER_IP: claims per address and window
    Window,      \* windowMs: the 24 hours, in ticks of the clock
    MaxWaiting,  \* MAX_WAITING: claims waiting or running
    MaxNow,      \* bound: where the clock stops
    MaxRequests, \* bound: requests ever made
    MaxDeaths    \* bound: how often the process dies

ASSUME FaucetAssumption ==
    /\ PerIp \in Nat \ {0}
    /\ Window \in Nat \ {0}
    /\ MaxWaiting \in Nat \ {0}
    /\ {MaxNow, MaxRequests, MaxDeaths} \subseteq Nat

VARIABLES
    now,      \* the clock
    requests, \* requests accepted so far
    deaths,   \* how often the process died
    queue,    \* accepted claims that have not begun, oldest first
    waiting,  \* the counter `waiting`: claims accepted and not finished
    current,  \* the claim being served
    memory,   \* the limiter: wallets, ips, pending
    file,     \* what the claims file holds: wallets, ips
    sends     \* chain: the transactions the faucet sent, in order

faucetVars == <<now, requests, deaths, queue, waiting, current, memory, file, sends>>
server == <<queue, waiting, current, memory, file>>

Idle == [phase |-> "idle"]

(* Claim times per wallet (0 for none) and per address, oldest first. *)
NoClaims == [wallets |-> [w \in Wallets |-> 0], ips |-> [a \in Ips |-> <<>>]]

(* What a start of the process finds in the file. *)
Loaded(claims) == [wallets |-> claims.wallets, ips |-> claims.ips, pending |-> {}]

FaucetInit ==
    /\ now = 1
    /\ requests = 0
    /\ deaths = 0
    /\ queue = <<>>
    /\ waiting = 0
    /\ current = Idle
    /\ memory = Loaded(NoClaims)
    /\ file = NoClaims
    /\ sends = <<>>

-----------------------------------------------------------------------------
(* The limiter *)

InWindow(t) == t + Window > now

(* The claim times of an address are kept oldest first: those the window   *)
(* left behind are the first ones.                                         *)
Recent(times) ==
    SubSeq(times, Cardinality({i \in DOMAIN times : ~ InWindow(times[i])}) + 1, Len(times))

(* prune: forget what is older than the window. *)
Pruned(m) ==
    [m EXCEPT !.wallets = [w \in Wallets |-> IF InWindow(m.wallets[w]) THEN m.wallets[w] ELSE 0],
              !.ips     = [a \in Ips |-> Recent(m.ips[a])]]

(* check, of a limiter that is pruned. *)
Allowed(m, w, a) ==
    /\ w \notin m.pending
    /\ m.wallets[w] = 0
    /\ Len(m.ips[a]) < PerIp

Released(m, w) == [m EXCEPT !.pending = @ \ {w}]

Counted(m, w, a) ==
    [m EXCEPT !.pending    = @ \ {w},
              !.wallets[w] = now,
              !.ips[a]     = Append(@, now)]

(* save: the file is what is in memory. *)
Saved(m) == [wallets |-> m.wallets, ips |-> m.ips]

-----------------------------------------------------------------------------
(* The queue *)

(* POST /faucet with room in the queue.  A request past the limit is       *)
(* answered at once and changes nothing.                                   *)
Request(w, a) ==
    /\ requests < MaxRequests
    /\ requests' = requests + 1
    /\ waiting < MaxWaiting
    /\ waiting' = waiting + 1
    /\ queue' = Append(queue, [wallet |-> w, ip |-> a])
    /\ UNCHANGED <<now, deaths, current, memory, file, sends>>

(* The claim ends, with an answer, and gives its place in the queue back:  *)
(* the chain goes on whether the claim resolved or threw.                  *)
Finish(m) ==
    /\ waiting' = waiting - 1
    /\ current' = Idle
    /\ memory' = m

(* The next claim begins: check, and reserve or refuse. *)
Begin ==
    /\ current = Idle
    /\ queue # <<>>
    /\ queue' = Tail(queue)
    /\ LET c == Head(queue)
           m == Pruned(memory)
       IN  \/ /\ Allowed(m, c.wallet, c.ip)
              /\ memory' = [m EXCEPT !.pending = @ \cup {c.wallet}]
              /\ current' = [phase |-> "reading", wallet |-> c.wallet, ip |-> c.ip]
              /\ UNCHANGED waiting
           \/ /\ ~ Allowed(m, c.wallet, c.ip)
              /\ Finish(m)
    /\ UNCHANGED <<now, requests, deaths, file, sends>>

-----------------------------------------------------------------------------
(* A claim *)

Clock == <<now, requests, deaths>>

(* Released and answered as not paid: 502 or 503. *)
GiveUp ==
    /\ Finish(Released(memory, current.wallet))
    /\ UNCHANGED <<queue, file>>

(* The balances arrive and cover the claim. *)
Read ==
    /\ current.phase = "reading"
    /\ current' = [current EXCEPT !.phase = "sending"]
    /\ UNCHANGED <<Clock, sends, queue, waiting, memory, file>>

(* They do not, or the call fails. *)
ReadFails ==
    /\ current.phase = "reading"
    /\ GiveUp
    /\ UNCHANGED <<Clock, sends>>

(* A transaction on its way.  History, for the properties only: the caller *)
(* and the time, and whether the server keeps track of it (tracked).       *)
Sent(tracked) ==
    Append(sends, [wallet |-> current.wallet, ip |-> current.ip, at |-> now,
                   state |-> "inflight", past |-> FALSE, tracked |-> tracked])

Untracked == [sends EXCEPT ![current.tx].tracked = FALSE]

(* The transaction is accepted and the server learns it. *)
Send ==
    /\ current.phase = "sending"
    /\ sends' = Sent(TRUE)
    /\ current' = [phase |-> "confirming", wallet |-> current.wallet, ip |-> current.ip,
                    tx |-> Len(sends) + 1]
    /\ UNCHANGED <<Clock, queue, waiting, memory, file>>

(* sendTransaction fails: the transaction was refused, or the answer that  *)
(* it was accepted is lost.                                                *)
SendFails ==
    /\ current.phase = "sending"
    /\ sends' \in {sends, Sent(FALSE)}
    /\ GiveUp
    /\ UNCHANGED Clock

(* commit: counted, and saved.  A failed save is caught, and the claim     *)
(* counted once more.                                                      *)
Commit ==
    LET once  == Counted(memory, current.wallet, current.ip)
        twice == Counted(once, current.wallet, current.ip)
    IN  \E m \in {once, twice} :
            /\ Finish(m)
            /\ file' = Saved(m)
            /\ UNCHANGED <<queue, Clock, sends>>

(* One poll of confirm: the status of the signature. *)
Poll ==
    /\ current.phase = "confirming"
    /\ LET state == sends[current.tx].state
       IN  \/ state = "landed" /\ Commit
           \/ state = "failed" /\ GiveUp /\ UNCHANGED <<Clock, sends>>
           \/ /\ state = "inflight"
              /\ current' = [current EXCEPT !.phase = "height"]
              /\ UNCHANGED <<Clock, sends, queue, waiting, memory, file>>

(* Every fourth poll goes on to ask for the block height.  A transaction   *)
(* that landed since the status was read is lost sight of.                 *)
PollHeight ==
    /\ current.phase = "height"
    /\ \/ /\ sends[current.tx].past
          /\ GiveUp
          /\ sends' = IF sends[current.tx].state = "landed" THEN Untracked ELSE sends
          /\ UNCHANGED Clock
       \/ /\ ~ sends[current.tx].past
          /\ current' = [current EXCEPT !.phase = "confirming"]
          /\ UNCHANGED <<Clock, sends, queue, waiting, memory, file>>

(* A mutant: whatever fails, the claim is released. *)
ReleasingPollFails ==
    /\ current.phase \in {"confirming", "height"}
    /\ GiveUp
    /\ UNCHANGED <<Clock, sends>>

(* A poll fails: what was sent may have landed, and is counted. *)
PollFails ==
    /\ current.phase \in {"confirming", "height"}
    /\ Commit

(* A mutant: the wait goes on while the transaction is pending. *)
PatientTimeout ==
    /\ current.phase = "confirming"
    /\ sends[current.tx].state # "inflight"
    /\ Commit

(* CONFIRM_TIMEOUT_MS: still pending, and counted. *)
Timeout ==
    /\ current.phase = "confirming"
    /\ Commit

-----------------------------------------------------------------------------
(* The process is killed, or dies of a save that fails twice (an exception *)
(* nothing catches), and starts again from the file.  It knows nothing of  *)
(* a transaction it was waiting for.                                       *)
Killed ==
    /\ deaths < MaxDeaths
    /\ deaths' = deaths + 1
    /\ queue' = <<>>
    /\ waiting' = 0
    /\ current' = Idle
    /\ memory' = Pruned(Loaded(file))
    /\ sends' = IF current.phase \in {"confirming", "height"} THEN Untracked ELSE sends
    /\ UNCHANGED <<now, requests, file>>

(* The chain: a transaction lands or fails, and the blocks go past the     *)
(* last one that may hold it.                                              *)
Land(i) ==
    /\ sends[i].state = "inflight"
    /\ ~ sends[i].past
    /\ \E state \in {"landed", "failed"} : sends' = [sends EXCEPT ![i].state = state]
    /\ UNCHANGED <<Clock, server>>

HeightPasses(i) ==
    /\ ~ sends[i].past
    /\ sends' = [sends EXCEPT ![i].past = TRUE]
    /\ UNCHANGED <<Clock, server>>

Tick ==
    /\ now < MaxNow
    /\ now' = now + 1
    /\ UNCHANGED <<requests, deaths, sends, server>>

FaucetNext ==
    \/ \E w \in Wallets, a \in Ips : Request(w, a)
    \/ Begin
    \/ Read
    \/ ReadFails
    \/ Send
    \/ SendFails
    \/ Poll
    \/ PollHeight
    \/ PollFails
    \/ Timeout
    \/ Killed
    \/ \E i \in DOMAIN sends : Land(i) \/ HeightPasses(i)
    \/ Tick

(* A call is answered or fails; the wait for a confirmation ends by its    *)
(* deadline, whatever the polls say.  The chain owes the faucet nothing.   *)
FaucetFairness ==
    /\ WF_faucetVars(Begin)
    /\ WF_faucetVars(Read \/ ReadFails)
    /\ WF_faucetVars(Send \/ SendFails)
    /\ WF_faucetVars(PollHeight \/ PollFails)
    /\ SF_faucetVars(Timeout)

-----------------------------------------------------------------------------
(* Paid, and tracked by the server until the claim was answered.  Three    *)
(* kinds of payment are not, and the code lets each be claimed again: the  *)
(* answer to the send was lost, the process died before the claim was      *)
(* counted, or the transaction landed between the last look at its status  *)
(* and the look at the height that gave it up.                             *)
Paid(i) == sends[i].tracked /\ sends[i].state = "landed"

(* "One claim per wallet per 24 h" (ClaimLimiter): two such payments to a  *)
(* wallet are sent a window apart, whatever polls and saves fail, however  *)
(* late they land, and if the process is restarted in between.             *)
PaidOncePerWindow ==
    \A i, j \in DOMAIN sends :
        i < j /\ Paid(i) /\ Paid(j) /\ sends[i].wallet = sends[j].wallet =>
            sends[i].at + Window <= sends[j].at

(* "... and at most `perIp` claims per address per 24 h": no payment is    *)
(* more than the PerIp-th of its address in the window it ends.            *)
PaidWithinPerIp ==
    \A j \in DOMAIN sends : Paid(j) =>
        Cardinality({i \in 1..j : Paid(i) /\ sends[i].ip = sends[j].ip
                                  /\ sends[i].at + Window > sends[j].at}) <= PerIp

(* A wallet is locked out only by a claim that did send a transaction:     *)
(* what is released leaves no trace (release, and `sent` in the catch).    *)
LockedOutOnlyIfSent ==
    \A w \in Wallets : memory.wallets[w] # 0 => \E i \in DOMAIN sends : sends[i].wallet = w

(* The limits hold in money, for every payment the server tracked, and     *)
(* lock out no wallet that nothing was sent to.                            *)
LimitsHold == PaidOncePerWindow /\ PaidWithinPerIp /\ LockedOutOnlyIfSent

Asked(w) == \/ current # Idle /\ current.wallet = w
            \/ \E i \in DOMAIN queue : queue[i].wallet = w

(* Each accepted claim is answered some time, whatever fails in the claims *)
(* before it (serialised: the chain continues after a rejection).          *)
EveryClaimEnds == \A w \in Wallets : Asked(w) ~> ~ Asked(w)

=============================================================================
