------------------------------ MODULE SafeReplay ------------------------------
(***************************************************************************)
(* The replay of a manifest of Safe bundles on L1 (protocol-ops: dev       *)
(* execute-safe, dev execute-manifest and ecosystem upgrade-broadcast):    *)
(* bundle by bundle and transaction by transaction, each estimated, sent   *)
(* and awaited before the next, skipping what an earlier partial broadcast *)
(* did already.  The tool may be killed at any point and is run again from *)
(* the first bundle; what it sent before may still be in the mempool, and  *)
(* is mined later or dropped, also while the next run has it counted.      *)
(*                                                                         *)
(* A transaction is one of a few kinds, told apart by how L1 answers a     *)
(* repetition.  Gas prices, values and calldata are left out.              *)
(***************************************************************************)
EXTENDS Integers, Sequences, Functions

CONSTANTS
    Bundles,       \* the manifest: a sequence of [target, txs], txs a sequence of kinds
    Modes,         \* the commands considered: "manifest", "broadcast", "unlocked"
    CurrentGovernance, \* whether the governance contract is the current one
    MaxKills,      \* bound: times the tool is killed
    MaxDrops       \* bound: transactions dropped from the mempool

Targets == {Bundles[b].target : b \in DOMAIN Bundles}

\* create2: deployment by the CREATE2 factory; setup: a setter that refuses a
\* second value; schedule, execute: the governance operation; call: a call that
\* may be repeated.
Kinds == {"create2", "setup", "schedule", "execute", "call"}

ASSUME ReplayAssumption ==
    /\ Bundles \in Seq([target : Targets, txs : Seq(Kinds) \ {<<>>}]) \ {<<>>}
    /\ Modes \subseteq {"manifest", "broadcast", "unlocked"}
    /\ CurrentGovernance \in BOOLEAN
    /\ MaxKills \in Nat /\ MaxDrops \in Nat

\* The transactions of the manifest, in order, by bundle and position.
Txs == UNION {{<<b, i>> : i \in DOMAIN Bundles[b].txs} : b \in DOMAIN Bundles}

Kind(t) == Bundles[t[1]].txs[t[2]]

Before(t, u) == t[1] < u[1] \/ (t[1] = u[1] /\ t[2] < u[2])

\* The model of L1 has one contract, one setting and one operation, so a manifest
\* has one transaction of each kind, at most, that is not a plain call; and the
\* operation that it executes it schedules first.
ASSUME ManifestAssumption ==
    /\ \A t, u \in Txs : Kind(t) = Kind(u) /\ Kind(t) # "call" => t = u
    /\ \A u \in Txs : Kind(u) = "execute" => \E t \in Txs : Kind(t) = "schedule" /\ Before(t, u)

VARIABLES
    mode,     \* the command that is used
    keys,     \* the signers whose keys were supplied
    world,    \* the state of L1 that the transactions touch
    mined,    \* the transactions on L1, in order: [tx, ok]
    nonce,    \* number of mined transactions of each signer
    mempool,  \* transactions of each signer that wait to be mined: a set of [tx, nonce]
    tool,     \* the running replay
    log,      \* the file of --out, as it was last written in full
    torn,     \* whether the file is empty or incomplete: its writing began and did not end
    hashes,   \* transactions.txt beside it
    result,   \* how the last run ended
    kills,    \* number of times the tool was killed
    drops     \* number of dropped transactions

vars == <<mode, keys, world, mined, nonce, mempool, tool, log, torn, hashes, result, kills, drops>>

NotRunning == [at |-> "none", b |-> 0, i |-> 0, base |-> 0, skipped |-> 0, hash |-> 0,
               executed |-> <<>>]

Init ==
    /\ mode \in Modes
    /\ keys \in SUBSET Targets
    /\ world = [code |-> FALSE, set |-> FALSE, op |-> "unset", cancelled |-> FALSE]
    /\ mined = <<>>
    /\ nonce = [s \in Targets |-> 0]
    /\ mempool = [s \in Targets |-> {}]
    /\ tool = NotRunning
    /\ log = <<>>
    /\ torn = FALSE
    /\ hashes = <<>>
    /\ result = "none"
    /\ kills = 0
    /\ drops = 0

\* The transaction the tool is at, its signer and its nonce.
tx == <<tool.b, tool.i>>

Signer == Bundles[tool.b].target

\* Mutant: a skipped transaction uses up a nonce.
NextNonceSkips == tool.base + tool.i - 1

NextNonce == tool.base + tool.i - 1 - tool.skipped

(***************************************************************************)
(* L1.  A transaction is known by its place in `mined`, its hash.          *)
(***************************************************************************)

Sent == [tx |-> tx, nonce |-> NextNonce]

\* The answer of L1 to a transaction: "ok" or the error it reverts with.
Answer(kind) ==
    CASE kind = "create2" -> IF world.code THEN "Collision" ELSE "ok"
      [] kind = "setup" -> IF ~world.code THEN "NoContract"
                           ELSE IF world.set THEN "AddressAlreadySet" ELSE "ok"
      [] kind = "schedule" -> IF world.op = "unset" THEN "ok" ELSE "OperationExists"
      [] kind = "execute" -> IF world.op = "pending" THEN "ok" ELSE "OperationMustBePending"
      [] kind = "call" -> "ok"

Effect(kind) ==
    CASE kind = "create2" -> [world EXCEPT !.code = TRUE]
      [] kind = "setup" -> [world EXCEPT !.set = TRUE]
      [] kind = "schedule" -> [world EXCEPT !.op = "pending"]
      [] kind = "execute" -> [world EXCEPT !.op = "done"]
      [] kind = "call" -> world

\* The next transaction of a signer, by nonce, is mined.
Mine(s) ==
    \E p \in mempool[s] :
       LET ok == Answer(Kind(p.tx)) = "ok"
       IN /\ p.nonce = nonce[s]
          /\ mined' = Append(mined, [tx |-> p.tx, ok |-> ok])
          /\ world' = IF ok THEN Effect(Kind(p.tx)) ELSE world
          /\ nonce' = [nonce EXCEPT ![s] = @ + 1]
          /\ mempool' = [mempool EXCEPT ![s] = @ \ {p}]
          /\ tool' = IF tool.at = "await" /\ Signer = s /\ Sent = p
                     THEN [tool EXCEPT !.at = IF ok THEN "receipt" ELSE "reverted",
                                       !.hash = Len(mined) + 1]
                     ELSE tool
          /\ UNCHANGED <<mode, keys, log, torn, hashes, result, kills, drops>>

\* A transaction is dropped from the mempool: the one that the tool waits for, or
\* one that a killed run left; those with higher nonces stay and wait for the gap
\* to be filled.
Drop(s) ==
    /\ drops < MaxDrops
    /\ \E p \in mempool[s] : mempool' = [mempool EXCEPT ![s] = @ \ {p}]
    /\ drops' = drops + 1
    /\ UNCHANGED <<mode, keys, world, mined, nonce, tool, log, torn, hashes, result, kills>>

\* The governance's owner cancels the pending operation, once.
Cancel ==
    /\ world.op = "pending"
    /\ ~world.cancelled
    /\ world' = [world EXCEPT !.op = "unset", !.cancelled = TRUE]
    /\ UNCHANGED <<mode, keys, mined, nonce, mempool, tool, log, torn, hashes, result, kills, drops>>

(***************************************************************************)
(* The tool.                                                               *)
(***************************************************************************)

Fail(why) ==
    /\ tool' = NotRunning
    /\ result' = why

\* The nonces in the mempool, and the count of a signer's transactions at the
\* pending block: it ends at the first gap.
Waiting(s) == {p.nonce : p \in mempool[s]}

IsPendingCount(s, n) == n \notin Waiting(s) /\ nonce[s] .. n - 1 \subseteq Waiting(s)

\* Whether the file of --out exists and cannot be parsed.
UnreadableLog == mode # "manifest" /\ torn

\* The start of execute_one_bundle: the nonce counts the pending transactions.
OpenBundle(b) ==
    LET s == Bundles[b].target
    IN IF mode # "unlocked" /\ s \notin keys
       THEN Fail("no key")
       ELSE IF UnreadableLog
       THEN Fail("aborted")
       ELSE \E n \in {nonce[s]} \union {m + 1 : m \in Waiting(s)} :
               /\ IsPendingCount(s, n)
               /\ tool' = [NotRunning EXCEPT !.at = "estimate", !.b = b, !.i = 1, !.base = n]
               /\ result' = "running"

\* Every required signer must have a key, unless the accounts are impersonated.
Preflight == mode = "broadcast" => Targets \subseteq keys

\* run of upgrade-broadcast, apply_manifest_from.  A run is repeated unless it
\* succeeded or lacked a key.
Start ==
    /\ tool.at = "none"
    /\ result \notin {"done", "no key", "refused"}
    /\ IF Preflight THEN OpenBundle(1) ELSE Fail("refused")
    /\ UNCHANGED <<mode, keys, world, mined, nonce, mempool, log, torn, hashes, kills, drops>>

\* should_skip_idempotent: what the code does, not all of what its comment says.
should_skip_idempotent(kind) == kind = "create2" /\ world.code

\* The selectors of the current governance contract are known to the unlocked
\* replay only; the legacy contract has others.
GovernanceErrors ==
    IF CurrentGovernance /\ mode # "unlocked" THEN {} ELSE {"OperationExists", "OperationMustBePending"}

known_idempotent == {"AddressAlreadySet"} \union GovernanceErrors

Skips(kind) == should_skip_idempotent(kind) \/ Answer(kind) \in known_idempotent

Advance(t) ==
    IF t.i < Len(Bundles[t.b].txs)
    THEN [t EXCEPT !.at = "estimate", !.i = @ + 1]
    ELSE [t EXCEPT !.at = "persist"]

\* eth_estimateGas on the latest block: send, skip or give up.
Estimate ==
    LET kind == Kind(tx)
    IN /\ tool.at = "estimate"
       /\ IF Answer(kind) = "ok"
          THEN tool' = [tool EXCEPT !.at = "send"] /\ UNCHANGED result
          ELSE IF Skips(kind)
          THEN tool' = Advance([tool EXCEPT !.skipped = @ + 1]) /\ UNCHANGED result
          ELSE Fail("aborted")
       /\ UNCHANGED <<mode, keys, world, mined, nonce, mempool, log, torn, hashes, kills, drops>>

\* Mutant: the next transaction does not wait for the receipt.
SendAhead ==
    /\ tool.at = "send"
    /\ mempool' = [mempool EXCEPT ![Signer] = @ \union {Sent}]
    /\ tool' = Advance(tool)
    /\ UNCHANGED <<mode, keys, world, mined, nonce, log, torn, hashes, result, kills, drops>>

\* The node refuses a nonce that was used, and refuses or replaces a transaction
\* that waits with the same one, by their prices.
Send ==
    LET same == {p \in mempool[Signer] : p.nonce = NextNonce}
    IN /\ tool.at = "send"
       /\ \/ /\ NextNonce >= nonce[Signer]
             /\ mempool' = [mempool EXCEPT ![Signer] = (@ \ same) \union {Sent}]
             /\ tool' = [tool EXCEPT !.at = "await"]
             /\ UNCHANGED result
          \/ /\ NextNonce < nonce[Signer] \/ same # {}
             /\ Fail("aborted")
             /\ UNCHANGED mempool
       /\ UNCHANGED <<mode, keys, world, mined, nonce, log, torn, hashes, kills, drops>>

\* Mutant: the status of the receipt is not looked at.
ReceiptAny ==
    /\ tool.at \in {"receipt", "reverted"}
    /\ tool' = Advance([tool EXCEPT !.executed = Append(@, tool.hash)])
    /\ UNCHANGED <<mode, keys, world, mined, nonce, mempool, log, torn, hashes, result, kills, drops>>

\* The receipt: a transaction that reverted ends the run.
Receipt ==
    /\ tool.at \in {"receipt", "reverted"}
    /\ IF tool.at = "receipt"
       THEN tool' = Advance([tool EXCEPT !.executed = Append(@, tool.hash)]) /\ UNCHANGED result
       ELSE Fail("aborted")
    /\ UNCHANGED <<mode, keys, world, mined, nonce, mempool, log, torn, hashes, kills, drops>>

\* persist_executed_bundle, after the whole bundle, if anything was executed:
\* fs::write empties the file and then writes it.  execute-manifest has no log.
Truncate ==
    /\ tool.at = "persist"
    /\ torn' = (torn \/ (mode # "manifest" /\ tool.executed # <<>>))
    /\ tool' = [tool EXCEPT !.at = "write"]
    /\ UNCHANGED <<mode, keys, world, mined, nonce, mempool, log, hashes, result, kills, drops>>

Persist ==
    /\ tool.at = "write"
    /\ log' = IF mode = "manifest" THEN log ELSE log \o tool.executed
    /\ torn' = FALSE
    /\ tool' = [tool EXCEPT !.at = "hashes"]
    /\ UNCHANGED <<mode, keys, world, mined, nonce, mempool, hashes, result, kills, drops>>

\* append_transaction_hash, then the next bundle.
AppendHashes ==
    /\ tool.at = "hashes"
    /\ hashes' = IF mode = "manifest" THEN hashes ELSE hashes \o tool.executed
    /\ IF tool.b < Len(Bundles) THEN OpenBundle(tool.b + 1) ELSE Fail("done")
    /\ UNCHANGED <<mode, keys, world, mined, nonce, mempool, log, torn, kills, drops>>

\* The receipt does not come: the transaction was dropped, or one with a lower
\* nonce that the pending count had included.
Hangs ==
    /\ tool.at = "await"
    /\ \/ Sent \notin mempool[Signer]
       \/ ~(nonce[Signer] .. NextNonce \subseteq Waiting(Signer))

\* The tool is killed, by the operator when it hangs.
Kill ==
    /\ tool.at # "none"
    /\ \/ Hangs /\ UNCHANGED kills
       \/ ~Hangs /\ kills < MaxKills /\ kills' = kills + 1
    /\ Fail("killed")
    /\ UNCHANGED <<mode, keys, world, mined, nonce, mempool, log, torn, hashes, drops>>

Next ==
    \/ Start \/ Estimate \/ Send \/ Receipt \/ Truncate \/ Persist \/ AppendHashes \/ Kill
    \/ \E s \in Targets : Mine(s) \/ Drop(s)
    \/ Cancel

Spec == Init /\ [][Next]_vars

\* The tool runs, is run again after a failure and killed when it hangs, and
\* what stays in the mempool is mined; kills and drops are not fair, and finite.
Fairness ==
    /\ WF_vars(Start \/ Estimate \/ Send \/ Receipt \/ Truncate \/ Persist \/ AppendHashes)
    /\ WF_vars(Hangs /\ Kill)
    /\ \A s \in Targets : WF_vars(Mine(s))

FairSpec == Spec /\ Fairness

(***************************************************************************)
(* Properties.                                                             *)
(***************************************************************************)

\* The places in `mined` where a transaction succeeded.
Successes(t) == {k \in DOMAIN mined : mined[k].tx = t /\ mined[k].ok}

\* Unless the owner cancelled the operation, the manifest is applied in order and
\* in full: a transaction takes effect for the first time only after all that
\* precede it did, however the runs were killed and repeated, and a replay that
\* reports success has applied every one, so that what it skipped had been done.
ManifestApplied ==
    ~world.cancelled =>
        /\ \A t, u \in Txs : Before(t, u) => \A k \in Successes(u) : \E j \in Successes(t) : j < k
        /\ result = "done" => \A t \in Txs : Successes(t) # {}

\* "We only flush additions after the entire bundle succeeds so failed bundles do
\* not pollute outputs" (execute_safe.rs): a log that is whole has successful
\* transactions only, once each and in the order of L1, and the hash file none
\* that it does not have.
LogIsClean ==
    ~torn =>
        /\ \A k \in DOMAIN log : mined[log[k]].ok
        /\ \A j, k \in DOMAIN log : j < k => log[j] < log[k]
        /\ Range(hashes) \subseteq Range(log)

\* A partial broadcast can be completed by running the command again: with the
\* keys at hand and errors the tool knows, the replay succeeds at last, however
\* often it is killed and whatever the mempool loses.  A transaction that is lost
\* after "Fetch starting nonce once and assign nonces locally" (execute_safe.rs)
\* leaves a gap below the nonces of that run, and what was sent above the gap gets
\* in the way of the next one: a run may hang or be refused for it, and a later
\* one completes.  The one thing that no run recovers from is a log that was being
\* written when the tool was killed.
ReplayCompletes ==
    (mode = "unlocked" \/ (Targets \subseteq keys /\ ~CurrentGovernance))
        ~> (result = "done" \/ (tool.at = "none" /\ torn))

=============================================================================
