--------------------------- MODULE SafeReplayProofs ---------------------------
(***************************************************************************)
(* Proofs about the replay of a manifest of Safe bundles, for every        *)
(* manifest, set of signers, mode and number of kills and drops.           *)
(*                                                                         *)
(* A transaction has been applied when a mined one succeeded.  The tool    *)
(* sends one only when all before it are applied (ToolOK), and skips one   *)
(* only when L1 answers in a way that shows it applied (WorldOK); what     *)
(* killed runs left in the mempool was sent under the same condition       *)
(* (MempoolOK), which nothing undoes but the owner's cancellation.  So a   *)
(* transaction that is mined, at whatever time, comes after all before it  *)
(* (InOrder).  LogInv is about the files: what a run has executed was      *)
(* mined after all that the log has.                                       *)
(***************************************************************************)
EXTENDS SafeReplay, TLAPS

Busy == {"estimate", "send", "await", "receipt", "reverted"}

Tools ==
    [at : Busy \cup {"none", "persist", "write", "hashes"}, b : Nat, i : Nat, base : Int,
     skipped : Nat, hash : Nat, executed : Seq(Nat)]

\* The type of the variables that the properties depend on.
TypeOK ==
    /\ world \in [code : BOOLEAN, set : BOOLEAN, op : {"unset", "pending", "done"}, cancelled : BOOLEAN]
    /\ mined \in Seq([tx : Txs, ok : BOOLEAN])
    /\ nonce \in [Targets -> Nat]
    /\ mempool \in [Targets -> SUBSET [tx : Txs, nonce : Int]]
    /\ tool \in Tools
    /\ log \in Seq(Nat)
    /\ hashes \in Seq(Nat)

Applied(t) == \E k \in DOMAIN mined : mined[k].tx = t /\ mined[k].ok

AppliedBefore(t) == \A u \in Txs : Before(u, t) => Applied(u)

AppliedUpTo(b) == \A u \in Txs : u[1] <= b => Applied(u)

\* What L1 shows was applied.
WorldOK ==
    ~world.cancelled =>
        \A t \in Txs :
           /\ Kind(t) = "create2" /\ world.code => Applied(t)
           /\ Kind(t) = "setup" /\ world.set => Applied(t)
           /\ Kind(t) = "schedule" => (Applied(t) <=> world.op # "unset")
           /\ Kind(t) = "execute" /\ world.op = "done" => Applied(t)

\* A pending transaction was sent when all before it were applied.
MempoolOK ==
    ~world.cancelled => \A s \in Targets : \A p \in mempool[s] : AppliedBefore(p.tx)

\* Where the tool is, and what was applied by then.
ToolOK ==
    /\ tool.at \in Busy => tx \in Txs
    /\ tool.at \in {"persist", "write", "hashes"} => tool.b \in DOMAIN Bundles
    /\ ~world.cancelled =>
          /\ tool.at \in Busy => AppliedBefore(tx)
          /\ tool.at = "receipt" => Applied(tx)
          /\ tool.at \in {"persist", "write", "hashes"} => AppliedUpTo(tool.b)

InOrder ==
    ~world.cancelled =>
        \A t, u \in Txs : Before(t, u) =>
            \A k \in DOMAIN mined : mined[k].tx = u /\ mined[k].ok =>
                \E j \in DOMAIN mined : mined[j].tx = t /\ mined[j].ok /\ j < k

DoneOK == ~world.cancelled /\ result = "done" => \A t \in Txs : Applied(t)

\* The inductive invariant.
ManifestInv == TypeOK /\ WorldOK /\ MempoolOK /\ ToolOK /\ InOrder /\ DoneOK

(***************************************************************************)
(* The transactions of a manifest.                                         *)
(***************************************************************************)

\* A transaction is a bundle and a position in it.
LEMMA TxFacts ==
    /\ Len(Bundles) \in Nat \ {0} /\ DOMAIN Bundles = 1 .. Len(Bundles)
    /\ \A b \in DOMAIN Bundles :
          /\ Len(Bundles[b].txs) \in Nat \ {0} /\ DOMAIN Bundles[b].txs = 1 .. Len(Bundles[b].txs)
          /\ Bundles[b].target \in Targets
    /\ \A b, i : <<b, i>> \in Txs <=> b \in DOMAIN Bundles /\ i \in DOMAIN Bundles[b].txs
    /\ \A t \in Txs : t = <<t[1], t[2]>> /\ t[1] \in DOMAIN Bundles /\ t[2] \in DOMAIN Bundles[t[1]].txs
    /\ \A t \in Txs : Kind(t) \in Kinds
<1>1. Bundles \in Seq([target : Targets, txs : Seq(Kinds) \ {<<>>}]) /\ Bundles # <<>>
  BY ReplayAssumption
<1>2. Len(Bundles) \in Nat \ {0} /\ DOMAIN Bundles = 1 .. Len(Bundles)
  BY <1>1
<1>3. \A b \in DOMAIN Bundles : Bundles[b].txs \in Seq(Kinds) /\ Bundles[b].txs # <<>>
  <2> DEFINE E == [target : Targets, txs : Seq(Kinds) \ {<<>>}]
  <2>1. Bundles \in Seq(E)
    BY <1>1
  <2> HIDE DEF E
  <2>2. \A b \in DOMAIN Bundles : Bundles[b] \in E
    BY <2>1
  <2>3. QED
    BY <2>2 DEF E
<1>4. ASSUME NEW b \in DOMAIN Bundles
      PROVE  /\ Len(Bundles[b].txs) \in Nat \ {0} /\ DOMAIN Bundles[b].txs = 1 .. Len(Bundles[b].txs)
             /\ Bundles[b].target \in Targets
  BY <1>3 DEF Targets
<1>5. \A b, i : <<b, i>> \in Txs <=> b \in DOMAIN Bundles /\ i \in DOMAIN Bundles[b].txs
  BY DEF Txs
<1>6. \A t \in Txs : t = <<t[1], t[2]>> /\ t[1] \in DOMAIN Bundles /\ t[2] \in DOMAIN Bundles[t[1]].txs
  BY DEF Txs
<1>7. \A t \in Txs : Kind(t) \in Kinds
  BY <1>3, <1>6 DEF Kind
<1>8. QED
  BY <1>2, <1>4, <1>5, <1>6, <1>7

\* The transaction after another of the same bundle.
LEMMA NextInBundle ==
    ASSUME NEW b, NEW i, <<b, i>> \in Txs, i < Len(Bundles[b].txs)
    PROVE  /\ <<b, i + 1>> \in Txs
           /\ \A u \in Txs : Before(u, <<b, i + 1>>) => Before(u, <<b, i>>) \/ u = <<b, i>>
<1>1. b \in DOMAIN Bundles /\ i \in 1 .. Len(Bundles[b].txs) /\ Len(Bundles[b].txs) \in Nat
  BY TxFacts
<1>2. <<b, i + 1>> \in Txs
  BY <1>1, TxFacts
<1>3. ASSUME NEW u \in Txs, Before(u, <<b, i + 1>>)
      PROVE  Before(u, <<b, i>>) \/ u = <<b, i>>
  <2>1. u = <<u[1], u[2]>> /\ u[1] \in DOMAIN Bundles /\ u[2] \in Nat /\ i \in Nat
    BY <1>1, TxFacts
  <2>2. u[1] < b \/ (u[1] = b /\ u[2] < i + 1)
    BY <1>3 DEF Before
  <2>3. CASE u[1] < b
    BY <2>3 DEF Before
  <2>4. CASE u[1] = b /\ u[2] < i
    BY <2>4 DEF Before
  <2>5. CASE u[1] = b /\ u[2] = i
    BY <2>1, <2>5, Zenon
  <2>6. QED
    BY <2>1, <2>2, <2>3, <2>4, <2>5
<1>4. QED
  BY <1>2, <1>3

\* The last transaction of a bundle.
LEMMA LastInBundle ==
    ASSUME NEW b, NEW i, <<b, i>> \in Txs, ~(i < Len(Bundles[b].txs))
    PROVE  \A u \in Txs : u[1] <= b => Before(u, <<b, i>>) \/ u = <<b, i>>
<1>1. b \in DOMAIN Bundles /\ i \in 1 .. Len(Bundles[b].txs) /\ Len(Bundles[b].txs) \in Nat /\ b \in Nat
  BY TxFacts
<1>2. i = Len(Bundles[b].txs)
  BY <1>1
<1>3. ASSUME NEW u \in Txs, u[1] <= b
      PROVE  Before(u, <<b, i>>) \/ u = <<b, i>>
  <2>1. u = <<u[1], u[2]>> /\ u[1] \in Nat /\ u[2] \in 1 .. Len(Bundles[u[1]].txs)
    BY TxFacts
  <2>2. CASE u[1] < b
    BY <2>2 DEF Before
  <2>3. CASE u[1] = b /\ u[2] < i
    BY <2>3 DEF Before
  <2>4. CASE u[1] = b /\ u[2] = i
    BY <2>1, <2>4, Zenon
  <2>5. QED
    BY <1>1, <1>2, <1>3, <2>1, <2>2, <2>3, <2>4
<1>4. QED
  BY <1>3

\* The first transaction of a bundle.
LEMMA FirstInBundle ==
    ASSUME NEW b \in DOMAIN Bundles
    PROVE  /\ <<b, 1>> \in Txs
           /\ \A u \in Txs : Before(u, <<b, 1>>) => u[1] <= b - 1
<1>1. b \in Nat /\ Len(Bundles[b].txs) \in Nat \ {0}
  BY TxFacts
<1>2. <<b, 1>> \in Txs
  BY <1>1, TxFacts
<1>3. ASSUME NEW u \in Txs, Before(u, <<b, 1>>)
      PROVE  u[1] <= b - 1
  <2>1. u[1] \in Nat /\ u[2] \in Nat /\ u[2] >= 1
    BY TxFacts
  <2>2. QED
    BY <1>1, <1>3, <2>1 DEF Before
<1>4. QED
  BY <1>2, <1>3

(***************************************************************************)
(* Steps that mine nothing.                                                *)
(***************************************************************************)

\* Such a step leaves what was applied, and L1 but for a cancellation.
Quiet ==
    /\ mined' = mined
    /\ world' = world \/ world'.cancelled

\* Where the tool is after a step of its own.
ToolMoves ==
    /\ tool'.at \in Busy => <<tool'.b, tool'.i>> \in Txs
    /\ tool'.at \in {"persist", "write", "hashes"} => tool'.b \in DOMAIN Bundles
    /\ ~world.cancelled =>
          /\ tool'.at \in Busy => AppliedBefore(<<tool'.b, tool'.i>>)
          /\ tool'.at = "receipt" => Applied(<<tool'.b, tool'.i>>)
          /\ tool'.at \in {"persist", "write", "hashes"} => AppliedUpTo(tool'.b)

\* Every transaction in the mempool was there or has those before it applied.
MempoolMoves ==
    \A s \in Targets : \A p \in mempool'[s] :
        (~world.cancelled => AppliedBefore(p.tx)) \/ p \in mempool[s]

\* A step that mines nothing: each part of the invariant holds after it if what it
\* puts into the mempool and where it leaves the tool do.
LEMMA QuietStep ==
    ASSUME ManifestInv, TypeOK', Quiet, ToolMoves, MempoolMoves,
           ~world.cancelled /\ result' = "done" => \A t \in Txs : Applied(t)
    PROVE  ManifestInv'
<1>0. TypeOK /\ WorldOK /\ MempoolOK /\ ToolOK /\ InOrder /\ DoneOK
  BY DEF ManifestInv
<1>1. mined' = mined /\ (~world'.cancelled => world' = world /\ ~world.cancelled)
  BY DEF Quiet
<1>2. \A t : Applied(t)' <=> Applied(t)
  BY <1>1 DEF Applied
<1>3. \A t : AppliedBefore(t)' <=> AppliedBefore(t)
  BY <1>2 DEF AppliedBefore
<1>4. \A b : AppliedUpTo(b)' <=> AppliedUpTo(b)
  BY <1>2 DEF AppliedUpTo
<1>5. WorldOK'
  BY <1>0, <1>1, <1>2 DEF WorldOK
<1>6. MempoolOK'
  <2> SUFFICES ASSUME ~world'.cancelled, NEW s \in Targets, NEW p \in mempool'[s]
               PROVE  AppliedBefore(p.tx)
    BY <1>3 DEF MempoolOK
  <2>1. CASE AppliedBefore(p.tx)
    BY <2>1
  <2>2. CASE p \in mempool[s]
    BY <1>0, <1>1, <2>2 DEF MempoolOK
  <2>3. QED
    BY <1>1, <2>1, <2>2 DEF MempoolMoves
<1>7. ToolOK'
  BY <1>1, <1>2, <1>3, <1>4 DEF ToolMoves, ToolOK, tx
<1>8. InOrder'
  BY <1>0, <1>1 DEF InOrder
<1>9. DoneOK'
  BY <1>1, <1>2 DEF DoneOK
<1>10. QED
  BY <1>5, <1>6, <1>7, <1>8, <1>9 DEF ManifestInv

\* A step that leaves the mempool.
LEMMA MempoolStays ==
    ASSUME mempool' = mempool
    PROVE  MempoolMoves
  BY DEF MempoolMoves

\* The tool moves on from a transaction that was applied.
LEMMA AdvanceMoves ==
    ASSUME ManifestInv, NEW t, t.b = tool.b, t.i = tool.i, tool.at \in Busy,
           ~world.cancelled => Applied(tx),
           t \in Tools,
           tool' = Advance(t)
    PROVE  /\ ToolMoves
           /\ tool' \in Tools
           /\ tool'.at \in {"estimate", "persist"} /\ tool'.executed = t.executed
<1>0. TypeOK /\ ToolOK /\ tx = <<tool.b, tool.i>> /\ tx \in Txs
  BY DEF ManifestInv, ToolOK, tx
<1>1. ~world.cancelled => AppliedBefore(tx)
  BY <1>0 DEF ToolOK
<1>2. CASE tool.i < Len(Bundles[tool.b].txs)
  <2> DEFINE n == t.i + 1
  <2>1. tool' = [t EXCEPT !.at = "estimate", !.i = n]
    BY <1>2 DEF Advance
  <2>n. n \in Nat /\ n = tool.i + 1
    BY DEF Tools
  <2> HIDE DEF n
  <2>2. /\ tool'.at = "estimate" /\ tool'.b = tool.b /\ tool'.i = tool.i + 1 /\ tool'.executed = t.executed
        /\ tool' \in Tools
    BY <2>1, <2>n, Zenon DEF Busy, Tools
  <2>3. /\ <<tool'.b, tool'.i>> \in Txs
        /\ \A u \in Txs : Before(u, <<tool'.b, tool'.i>>) => Before(u, tx) \/ u = tx
    BY <1>0, <1>2, <2>2, NextInBundle
  <2>4. ~world.cancelled => AppliedBefore(<<tool'.b, tool'.i>>)
    BY <1>1, <2>3 DEF AppliedBefore
  <2>5. QED
    BY <2>2, <2>3, <2>4 DEF ToolMoves, Busy
<1>3. CASE ~(tool.i < Len(Bundles[tool.b].txs))
  <2>1. tool' = [t EXCEPT !.at = "persist"]
    BY <1>3 DEF Advance
  <2>2. /\ tool'.at = "persist" /\ tool'.b = tool.b /\ tool'.executed = t.executed
        /\ tool' \in Tools
    BY <2>1 DEF Busy, Tools
  <2>3. \A u \in Txs : u[1] <= tool.b => Before(u, tx) \/ u = tx
    BY <1>0, <1>3, LastInBundle
  <2>4. ~world.cancelled => AppliedUpTo(tool.b)
    BY <1>1, <2>3 DEF AppliedUpTo, AppliedBefore
  <2>5. tool.b \in DOMAIN Bundles
    BY <1>0, TxFacts
  <2>6. QED
    BY <2>2, <2>4, <2>5 DEF ToolMoves, Busy
<1>4. QED
  BY <1>2, <1>3

\* The tool stops, or opens a bundle whose predecessors were applied.
LEMMA OpenBundleMoves ==
    ASSUME ManifestInv, NEW b \in DOMAIN Bundles, OpenBundle(b),
           ~world.cancelled => AppliedUpTo(b - 1)
    PROVE  /\ ToolMoves
           /\ tool' \in Tools
           /\ result' # "done"
           /\ tool'.at \in {"none", "estimate"} /\ tool'.executed = <<>>
<1>0. TypeOK /\ b \in Nat
  BY TxFacts DEF ManifestInv
<1>1. NotRunning \in Tools
  BY DEF NotRunning, Tools
<1>2. CASE tool' = NotRunning /\ result' \in {"no key", "aborted"}
  BY <1>1, <1>2, Zenon DEF ToolMoves, NotRunning, Busy
<1>3. ASSUME NEW n \in Int, tool' = [NotRunning EXCEPT !.at = "estimate", !.b = b, !.i = 1, !.base = n],
             result' = "running"
      PROVE  /\ ToolMoves /\ tool' \in Tools /\ result' # "done"
             /\ tool'.at \in {"none", "estimate"} /\ tool'.executed = <<>>
  <2>2. /\ tool' \in Tools
        /\ tool'.at = "estimate" /\ tool'.b = b /\ tool'.i = 1 /\ tool'.executed = <<>>
    BY <1>0, <1>1, <1>3, Zenon DEF NotRunning, Busy, Tools
  <2>3. <<b, 1>> \in Txs /\ (~world.cancelled => AppliedBefore(<<b, 1>>))
    BY FirstInBundle DEF AppliedUpTo, AppliedBefore
  <2>4. QED
    BY <1>3, <2>2, <2>3 DEF ToolMoves, Busy
<1>4. \/ tool' = NotRunning /\ result' \in {"no key", "aborted"}
      \/ \E n \in Int : /\ tool' = [NotRunning EXCEPT !.at = "estimate", !.b = b, !.i = 1, !.base = n]
                         /\ result' = "running"
  <2> DEFINE s == Bundles[b].target
  <2>1. nonce[s] \in Int /\ \A m \in Waiting(s) : m + 1 \in Int
    <3>1. nonce[s] \in Nat /\ mempool[s] \in SUBSET [tx : Txs, nonce : Int]
      BY <1>0, TxFacts, Zenon DEF TypeOK
    <3>2. QED
      BY <3>1 DEF Waiting
  <2>2. CASE Fail("no key") \/ Fail("aborted")
    BY <2>2, Zenon DEF Fail
  <2>3. CASE \E n \in {nonce[s]} \union {m + 1 : m \in Waiting(s)} :
                /\ tool' = [NotRunning EXCEPT !.at = "estimate", !.b = b, !.i = 1, !.base = n]
                /\ result' = "running"
    BY <2>1, <2>3, Zenon
  <2>4. QED
    BY <2>2, <2>3, Zenon DEF OpenBundle
<1>5. QED
  BY <1>2, <1>3, <1>4, Zenon DEF NotRunning

\* A signer's mempool gets a transaction, or the tool stops.
LEMMA SendMoves ==
    ASSUME ManifestInv, Send
    PROVE  /\ MempoolMoves
           /\ mempool' \in [Targets -> SUBSET [tx : Txs, nonce : Int]]
<1> DEFINE e == Sent
           E == [tx : Txs, nonce : Int]
           d == {p \in mempool[Signer] : p.nonce = NextNonce}
<1>0. TypeOK /\ ToolOK /\ tool.at \in Busy
  BY DEF ManifestInv, Send, Busy
<1>1. tx \in Txs /\ (~world.cancelled => AppliedBefore(tx))
  BY <1>0 DEF ToolOK
<1>2. NextNonce \in Int
  BY <1>0 DEF TypeOK, Tools, NextNonce
<1>3. e \in E /\ e.tx = tx
  BY <1>1, <1>2 DEF Sent
<1>4. mempool \in [Targets -> SUBSET E]
  BY <1>0, Zenon DEF TypeOK
<1>5. Signer \in Targets
  BY <1>1, TxFacts DEF Signer, tx
<1>6. \/ mempool' = [mempool EXCEPT ![Signer] = (@ \ d) \union {e}]
      \/ mempool' = mempool
  BY Zenon DEF Send
<1> HIDE DEF d, e, E
<1>7. mempool' \in [Targets -> SUBSET E]
  BY <1>3, <1>4, <1>5, <1>6
<1>8. ASSUME NEW s \in Targets, NEW p \in mempool'[s]
      PROVE  (~world.cancelled => AppliedBefore(p.tx)) \/ p \in mempool[s]
  <2>1. p = e \/ p \in mempool[s]
    BY <1>4, <1>5, <1>6, <1>8
  <2>2. QED
    BY <1>1, <1>3, <2>1
<1>9. MempoolMoves
  BY <1>8 DEF MempoolMoves
<1>10. QED
  BY <1>7, <1>9, Zenon DEF E

\* A signer's mempool loses a transaction.
LEMMA DropMoves ==
    ASSUME ManifestInv, NEW s \in Targets, Drop(s)
    PROVE  /\ MempoolMoves
           /\ mempool' \in [Targets -> SUBSET [tx : Txs, nonce : Int]]
<1> DEFINE E == [tx : Txs, nonce : Int]
<1>1. mempool \in [Targets -> SUBSET E]
  BY Zenon DEF ManifestInv, TypeOK
<1>2. PICK p \in mempool[s] : mempool' = [mempool EXCEPT ![s] = @ \ {p}]
  BY Zenon DEF Drop
<1> HIDE DEF E
<1>3. mempool' \in [Targets -> SUBSET E] /\ \A z \in Targets : mempool'[z] \subseteq mempool[z]
  BY <1>1, <1>2
<1>4. QED
  BY <1>3, Zenon DEF MempoolMoves, E

\* What the answer of L1 to a transaction that it refuses says.
LEMMA Answers ==
    ASSUME NEW kind \in Kinds
    PROVE  /\ kind = "create2" => Answer(kind) = IF world.code THEN "Collision" ELSE "ok"
           /\ kind = "setup" => Answer(kind) = IF ~world.code THEN "NoContract"
                                               ELSE IF world.set THEN "AddressAlreadySet" ELSE "ok"
           /\ kind = "schedule" => Answer(kind) = IF world.op = "unset" THEN "ok" ELSE "OperationExists"
           /\ kind = "execute" => Answer(kind) = IF world.op = "pending" THEN "ok" ELSE "OperationMustBePending"
           /\ kind = "call" => Answer(kind) = "ok"
<1>1. CASE kind = "create2"
  BY <1>1 DEF Answer
<1>2. CASE kind = "setup"
  BY <1>2 DEF Answer
<1>3. CASE kind = "schedule"
  BY <1>3 DEF Answer
<1>4. CASE kind = "execute"
  BY <1>4 DEF Answer
<1>5. CASE kind = "call"
  BY <1>5 DEF Answer
<1>6. QED
  BY <1>1, <1>2, <1>3, <1>4, <1>5 DEF Kinds

\* A transaction is skipped only when it was applied.
LEMMA SkippedIsApplied ==
    ASSUME ManifestInv, ~world.cancelled, tool.at \in Busy, Answer(Kind(tx)) # "ok", Skips(Kind(tx))
    PROVE  Applied(tx)
<1>0. TypeOK /\ WorldOK /\ ToolOK /\ tx \in Txs /\ AppliedBefore(tx) /\ Kind(tx) \in Kinds
  BY TxFacts DEF ManifestInv, ToolOK
<1>1. /\ Kind(tx) = "create2" /\ world.code => Applied(tx)
      /\ Kind(tx) = "setup" /\ world.set => Applied(tx)
      /\ Kind(tx) = "schedule" /\ world.op # "unset" => Applied(tx)
      /\ Kind(tx) = "execute" /\ world.op = "done" => Applied(tx)
  BY <1>0 DEF WorldOK
<1>2. CASE Kind(tx) = "create2"
  BY <1>0, <1>1, <1>2, Answers
<1>3. CASE Kind(tx) = "setup"
  <2>1. Answer(Kind(tx)) \in {"AddressAlreadySet", "OperationExists", "OperationMustBePending"}
    BY <1>3 DEF Skips, should_skip_idempotent, known_idempotent, GovernanceErrors
  <2>2. world.set
    BY <1>0, <1>3, <2>1, Answers
  <2>3. QED
    BY <1>1, <1>3, <2>2
<1>4. CASE Kind(tx) = "schedule"
  BY <1>0, <1>1, <1>4, Answers
<1>5. CASE Kind(tx) = "execute"
  <2>1. world.op # "pending"
    BY <1>0, <1>5, Answers
  <2>2. PICK t \in Txs : Kind(t) = "schedule" /\ Before(t, tx)
    BY <1>0, <1>5, ManifestAssumption
  <2>3. Applied(t)
    BY <1>0, <2>2 DEF AppliedBefore
  <2>4. world.op # "unset"
    BY <1>0, <2>2, <2>3 DEF WorldOK
  <2>5. world.op = "done"
    BY <1>0, <2>1, <2>4 DEF TypeOK
  <2>6. QED
    BY <1>1, <1>5, <2>5
<1>6. CASE Kind(tx) = "call"
  BY <1>0, <1>6, Answers
<1>7. QED
  BY <1>0, <1>2, <1>3, <1>4, <1>5, <1>6 DEF Kinds

\* The tool, the signers and the owner keep the invariant when nothing is mined.
LEMMA QuietSteps ==
    ASSUME ManifestInv,
           \/ Start \/ Estimate \/ Send \/ Receipt \/ Truncate \/ Persist \/ AppendHashes \/ Kill \/ Cancel
           \/ \E s \in Targets : Drop(s)
    PROVE  ManifestInv'
<1>0. TypeOK /\ WorldOK /\ MempoolOK /\ ToolOK /\ InOrder /\ DoneOK
  BY DEF ManifestInv
<1>n. NotRunning \in Tools /\ NotRunning.at = "none"
  BY DEF NotRunning, Tools
<1>t. ASSUME tool' \in Tools, UNCHANGED <<world, mined, nonce, mempool>>, log' \in Seq(Nat), hashes' \in Seq(Nat)
      PROVE  TypeOK' /\ Quiet /\ MempoolMoves
  BY <1>0, <1>t, MempoolStays, Zenon DEF TypeOK, Quiet
<1>l. log \in Seq(Nat) /\ hashes \in Seq(Nat)
  BY <1>0 DEF TypeOK
<1>f. ASSUME tool' = NotRunning PROVE ToolMoves /\ tool' \in Tools
  BY <1>f, <1>n DEF ToolMoves, Busy
<1>d. result' = result => (~world.cancelled /\ result' = "done" => \A t \in Txs : Applied(t))
  BY <1>0 DEF DoneOK
<1>1. CASE Start
  <2>1. UNCHANGED <<world, mined, nonce, mempool, log, hashes>>
    BY <1>1, Zenon DEF Start
  <2>2. CASE OpenBundle(1)
    <3>1. 1 \in DOMAIN Bundles /\ AppliedUpTo(1 - 1)
      <4>1. \A u \in Txs : u[1] \in Nat /\ u[1] >= 1
        BY TxFacts
      <4>2. QED
        BY <4>1, TxFacts DEF AppliedUpTo
    <3>2. ToolMoves /\ tool' \in Tools /\ result' # "done"
      BY <2>2, <3>1, OpenBundleMoves
    <3>3. QED
      BY <1>l, <1>t, <2>1, <3>2, QuietStep
  <2>3. CASE Fail("refused")
    BY <1>l, <1>t, <1>f, <2>1, <2>3, QuietStep DEF Fail
  <2>4. QED
    BY <1>1, <2>2, <2>3, Zenon DEF Start
<1>2. CASE Estimate
  <2>1. UNCHANGED <<world, mined, nonce, mempool, log, hashes>> /\ tool.at = "estimate" /\ tool.at \in Busy
    BY <1>2 DEF Estimate, Busy
  <2>2. CASE tool' = [tool EXCEPT !.at = "send"] /\ UNCHANGED result
    <3>1. tool' \in Tools /\ tool'.at = "send" /\ tool'.b = tool.b /\ tool'.i = tool.i
      BY <1>0, <2>2, Zenon DEF TypeOK, Tools, Busy
    <3>2. ToolMoves
      BY <1>0, <2>1, <3>1 DEF ToolOK, ToolMoves, tx, Busy
    <3>3. QED
      BY <1>l, <1>t, <1>d, <2>1, <2>2, <3>1, <3>2, QuietStep
  <2>3. CASE /\ Answer(Kind(tx)) # "ok" /\ Skips(Kind(tx))
             /\ tool' = Advance([tool EXCEPT !.skipped = @ + 1]) /\ UNCHANGED result
    <3> DEFINE n == tool.skipped + 1
               t == [tool EXCEPT !.skipped = n]
    <3>0. n \in Nat /\ tool \in Tools
      BY <1>0 DEF TypeOK, Tools
    <3>3. tool' = Advance(t)
      BY <2>3
    <3> HIDE DEF n
    <3>1. t \in Tools /\ t.b = tool.b /\ t.i = tool.i
      BY <3>0 DEF Tools
    <3>2. ~world.cancelled => Applied(tx)
      BY <2>1, <2>3, SkippedIsApplied
    <3> HIDE DEF t
    <3>4. ToolMoves /\ tool' \in Tools
      BY <2>1, <3>1, <3>2, <3>3, AdvanceMoves
    <3>5. QED
      BY <1>l, <1>t, <1>d, <2>1, <2>3, <3>4, QuietStep
  <2>4. CASE Fail("aborted")
    BY <1>l, <1>t, <1>f, <2>1, <2>4, QuietStep DEF Fail
  <2>5. QED
    BY <1>2, <2>2, <2>3, <2>4 DEF Estimate
<1>3. CASE Send
  <2>1. UNCHANGED <<world, mined, nonce, log, hashes>> /\ tool.at \in Busy
    BY <1>3 DEF Send, Busy
  <2>2. MempoolMoves /\ mempool' \in [Targets -> SUBSET [tx : Txs, nonce : Int]]
    BY <1>3, SendMoves, Zenon
  <2>3. CASE tool' = [tool EXCEPT !.at = "await"] /\ UNCHANGED result
    <3>1. tool' \in Tools /\ tool'.at = "await" /\ tool'.b = tool.b /\ tool'.i = tool.i
      BY <1>0, <2>3, Zenon DEF TypeOK, Tools, Busy
    <3>2. ToolMoves
      BY <1>0, <2>1, <3>1 DEF ToolOK, ToolMoves, tx, Busy
    <3>3. TypeOK' /\ Quiet
      BY <1>0, <2>1, <2>2, <3>1, Zenon DEF TypeOK, Quiet
    <3>4. QED
      BY <1>d, <2>1, <2>2, <2>3, <3>2, <3>3, QuietStep
  <2>4. CASE Fail("aborted")
    <3>1. tool' = NotRunning /\ result' # "done"
      BY <2>4 DEF Fail
    <3>2. TypeOK' /\ Quiet
      BY <1>0, <1>f, <2>1, <2>2, <3>1, Zenon DEF TypeOK, Quiet
    <3>3. QED
      BY <1>f, <2>1, <2>2, <3>1, <3>2, QuietStep
  <2>5. QED
    BY <1>3, <2>3, <2>4, Zenon DEF Send
<1>4. CASE Receipt
  <2>1. UNCHANGED <<world, mined, nonce, mempool, log, hashes>> /\ tool.at \in {"receipt", "reverted"}
    BY <1>4 DEF Receipt
  <2>2. CASE /\ tool.at = "receipt"
             /\ tool' = Advance([tool EXCEPT !.executed = Append(@, tool.hash)]) /\ UNCHANGED result
    <3> DEFINE x == Append(tool.executed, tool.hash)
               t == [tool EXCEPT !.executed = x]
    <3>1. tool.executed \in Seq(Nat) /\ tool.hash \in Nat /\ tool \in Tools
      BY <1>0 DEF TypeOK, Tools
    <3>2. x \in Seq(Nat)
      BY <3>1
    <3>3. tool' = Advance(t)
      BY <2>2
    <3> HIDE DEF x
    <3>4. t \in Tools /\ t.b = tool.b /\ t.i = tool.i
      BY <3>1, <3>2, Zenon DEF Tools
    <3>5. (~world.cancelled => Applied(tx)) /\ tool.at \in Busy
      BY <1>0, <2>2 DEF ToolOK, Busy
    <3> HIDE DEF t
    <3>6. ToolMoves /\ tool' \in Tools
      BY <3>3, <3>4, <3>5, AdvanceMoves
    <3>7. QED
      BY <1>l, <1>t, <1>d, <2>1, <2>2, <3>6, QuietStep
  <2>3. CASE Fail("aborted")
    BY <1>l, <1>t, <1>f, <2>1, <2>3, QuietStep DEF Fail
  <2>4. QED
    BY <1>4, <2>2, <2>3 DEF Receipt
<1>w. CASE Truncate
  <2>1. /\ UNCHANGED <<world, mined, nonce, mempool, log, hashes, result>> /\ tool.at = "persist"
        /\ tool' = [tool EXCEPT !.at = "write"]
    BY <1>w DEF Truncate
  <2>2. tool' \in Tools /\ tool'.at = "write" /\ tool'.b = tool.b
    BY <1>0, <2>1, Zenon DEF TypeOK, Tools
  <2>3. ToolMoves
    BY <1>0, <2>1, <2>2 DEF ToolOK, ToolMoves, Busy
  <2>4. QED
    BY <1>l, <1>t, <1>d, <2>1, <2>2, <2>3, QuietStep
<1>5. CASE Persist
  <2>1. /\ UNCHANGED <<world, mined, nonce, mempool, hashes, result>> /\ tool.at = "write"
        /\ tool' = [tool EXCEPT !.at = "hashes"]
        /\ log' = IF mode = "manifest" THEN log ELSE log \o tool.executed
    BY <1>5 DEF Persist
  <2>2. tool' \in Tools /\ tool'.at = "hashes" /\ tool'.b = tool.b /\ tool.executed \in Seq(Nat)
    BY <1>0, <2>1, Zenon DEF TypeOK, Tools
  <2>3. log' \in Seq(Nat)
    BY <1>0, <2>1, <2>2 DEF TypeOK
  <2>4. ToolMoves
    BY <1>0, <2>1, <2>2 DEF ToolOK, ToolMoves, Busy
  <2>5. QED
    BY <1>l, <1>t, <1>d, <2>1, <2>2, <2>3, <2>4, QuietStep
<1>6. CASE AppendHashes
  <2>1. /\ UNCHANGED <<world, mined, nonce, mempool, log>> /\ tool.at = "hashes"
        /\ hashes' = IF mode = "manifest" THEN hashes ELSE hashes \o tool.executed
    BY <1>6 DEF AppendHashes
  <2>2. tool.executed \in Seq(Nat)
    BY <1>0 DEF TypeOK, Tools
  <2>3. hashes' \in Seq(Nat)
    BY <1>0, <2>1, <2>2 DEF TypeOK
  <2>4. tool.b \in DOMAIN Bundles /\ (~world.cancelled => AppliedUpTo(tool.b))
    BY <1>0, <2>1 DEF ToolOK
  <2>5. CASE tool.b < Len(Bundles) /\ OpenBundle(tool.b + 1)
    <3> DEFINE b == tool.b + 1
    <3>1. b \in DOMAIN Bundles /\ b - 1 = tool.b
      BY <2>4, <2>5, TxFacts
    <3>2. OpenBundle(b)
      BY <2>5
    <3> HIDE DEF b
    <3>3. ToolMoves /\ tool' \in Tools /\ result' # "done"
      BY <2>4, <3>1, <3>2, OpenBundleMoves
    <3>4. QED
      BY <1>l, <1>t, <2>1, <2>3, <3>3, QuietStep
  <2>6. CASE ~(tool.b < Len(Bundles)) /\ Fail("done")
    <3>1. tool.b = Len(Bundles)
      BY <2>4, <2>6, TxFacts
    <3>2. \A u \in Txs : u[1] <= tool.b
      BY <3>1, TxFacts
    <3>3. ~world.cancelled => \A u \in Txs : Applied(u)
      BY <2>4, <3>2 DEF AppliedUpTo
    <3>4. tool' = NotRunning
      BY <2>6 DEF Fail
    <3>5. QED
      BY <1>l, <1>t, <1>f, <2>1, <2>3, <3>3, <3>4, QuietStep
  <2>7. QED
    BY <1>6, <2>5, <2>6 DEF AppendHashes
<1>7. CASE Kill
  BY <1>l, <1>t, <1>f, <1>7, QuietStep DEF Kill, Fail
<1>8. CASE Cancel
  <2>1. UNCHANGED <<mined, nonce, mempool, tool, log, hashes, result>>
        /\ world' = [world EXCEPT !.op = "unset", !.cancelled = TRUE]
    BY <1>8 DEF Cancel
  <2>2. world' \in [code : BOOLEAN, set : BOOLEAN, op : {"unset", "pending", "done"}, cancelled : BOOLEAN]
        /\ world'.cancelled
    BY <1>0, <2>1, Zenon DEF TypeOK
  <2>3. TypeOK' /\ Quiet /\ MempoolMoves
    BY <1>0, <2>1, <2>2, MempoolStays, Zenon DEF TypeOK, Quiet
  <2>4. ToolMoves
    BY <1>0, <2>1 DEF ToolOK, ToolMoves, tx
  <2>5. QED
    BY <1>d, <2>1, <2>3, <2>4, QuietStep
<1>9. ASSUME NEW s \in Targets, Drop(s) PROVE ManifestInv'
  <2>1. UNCHANGED <<world, mined, nonce, tool, log, hashes, result>>
    BY <1>9 DEF Drop
  <2>2. MempoolMoves /\ mempool' \in [Targets -> SUBSET [tx : Txs, nonce : Int]]
    BY <1>9, DropMoves, Zenon
  <2>3. TypeOK' /\ Quiet
    BY <1>0, <2>1, <2>2, Zenon DEF TypeOK, Quiet
  <2>4. ToolMoves
    BY <1>0, <2>1 DEF ToolOK, ToolMoves, tx
  <2>5. QED
    BY <1>d, <2>1, <2>2, <2>3, <2>4, QuietStep
<1>10. QED
  BY <1>1, <1>2, <1>3, <1>4, <1>w, <1>5, <1>6, <1>7, <1>8, <1>9


(***************************************************************************)
(* Mining.                                                                 *)
(***************************************************************************)

\* The effect of a transaction that succeeds.
LEMMA Effects ==
    ASSUME NEW kind \in Kinds
    PROVE  /\ kind = "create2" => Effect(kind) = [world EXCEPT !.code = TRUE]
           /\ kind = "setup" => Effect(kind) = [world EXCEPT !.set = TRUE]
           /\ kind = "schedule" => Effect(kind) = [world EXCEPT !.op = "pending"]
           /\ kind = "execute" => Effect(kind) = [world EXCEPT !.op = "done"]
           /\ kind = "call" => Effect(kind) = world
<1>1. CASE kind = "create2"
  BY <1>1 DEF Effect
<1>2. CASE kind = "setup"
  BY <1>2 DEF Effect
<1>3. CASE kind = "schedule"
  BY <1>3 DEF Effect
<1>4. CASE kind = "execute"
  BY <1>4 DEF Effect
<1>5. CASE kind = "call"
  BY <1>5 DEF Effect
<1>6. QED
  BY <1>1, <1>2, <1>3, <1>4, <1>5 DEF Kinds

\* What was applied stays so, and what is mined successfully is.
LEMMA MinedIsApplied ==
    ASSUME TypeOK, NEW t \in Txs, NEW ok \in BOOLEAN, mined' = Append(mined, [tx |-> t, ok |-> ok])
    PROVE  /\ mined' \in Seq([tx : Txs, ok : BOOLEAN])
           /\ Len(mined) \in Nat /\ DOMAIN mined = 1 .. Len(mined) /\ DOMAIN mined' = 1 .. Len(mined) + 1
           /\ \A k \in DOMAIN mined : mined'[k] = mined[k]
           /\ mined'[Len(mined) + 1] = [tx |-> t, ok |-> ok]
           /\ \A u : Applied(u) => Applied(u)'
           /\ ok => Applied(t)'
           /\ \A u : Applied(u)' => Applied(u) \/ (u = t /\ ok)
<1> DEFINE E == [tx : Txs, ok : BOOLEAN]
           e == [tx |-> t, ok |-> ok]
<1>1. mined \in Seq(E) /\ e \in E /\ mined' = Append(mined, e) /\ e.tx = t /\ e.ok = ok
  BY DEF TypeOK
<1> HIDE DEF E, e
<1>2. /\ mined' \in Seq(E)
      /\ Len(mined) \in Nat /\ DOMAIN mined = 1 .. Len(mined) /\ DOMAIN mined' = 1 .. Len(mined) + 1
      /\ \A k \in DOMAIN mined : mined'[k] = mined[k]
      /\ mined'[Len(mined) + 1] = e
  BY <1>1
<1>3. /\ DOMAIN mined \subseteq DOMAIN mined' /\ Len(mined) + 1 \in DOMAIN mined'
      /\ \A k \in DOMAIN mined' : k \in DOMAIN mined \/ k = Len(mined) + 1
  BY <1>2
<1>4. \A u : Applied(u) => Applied(u)'
  BY <1>2, <1>3 DEF Applied
<1>5. ok => Applied(t)'
  BY <1>1, <1>2, <1>3 DEF Applied
<1>6. ASSUME NEW u, Applied(u)' PROVE Applied(u) \/ (u = t /\ ok)
  <2>1. PICK k \in DOMAIN mined' : mined'[k].tx = u /\ mined'[k].ok
    BY <1>6 DEF Applied
  <2>2. QED
    BY <1>1, <1>2, <1>3, <2>1 DEF Applied
<1>7. QED
  BY <1>2, <1>4, <1>5, <1>6 DEF E, e

\* The world after a transaction.
LEMMA MinedWorld ==
    ASSUME TypeOK, WorldOK, NEW t \in Txs, NEW ok \in BOOLEAN, ok <=> Answer(Kind(t)) = "ok",
           mined' = Append(mined, [tx |-> t, ok |-> ok]),
           world' = IF ok THEN Effect(Kind(t)) ELSE world
    PROVE  /\ world' \in [code : BOOLEAN, set : BOOLEAN, op : {"unset", "pending", "done"}, cancelled : BOOLEAN]
           /\ world'.cancelled = world.cancelled
           /\ WorldOK'
<1> DEFINE W == [code : BOOLEAN, set : BOOLEAN, op : {"unset", "pending", "done"}, cancelled : BOOLEAN]
<1>0. world \in W /\ Kind(t) \in Kinds
  BY TxFacts DEF TypeOK
<1>1. /\ \A u : Applied(u) => Applied(u)'
      /\ ok => Applied(t)'
      /\ \A u : Applied(u)' => Applied(u) \/ (u = t /\ ok)
  BY MinedIsApplied
<1>2. CASE ~ok
  <2>1. world' = world /\ \A u : Applied(u)' <=> Applied(u)
    BY <1>1, <1>2
  <2>2. QED
    BY <1>0, <2>1 DEF WorldOK
<1>u. \A u \in Txs : Kind(u) = Kind(t) /\ Kind(t) # "call" => u = t
  BY ManifestAssumption
<1>3. CASE ok /\ Kind(t) = "create2"
  <2>1. world' = [world EXCEPT !.code = TRUE]
    BY <1>0, <1>3, Effects
  <2>2. world' \in W /\ world'.set = world.set /\ world'.op = world.op /\ world'.cancelled = world.cancelled
    BY <1>0, <2>1, Zenon
  <2>3. \A u \in Txs : Kind(u) = "create2" => Applied(u)'
    BY <1>1, <1>3, <1>u
  <2>4. \A u \in Txs : Kind(u) = "schedule" => (Applied(u)' <=> Applied(u))
    BY <1>1, <1>3
  <2>5. QED
    BY <1>1, <2>2, <2>3, <2>4 DEF WorldOK
<1>4. CASE ok /\ Kind(t) = "setup"
  <2>1. world' = [world EXCEPT !.set = TRUE]
    BY <1>0, <1>4, Effects
  <2>2. world' \in W /\ world'.code = world.code /\ world'.op = world.op /\ world'.cancelled = world.cancelled
    BY <1>0, <2>1, Zenon
  <2>3. \A u \in Txs : Kind(u) = "setup" => Applied(u)'
    BY <1>1, <1>4, <1>u
  <2>4. \A u \in Txs : Kind(u) = "schedule" => (Applied(u)' <=> Applied(u))
    BY <1>1, <1>4
  <2>5. QED
    BY <1>1, <2>2, <2>3, <2>4 DEF WorldOK
<1>5. CASE ok /\ Kind(t) = "schedule"
  <2>1. world' = [world EXCEPT !.op = "pending"]
    BY <1>0, <1>5, Effects
  <2>2. /\ world' \in W /\ world'.code = world.code /\ world'.set = world.set /\ world'.op = "pending"
        /\ world'.cancelled = world.cancelled
    BY <1>0, <2>1
  <2>3. \A u \in Txs : Kind(u) = "schedule" => Applied(u)'
    BY <1>1, <1>5, <1>u
  <2>4. QED
    BY <1>1, <2>2, <2>3 DEF WorldOK
<1>6. CASE ok /\ Kind(t) = "execute"
  <2>1. world' = [world EXCEPT !.op = "done"] /\ world.op = "pending"
    BY <1>0, <1>6, Effects, Answers
  <2>2. /\ world' \in W /\ world'.code = world.code /\ world'.set = world.set /\ world'.op = "done"
        /\ world'.cancelled = world.cancelled
    BY <1>0, <2>1
  <2>3. \A u \in Txs : Kind(u) = "execute" => Applied(u)'
    BY <1>1, <1>6, <1>u
  <2>4. ~world.cancelled => \A u \in Txs : Kind(u) = "schedule" => Applied(u)'
    BY <1>1, <2>1 DEF WorldOK
  <2>5. QED
    BY <1>1, <2>2, <2>3, <2>4 DEF WorldOK
<1>7. CASE ok /\ Kind(t) = "call"
  <2>1. world' = world
    BY <1>0, <1>7, Effects
  <2>2. \A u \in Txs : Kind(u) = "schedule" => (Applied(u)' <=> Applied(u))
    BY <1>1, <1>7
  <2>3. QED
    BY <1>0, <1>1, <2>1, <2>2 DEF WorldOK
<1>8. QED
  BY <1>0, <1>2, <1>3, <1>4, <1>5, <1>6, <1>7 DEF Kinds


\* A mined transaction comes after all before it.
LEMMA MineStep ==
    ASSUME ManifestInv, NEW s \in Targets, Mine(s)
    PROVE  ManifestInv'
<1> DEFINE E == [tx : Txs, nonce : Int]
<1>0. TypeOK /\ WorldOK /\ MempoolOK /\ ToolOK /\ InOrder /\ DoneOK
  BY DEF ManifestInv
<1>1. PICK p \in mempool[s] :
        /\ nonce' = [nonce EXCEPT ![s] = @ + 1]
        /\ mempool' = [mempool EXCEPT ![s] = @ \ {p}]
        /\ log' = log /\ hashes' = hashes /\ result' = result
        /\ mined' = Append(mined, [tx |-> p.tx, ok |-> Answer(Kind(p.tx)) = "ok"])
        /\ world' = IF Answer(Kind(p.tx)) = "ok" THEN Effect(Kind(p.tx)) ELSE world
        /\ tool' = IF tool.at = "await" /\ Signer = s /\ Sent = p
                   THEN [tool EXCEPT !.at = IF Answer(Kind(p.tx)) = "ok" THEN "receipt" ELSE "reverted",
                                     !.hash = Len(mined) + 1]
                   ELSE tool
  BY Zenon DEF Mine
<1>2. mempool \in [Targets -> SUBSET E]
  BY <1>0, Zenon DEF TypeOK
<1> HIDE DEF E
<1>3. p \in E
  BY <1>1, <1>2
<1>t. PICK t \in Txs : t = p.tx
  BY <1>3 DEF E
<1>o. PICK ok \in BOOLEAN : ok = (Answer(Kind(t)) = "ok")
  BY Zenon
<1>4. /\ mined' = Append(mined, [tx |-> t, ok |-> ok])
      /\ world' = IF ok THEN Effect(Kind(t)) ELSE world
      /\ tool' = IF tool.at = "await" /\ Signer = s /\ Sent = p
                 THEN [tool EXCEPT !.at = IF ok THEN "receipt" ELSE "reverted", !.hash = Len(mined) + 1]
                 ELSE tool
  BY <1>1, <1>t, <1>o, Zenon
<1>5. ~world.cancelled => AppliedBefore(t)
  BY <1>0, <1>1, <1>t DEF MempoolOK
<1>6. /\ mined' \in Seq([tx : Txs, ok : BOOLEAN])
      /\ Len(mined) \in Nat /\ DOMAIN mined = 1 .. Len(mined) /\ DOMAIN mined' = 1 .. Len(mined) + 1
      /\ \A k \in DOMAIN mined : mined'[k] = mined[k]
      /\ mined'[Len(mined) + 1] = [tx |-> t, ok |-> ok]
      /\ \A u : Applied(u) => Applied(u)'
      /\ ok => Applied(t)'
  BY <1>0, <1>4, MinedIsApplied, Zenon
<1>7. /\ world' \in [code : BOOLEAN, set : BOOLEAN, op : {"unset", "pending", "done"}, cancelled : BOOLEAN]
      /\ world'.cancelled = world.cancelled
      /\ WorldOK'
  <2>1. ok <=> Answer(Kind(t)) = "ok"
    BY <1>o, Zenon
  <2>2. QED
    BY <1>0, <1>4, <2>1, MinedWorld, Zenon
<1>8. mempool' \in [Targets -> SUBSET E] /\ nonce' \in [Targets -> Nat]
  BY <1>0, <1>1, <1>2, <1>3 DEF TypeOK
<1>9. /\ tool' \in Tools /\ tool'.b = tool.b /\ tool'.i = tool.i /\ tool'.executed = tool.executed
      /\ \/ tool'.at = tool.at
         \/ tool.at = "await" /\ tool'.at \in {"receipt", "reverted"} /\ (tool'.at = "receipt" => ok /\ tx = t)
  <2>1. tool \in Tools /\ Len(mined) + 1 \in Nat
    BY <1>0, <1>6 DEF TypeOK
  <2>2. CASE tool' = tool
    BY <2>1, <2>2
  <2>3. CASE /\ tool.at = "await" /\ Sent = p
             /\ tool' = [tool EXCEPT !.at = IF ok THEN "receipt" ELSE "reverted", !.hash = Len(mined) + 1]
    <3>1. tx = t
      BY <1>t, <2>3 DEF Sent
    <3> DEFINE n == Len(mined) + 1
               a == IF ok THEN "receipt" ELSE "reverted"
    <3>2. a \in {"receipt", "reverted"} /\ (a = "receipt" => ok) /\ n \in Nat
      BY <2>1
    <3>3. tool' = [tool EXCEPT !.at = a, !.hash = n]
      BY <2>3
    <3> HIDE DEF a, n
    <3>4. /\ tool' \in Tools /\ tool'.b = tool.b /\ tool'.i = tool.i /\ tool'.executed = tool.executed
          /\ tool'.at = a
      BY <2>1, <3>2, <3>3, Zenon DEF Tools, Busy
    <3>5. QED
      BY <2>3, <3>1, <3>2, <3>4
  <2>4. QED
    BY <1>4, <2>2, <2>3, Zenon
<1>10. TypeOK'
  BY <1>0, <1>1, <1>6, <1>7, <1>8, <1>9, Zenon DEF TypeOK, E
<1>11. \A u : AppliedBefore(u) => AppliedBefore(u)'
  BY <1>6 DEF AppliedBefore
<1>12. \A b : AppliedUpTo(b) => AppliedUpTo(b)'
  BY <1>6 DEF AppliedUpTo
<1>13. MempoolOK'
  <2> SUFFICES ASSUME ~world'.cancelled, NEW z \in Targets, NEW m \in mempool'[z]
               PROVE  AppliedBefore(m.tx)
    BY <1>11 DEF MempoolOK
  <2>1. m \in mempool[z]
    BY <1>1, <1>2
  <2>2. QED
    BY <1>0, <1>7, <2>1 DEF MempoolOK
<1>14. ToolOK'
  <2>1. tx' = tx
    BY <1>9 DEF tx
  <2>2. tool'.at \in Busy => tool.at \in Busy
    BY <1>9 DEF Busy
  <2>3. tool'.at \in {"persist", "write", "hashes"} => tool'.at = tool.at
    BY <1>9
  <2>4. tool'.at = "receipt" => tool'.at = tool.at \/ Applied(tx)'
    BY <1>6, <1>9, <2>1 DEF Applied
  <2>5. Applied(tx) => Applied(tx)'
    BY <1>6, <2>1 DEF Applied
  <2>6. AppliedBefore(tx) => AppliedBefore(tx)'
    BY <1>11, <2>1
  <2>7. AppliedUpTo(tool.b) => AppliedUpTo(tool.b)'
    BY <1>12, <1>9
  <2>8. QED
    BY <1>0, <1>7, <1>9, <2>1, <2>2, <2>3, <2>4, <2>5, <2>6, <2>7 DEF ToolOK
<1>15. InOrder'
  <2> SUFFICES ASSUME ~world.cancelled, NEW v \in Txs, NEW u \in Txs, Before(v, u),
                      NEW k \in DOMAIN mined', mined'[k].tx = u, mined'[k].ok
               PROVE  \E j \in DOMAIN mined' : mined'[j].tx = v /\ mined'[j].ok /\ j < k
    BY <1>7 DEF InOrder
  <2>1. CASE k \in DOMAIN mined
    <3>1. PICK j \in DOMAIN mined : mined[j].tx = v /\ mined[j].ok /\ j < k
      BY <1>0, <1>6, <2>1 DEF InOrder
    <3>2. QED
      BY <1>6, <3>1
  <2>2. CASE k = Len(mined) + 1
    <3>1. u = t
      BY <1>6, <2>2
    <3>2. Applied(v)
      BY <1>5, <3>1 DEF AppliedBefore
    <3>3. PICK j \in DOMAIN mined : mined[j].tx = v /\ mined[j].ok
      BY <3>2 DEF Applied
    <3>4. QED
      BY <1>6, <2>2, <3>3
  <2>3. QED
    BY <1>6, <2>1, <2>2
<1>16. DoneOK'
  BY <1>0, <1>1, <1>6, <1>7 DEF DoneOK
<1>17. QED
  BY <1>7, <1>10, <1>13, <1>14, <1>15, <1>16 DEF ManifestInv

\* The invariant holds initially.
LEMMA ManifestInit == Init => ManifestInv
<1> SUFFICES ASSUME Init PROVE ManifestInv
  OBVIOUS
<1>1. /\ world = [code |-> FALSE, set |-> FALSE, op |-> "unset", cancelled |-> FALSE]
      /\ mined = <<>> /\ nonce = [s \in Targets |-> 0] /\ mempool = [s \in Targets |-> {}]
      /\ tool = NotRunning /\ log = <<>> /\ hashes = <<>> /\ result = "none"
  BY DEF Init
<1>2. NotRunning \in Tools /\ NotRunning.at = "none"
  BY DEF NotRunning, Tools
<1>3. TypeOK
  BY <1>1, <1>2 DEF TypeOK
<1>4. \A u : ~Applied(u)
  BY <1>1 DEF Applied
<1>5. WorldOK
  BY <1>1, <1>4 DEF WorldOK
<1>6. MempoolOK
  BY <1>1 DEF MempoolOK
<1>7. ToolOK
  BY <1>1, <1>2 DEF ToolOK, Busy
<1>8. InOrder /\ DoneOK
  BY <1>1 DEF InOrder, DoneOK
<1>9. QED
  BY <1>3, <1>5, <1>6, <1>7, <1>8 DEF ManifestInv

\* Every step keeps the invariant.
LEMMA ManifestStep ==
    ASSUME ManifestInv, [Next]_vars
    PROVE  ManifestInv'
<1>1. CASE UNCHANGED vars
  <2>1. UNCHANGED <<world, mined, nonce, mempool, tool, log, hashes, result>>
    BY <1>1 DEF vars
  <2>2. TypeOK' /\ Quiet /\ MempoolMoves
    BY <2>1, MempoolStays, Zenon DEF ManifestInv, TypeOK, Quiet
  <2>3. ToolMoves
    BY <2>1 DEF ManifestInv, ToolOK, ToolMoves, tx
  <2>4. ~world.cancelled /\ result' = "done" => \A t \in Txs : Applied(t)
    BY <2>1 DEF ManifestInv, DoneOK
  <2>5. QED
    BY <2>2, <2>3, <2>4, QuietStep
<1>2. CASE Next
  BY <1>2, QuietSteps, MineStep DEF Next
<1>3. QED
  BY <1>1, <1>2

\* The invariant says what ManifestApplied says.
LEMMA InvManifest == ManifestInv => ManifestApplied
<1> SUFFICES ASSUME ManifestInv PROVE ManifestApplied
  OBVIOUS
<1>0. InOrder /\ DoneOK
  BY DEF ManifestInv
<1>1. \A t \in Txs : \A k : k \in Successes(t) <=> k \in DOMAIN mined /\ mined[k].tx = t /\ mined[k].ok
  BY DEF Successes
<1>2. ASSUME ~world.cancelled, NEW t \in Txs, NEW u \in Txs, Before(t, u), NEW k \in Successes(u)
      PROVE  \E j \in Successes(t) : j < k
  BY <1>0, <1>1, <1>2 DEF InOrder
<1>3. ASSUME ~world.cancelled, result = "done", NEW t \in Txs PROVE Successes(t) # {}
  BY <1>0, <1>1, <1>3 DEF DoneOK, Applied
<1>4. QED
  BY <1>2, <1>3 DEF ManifestApplied

\* Whatever kills and repeats the replay, and in whatever order the mempool is
\* mined: a transaction takes effect only after all that precede it in the manifest,
\* and a replay that reports success has applied every one.
THEOREM ManifestIsApplied == Spec => []ManifestApplied
<1>1. ManifestInv /\ [Next]_vars => ManifestInv'
  BY ManifestStep
<1>2. QED
  BY <1>1, ManifestInit, InvManifest, PTL DEF Spec


(***************************************************************************)
(* The files.                                                              *)
(***************************************************************************)

\* Successful transactions of L1, once each and in the order of L1.
Clean(l) ==
    /\ \A k \in DOMAIN l : l[k] \in DOMAIN mined /\ mined[l[k]].ok
    /\ \A j, k \in DOMAIN l : j < k => l[j] < l[k]

\* What the run has executed, to be logged with the bundle, follows the log; once
\* logged, its hashes may be appended.
LogInv ==
    /\ Clean(log)
    /\ Clean(tool.executed)
    /\ tool.at \in Busy \cup {"persist", "write"} =>
          \A j \in DOMAIN log, k \in DOMAIN tool.executed : log[j] < tool.executed[k]
    /\ tool.at = "receipt" =>
          /\ tool.hash \in DOMAIN mined /\ mined[tool.hash].ok
          /\ \A j \in DOMAIN log : log[j] < tool.hash
          /\ \A k \in DOMAIN tool.executed : tool.executed[k] < tool.hash
    /\ tool.at = "hashes" => mode = "manifest" \/ Range(tool.executed) \subseteq Range(log)
    /\ Range(hashes) \subseteq Range(log)

\* A bundle starts with nothing executed.
LEMMA OpensEmpty ==
    ASSUME NEW b, OpenBundle(b) \/ Fail("done")
    PROVE  tool'.executed = <<>> /\ tool'.at # "receipt"
<1>1. \/ tool' = NotRunning
      \/ \E n : tool' = [NotRunning EXCEPT !.at = "estimate", !.b = b, !.i = 1, !.base = n]
  BY Zenon DEF OpenBundle, Fail
<1>2. /\ NotRunning.executed = <<>> /\ NotRunning.at = "none"
      /\ \A n, t : t = [NotRunning EXCEPT !.at = "estimate", !.b = b, !.i = 1, !.base = n] =>
            t.executed = <<>> /\ t.at = "estimate"
  BY Zenon DEF NotRunning
<1>3. QED
  BY <1>1, <1>2, Zenon

\* The tool stops, starts a bundle or moves on without a new receipt.
LEMMA SameFiles ==
    ASSUME LogInv, UNCHANGED <<mode, mined, log, hashes>>,
           \/ tool'.executed = <<>> /\ tool'.at # "receipt"
           \/ /\ tool'.executed = tool.executed
              /\ tool'.at = tool.at /\ tool'.hash = tool.hash
           \/ /\ tool'.executed = tool.executed
              /\ tool.at \in Busy \cup {"persist"}
              /\ tool'.at \in {"estimate", "send", "await", "persist", "write"}
    PROVE  LogInv'
<1>1. Clean(log)' /\ (tool'.executed = tool.executed => Clean(tool.executed)')
  BY DEF LogInv, Clean
<1>2. CASE tool'.executed = <<>> /\ tool'.at # "receipt"
  <2>1. Clean(tool.executed)' /\ Range(tool'.executed) = {} /\ DOMAIN tool'.executed = {}
    BY <1>2 DEF Clean, Range
  <2>2. QED
    BY <1>1, <1>2, <2>1 DEF LogInv
<1>3. CASE /\ tool'.executed = tool.executed
           /\ tool'.at = tool.at /\ tool'.hash = tool.hash
  BY <1>1, <1>3 DEF LogInv
<1>4. CASE /\ tool'.executed = tool.executed
           /\ tool.at \in Busy \cup {"persist"}
           /\ tool'.at \in {"estimate", "send", "await", "persist", "write"}
  BY <1>1, <1>4 DEF LogInv
<1>5. QED
  BY <1>2, <1>3, <1>4

\* What is mined comes after all that is in the files.
LEMMA MineFiles ==
    ASSUME TypeOK, LogInv, NEW s \in Targets, Mine(s)
    PROVE  LogInv'
<1>p. PICK p \in mempool[s] :
        /\ mined' = Append(mined, [tx |-> p.tx, ok |-> Answer(Kind(p.tx)) = "ok"])
        /\ tool' = IF tool.at = "await" /\ Signer = s /\ Sent = p
                   THEN [tool EXCEPT !.at = IF Answer(Kind(p.tx)) = "ok" THEN "receipt" ELSE "reverted",
                                     !.hash = Len(mined) + 1]
                   ELSE tool
        /\ UNCHANGED <<mode, log, hashes>>
  BY Zenon DEF Mine
<1> DEFINE ok == Answer(Kind(p.tx)) = "ok"
           e == [tx |-> p.tx, ok |-> ok]
           n == Len(mined) + 1
<1>1. /\ mined' = Append(mined, e) /\ e.ok = ok
      /\ tool' = IF tool.at = "await" /\ Signer = s /\ Sent = p
                 THEN [tool EXCEPT !.at = IF ok THEN "receipt" ELSE "reverted", !.hash = n]
                 ELSE tool
      /\ UNCHANGED <<mode, log, hashes>>
  BY <1>p
<1> HIDE DEF e, ok
<1>2. /\ n \in Nat /\ DOMAIN mined = 1 .. n - 1 /\ DOMAIN mined' = 1 .. n
      /\ mined'[n] = e /\ \A k \in DOMAIN mined : mined'[k] = mined[k] /\ k < n /\ k \in DOMAIN mined'
  <2> DEFINE E == [tx : Txs, ok : BOOLEAN]
  <2>1. mined \in Seq(E)
    BY DEF TypeOK
  <2> HIDE DEF E
  <2>2. QED
    BY <1>1, <2>1
<1> HIDE DEF n
<1>3. \A l : Clean(l) => /\ \A k \in DOMAIN l : l[k] \in DOMAIN mined' /\ mined'[l[k]].ok /\ l[k] < n
                         /\ \A j, k \in DOMAIN l : j < k => l[j] < l[k]
  BY <1>2 DEF Clean
<1>4. /\ tool'.executed = tool.executed
      /\ \/ tool' = tool
         \/ /\ tool.at = "await" /\ tool'.at \in {"receipt", "reverted"} /\ tool'.hash = n
            /\ tool'.at = "receipt" => ok
  <2>1. tool \in Tools
    BY DEF TypeOK
  <2>2. QED
    BY <1>1, <2>1 DEF Tools
<1>5. Clean(log)' /\ Clean(tool.executed)'
  BY <1>1, <1>3, <1>4 DEF LogInv, Clean
<1>6. CASE tool' = tool
  <2>1. tool.at = "receipt" => tool.hash \in DOMAIN mined' /\ mined'[tool.hash].ok
    BY <1>2 DEF LogInv
  <2>2. QED
    BY <1>1, <1>5, <1>6, <2>1, Zenon DEF LogInv
<1>7. CASE /\ tool.at = "await" /\ tool'.at \in {"receipt", "reverted"} /\ tool'.hash = n
           /\ tool'.at = "receipt" => ok
  <2>1. \A j \in DOMAIN log', k \in DOMAIN tool'.executed : log'[j] < tool'.executed[k]
    BY <1>1, <1>4, <1>7 DEF LogInv, Busy
  <2>2. tool'.at = "receipt" => n \in DOMAIN mined' /\ mined'[n].ok
    BY <1>1, <1>2, <1>7
  <2>3. \A j \in DOMAIN log : log[j] < n
    BY <1>3 DEF LogInv
  <2>4. \A k \in DOMAIN tool.executed : tool.executed[k] < n
    BY <1>3 DEF LogInv
  <2>5. QED
    BY <1>1, <1>4, <1>5, <1>7, <2>1, <2>2, <2>3, <2>4 DEF LogInv
<1>8. QED
  BY <1>4, <1>6, <1>7

\* A receipt is the last of what the run has executed.
LEMMA ReceiptFiles ==
    ASSUME TypeOK, LogInv, tool.at = "receipt", UNCHANGED <<mode, mined, log, hashes>>,
           tool'.executed = Append(tool.executed, tool.hash), tool'.at \in {"estimate", "persist"}
    PROVE  LogInv'
<1> DEFINE x == tool.executed
           h == tool.hash
           y == Append(x, h)
<1>1. x \in Seq(Nat) /\ h \in Nat
  BY DEF TypeOK, Tools
<1>2. /\ h \in DOMAIN mined /\ mined[h].ok
      /\ \A j \in DOMAIN log : log[j] < h
      /\ \A k \in DOMAIN x : x[k] < h
      /\ Clean(log) /\ Clean(x)
      /\ \A j \in DOMAIN log, k \in DOMAIN x : log[j] < x[k]
  BY DEF LogInv, Busy
<1>y. tool'.executed = y
  OBVIOUS
<1> HIDE DEF x, h
<1>3. /\ DOMAIN y = 1 .. Len(x) + 1 /\ DOMAIN x = 1 .. Len(x) /\ Len(x) \in Nat
      /\ y[Len(x) + 1] = h /\ \A k \in DOMAIN x : y[k] = x[k]
  BY <1>1
<1> HIDE DEF y
<1>4. \A k \in DOMAIN y : k \in DOMAIN x \/ k = Len(x) + 1
  BY <1>3
<1>5. \A k \in DOMAIN y : y[k] \in DOMAIN mined /\ mined[y[k]].ok /\ \A j \in DOMAIN log : log[j] < y[k]
  BY <1>2, <1>3, <1>4 DEF Clean
<1>6. ASSUME NEW j \in DOMAIN y, NEW k \in DOMAIN y, j < k PROVE y[j] < y[k]
  <2>1. j \in DOMAIN x
    BY <1>3, <1>6
  <2>2. CASE k \in DOMAIN x
    BY <1>2, <1>3, <1>6, <2>1, <2>2 DEF Clean
  <2>3. CASE k = Len(x) + 1
    BY <1>2, <1>3, <2>1, <2>3
  <2>4. QED
    BY <1>4, <2>2, <2>3
<1>7. Clean(tool.executed)' /\ Clean(log)'
  BY <1>2, <1>5, <1>6, <1>y DEF Clean
<1>8. QED
  BY <1>5, <1>7, <1>y DEF LogInv

\* A bundle is logged.
LEMMA PersistFiles ==
    ASSUME TypeOK, LogInv, Persist
    PROVE  LogInv'
<1> DEFINE x == tool.executed
           y == log \o x
<1>0. log \in Seq(Nat) /\ x \in Seq(Nat) /\ tool \in Tools
  BY DEF TypeOK, Tools
<1>1. /\ tool.at = "write" /\ tool' = [tool EXCEPT !.at = "hashes"]
      /\ log' = IF mode = "manifest" THEN log ELSE y
      /\ UNCHANGED <<mode, mined, hashes>>
  BY DEF Persist
<1>2. tool'.at = "hashes" /\ tool'.executed = x
  BY <1>0, <1>1 DEF Tools
<1>3. /\ Clean(log) /\ Clean(x) /\ Range(hashes) \subseteq Range(log)
      /\ \A j \in DOMAIN log, k \in DOMAIN x : log[j] < x[k]
  BY <1>1 DEF LogInv
<1>4. CASE mode = "manifest"
  <2>1. log' = log /\ mode' = "manifest"
    BY <1>1, <1>4
  <2>2. Clean(log)' /\ Clean(tool.executed)'
    BY <1>1, <1>2, <1>3, <2>1 DEF Clean
  <2>3. QED
    BY <1>1, <1>2, <1>3, <2>1, <2>2 DEF LogInv, Busy
<1>5. CASE mode # "manifest"
  <2> HIDE DEF x
  <2>1. /\ Len(log) \in Nat /\ Len(x) \in Nat /\ DOMAIN log = 1 .. Len(log) /\ DOMAIN x = 1 .. Len(x)
        /\ DOMAIN y = 1 .. Len(log) + Len(x)
        /\ \A k \in DOMAIN log : y[k] = log[k]
        /\ \A k \in DOMAIN y : k \notin DOMAIN log => y[k] = x[k - Len(log)]
    BY <1>0
  <2>2. log' = y
    BY <1>1, <1>5
  <2> HIDE DEF y
  <2>3. \A k \in DOMAIN y : k \in DOMAIN log \/ (k - Len(log) \in DOMAIN x /\ Len(log) < k)
    BY <2>1
  <2>4. \A k \in DOMAIN y : y[k] \in DOMAIN mined /\ mined[y[k]].ok
    BY <1>3, <2>1, <2>3 DEF Clean
  <2>5. ASSUME NEW j \in DOMAIN y, NEW k \in DOMAIN y, j < k PROVE y[j] < y[k]
    <3>1. CASE j \in DOMAIN log /\ k \in DOMAIN log
      BY <1>3, <2>1, <2>5, <3>1 DEF Clean
    <3>2. CASE j \in DOMAIN log /\ k \notin DOMAIN log
      BY <1>3, <2>1, <2>3, <3>2
    <3>3. CASE j \notin DOMAIN log /\ k \notin DOMAIN log
      <4>1. j - Len(log) \in DOMAIN x /\ k - Len(log) \in DOMAIN x
        BY <2>3, <3>3
      <4>2. j - Len(log) < k - Len(log)
        BY <2>1, <2>5
      <4>3. QED
        BY <1>3, <2>1, <3>3, <4>1, <4>2 DEF Clean
    <3>4. j \notin DOMAIN log => k \notin DOMAIN log
      BY <2>1, <2>5
    <3>5. QED
      BY <3>1, <3>2, <3>3, <3>4
  <2>6. Clean(log)' /\ Clean(tool.executed)'
    BY <1>1, <1>2, <1>3, <2>2, <2>4, <2>5 DEF Clean
  <2>7. \A k \in DOMAIN x : k + Len(log) \in DOMAIN y /\ y[k + Len(log)] = x[k]
    <3> SUFFICES ASSUME NEW k \in DOMAIN x PROVE k + Len(log) \in DOMAIN y /\ y[k + Len(log)] = x[k]
      OBVIOUS
    <3>1. k + Len(log) \in DOMAIN y /\ k + Len(log) \notin DOMAIN log /\ k + Len(log) - Len(log) = k
      BY <2>1
    <3>2. QED
      BY <2>1, <3>1
  <2>8. Range(x) \subseteq Range(y)
    BY <2>7 DEF Range
  <2>9. Range(log) \subseteq Range(y)
    <3>1. \A k \in DOMAIN log : k \in DOMAIN y /\ y[k] = log[k]
      BY <2>1
    <3>2. QED
      BY <3>1 DEF Range
  <2>10. QED
    BY <1>1, <1>2, <1>3, <2>2, <2>6, <2>8, <2>9 DEF LogInv, Busy
<1>6. QED
  BY <1>4, <1>5

\* The hashes of a bundle are appended after it was logged.
LEMMA HashesOfLog ==
    ASSUME TypeOK, LogInv, AppendHashes
    PROVE  Range(hashes') \subseteq Range(log')
<1> DEFINE x == tool.executed
           y == hashes \o x
<1>0. hashes \in Seq(Nat) /\ x \in Seq(Nat)
  BY DEF TypeOK, Tools
<1>1. tool.at = "hashes" /\ log' = log /\ hashes' = IF mode = "manifest" THEN hashes ELSE y
  BY DEF AppendHashes
<1>2. Range(hashes) \subseteq Range(log) /\ (mode # "manifest" => Range(x) \subseteq Range(log))
  BY <1>1 DEF LogInv
<1> HIDE DEF x
<1>3. \A k \in DOMAIN y : y[k] \in Range(hashes) \cup Range(x)
  <2> SUFFICES ASSUME NEW k \in DOMAIN y PROVE y[k] \in Range(hashes) \cup Range(x)
    OBVIOUS
  <2>1. \/ k \in DOMAIN hashes /\ y[k] = hashes[k]
        \/ k - Len(hashes) \in DOMAIN x /\ y[k] = x[k - Len(hashes)]
    BY <1>0
  <2>2. QED
    BY <2>1 DEF Range
<1> HIDE DEF y
<1>4. Range(y) \subseteq Range(hashes) \cup Range(x)
  BY <1>3 DEF Range
<1>5. QED
  BY <1>1, <1>2, <1>4

\* Every step keeps the files clean.
LEMMA LogStep ==
    ASSUME ManifestInv, LogInv, [Next]_vars
    PROVE  LogInv'
<1>0. TypeOK /\ tool \in Tools
  BY Zenon DEF ManifestInv, TypeOK
<1>n. NotRunning.executed = <<>> /\ NotRunning.at = "none"
  BY DEF NotRunning
<1>1. CASE UNCHANGED vars
  BY <1>1, SameFiles DEF vars
<1>2. CASE Start
  <2>1. UNCHANGED <<mode, mined, log, hashes>>
    BY <1>2, Zenon DEF Start
  <2>2. CASE OpenBundle(1)
    <3>1. tool'.executed = <<>> /\ tool'.at # "receipt"
      BY <2>2, OpensEmpty
    <3>2. QED
      BY <2>1, <3>1, SameFiles
  <2>3. CASE Fail("refused")
    BY <1>n, <2>1, <2>3, SameFiles DEF Fail
  <2>4. QED
    BY <1>2, <2>2, <2>3, Zenon DEF Start
<1>3. CASE Estimate
  <2>1. UNCHANGED <<mode, mined, log, hashes>> /\ tool.at \in Busy
    BY <1>3 DEF Estimate, Busy
  <2>2. CASE tool' = [tool EXCEPT !.at = "send"]
    <3>1. tool'.executed = tool.executed /\ tool'.at = "send"
      BY <1>0, <2>2 DEF Tools
    <3>2. QED
      BY <2>1, <3>1, SameFiles
  <2>3. CASE tool' = Advance([tool EXCEPT !.skipped = @ + 1])
    <3> DEFINE n == tool.skipped + 1
               t == [tool EXCEPT !.skipped = n]
    <3>0. n \in Nat
      BY <1>0 DEF Tools
    <3>2. tool' = Advance(t)
      BY <2>3
    <3> HIDE DEF n
    <3>1. t \in Tools /\ t.executed = tool.executed
      BY <1>0, <3>0 DEF Tools
    <3> HIDE DEF t
    <3>3. tool'.executed = t.executed /\ tool'.at \in {"estimate", "persist"}
      BY <3>1, <3>2 DEF Advance, Tools
    <3>4. QED
      BY <2>1, <3>1, <3>3, SameFiles
  <2>4. CASE Fail("aborted")
    BY <1>n, <2>1, <2>4, SameFiles DEF Fail
  <2>5. QED
    BY <1>3, <2>2, <2>3, <2>4 DEF Estimate
<1>4. CASE Send
  <2>1. UNCHANGED <<mode, mined, log, hashes>> /\ tool.at \in Busy
    BY <1>4 DEF Send, Busy
  <2>2. CASE tool' = [tool EXCEPT !.at = "await"]
    <3>1. tool'.executed = tool.executed /\ tool'.at = "await"
      BY <1>0, <2>2 DEF Tools
    <3>2. QED
      BY <2>1, <3>1, SameFiles
  <2>3. CASE Fail("aborted")
    BY <1>n, <2>1, <2>3, SameFiles DEF Fail
  <2>4. QED
    BY <1>4, <2>2, <2>3, Zenon DEF Send
<1>5. CASE Receipt
  <2>1. UNCHANGED <<mode, mined, log, hashes>>
    BY <1>5 DEF Receipt
  <2>2. CASE tool.at = "receipt" /\ tool' = Advance([tool EXCEPT !.executed = Append(@, tool.hash)])
    <3> DEFINE x == Append(tool.executed, tool.hash)
               t == [tool EXCEPT !.executed = x]
    <3>1. tool.executed \in Seq(Nat) /\ tool.hash \in Nat
      BY <1>0 DEF Tools
    <3>2. x \in Seq(Nat)
      BY <3>1
    <3>3. tool' = Advance(t)
      BY <2>2
    <3> HIDE DEF x
    <3>4. t \in Tools /\ t.executed = x
      BY <1>0, <3>2, Zenon DEF Tools
    <3> HIDE DEF t
    <3>5. tool'.executed = x /\ tool'.at \in {"estimate", "persist"}
      BY <3>3, <3>4 DEF Advance, Tools
    <3>6. QED
      BY <1>0, <2>1, <2>2, <3>5, ReceiptFiles, Zenon DEF x
  <2>3. CASE Fail("aborted")
    BY <1>n, <2>1, <2>3, SameFiles DEF Fail
  <2>4. QED
    BY <1>5, <2>2, <2>3 DEF Receipt
<1>w. CASE Truncate
  <2>1. UNCHANGED <<mode, mined, log, hashes>> /\ tool.at = "persist" /\ tool' = [tool EXCEPT !.at = "write"]
    BY <1>w DEF Truncate
  <2>2. tool'.executed = tool.executed /\ tool'.at = "write"
    BY <1>0, <2>1 DEF Tools
  <2>3. QED
    BY <2>1, <2>2, SameFiles
<1>6. CASE Persist
  BY <1>0, <1>6, PersistFiles
<1>7. CASE AppendHashes
  <2>1. UNCHANGED <<mode, mined, log>> /\ Range(hashes') \subseteq Range(log')
    BY <1>0, <1>7, HashesOfLog DEF AppendHashes
  <2>2. tool'.executed = <<>> /\ tool'.at # "receipt"
    <3>1. OpenBundle(tool.b + 1) \/ Fail("done")
      BY <1>7 DEF AppendHashes
    <3>2. QED
      BY <3>1, OpensEmpty
  <2>3. Clean(log)' /\ Clean(tool.executed)' /\ Range(tool'.executed) = {} /\ DOMAIN tool'.executed = {}
    BY <2>1, <2>2 DEF LogInv, Clean, Range
  <2>4. QED
    BY <2>1, <2>2, <2>3 DEF LogInv
<1>8. CASE Kill
  BY <1>n, <1>8, SameFiles DEF Kill, Fail
<1>9. CASE Cancel
  BY <1>9, SameFiles DEF Cancel
<1>10. ASSUME NEW s \in Targets, Drop(s) PROVE LogInv'
  BY <1>10, SameFiles DEF Drop
<1>11. ASSUME NEW s \in Targets, Mine(s) PROVE LogInv'
  BY <1>0, <1>11, MineFiles
<1>12. QED
  BY <1>1, <1>2, <1>3, <1>4, <1>5, <1>w, <1>6, <1>7, <1>8, <1>9, <1>10, <1>11 DEF Next

\* The log that upgrade-broadcast and execute-safe append to after each bundle, when
\* no run was killed while it was written, has the transactions that succeeded, once each and in the order of L1, and
\* transactions.txt has none that the log does not have, wherever a run is killed.
THEOREM LogsAreClean == Spec => []LogIsClean
<1>1. Init => LogInv
  BY DEF Init, LogInv, Clean, NotRunning, Range, Busy
<1>2. ManifestInv /\ LogInv /\ [Next]_vars => LogInv'
  BY LogStep
<1>3. ManifestInv /\ [Next]_vars => ManifestInv'
  BY ManifestStep
<1>4. LogInv => LogIsClean
  BY DEF LogInv, Clean, LogIsClean
<1>5. QED
  BY <1>1, <1>2, <1>3, <1>4, ManifestInit, PTL DEF Spec


=============================================================================
