---------------------------- MODULE SetupPayments ----------------------------
(***************************************************************************)
(* SetupPayments.s.sol and SetupPaymentsLib.sol: a forge script reads the  *)
(* payments of a round from a file, overwrites the same file with the      *)
(* leaves of their Merkle tree, simulates all calls, and then broadcasts   *)
(* them one by one: the rewards updater, the rewards submission, the root, *)
(* and one claim.  What the cheatcodes write stays written when the        *)
(* simulation reverts.  The RewardsCoordinator of EigenLayer is external.  *)
(***************************************************************************)
EXTENDS MerkleTree, FiniteSets

CONSTANTS
    Earners,            \* accounts that may be paid
    Claimable,          \* the earners whose claims the broadcaster may make
    Amounts,            \* values of amountPerPayment
    DefaultEarnings,    \* the 100 of processClaim
    Uint32,             \* 2^32: uint32(info.amountPerPayment)
    Accounts,           \* owners of keys
    Broadcaster,        \* the account of the key that run broadcasts with
    MaxEarners,         \* bound on the earners of a round
    MaxRounds           \* bound on the files written by hand

ASSUME PaymentsAssumption ==
    /\ Claimable \subseteq Earners
    /\ Amounts \subseteq Nat
    /\ DefaultEarnings \in Nat \ {0}
    /\ Uint32 \in Nat \ {0}
    /\ Broadcaster \in Accounts
    /\ MaxEarners \in Nat
    /\ MaxRounds \in Nat

VARIABLES
    file,       \* payments.json
    rounds,     \* number of files written by hand
    plan,       \* calls simulated and not yet broadcast
    coord       \* the RewardsCoordinator

vars == <<file, rounds, plan, coord>>

(* PaymentInfo; rootAmount stands for earnerTokenRoots, the token roots of *)
(* a tree with that amount.  recipient, duration and startTimestamp do not *)
(* matter to what is paid.                                                 *)
Infos ==
    [kind: {"info"}, earners: UNION {[1 .. n -> Earners] : n \in 0 .. MaxEarners},
     numPayments: 0 .. MaxEarners, amountPerPayment: Amounts, rootAmount: Amounts,
     indexToProve: 0 .. MaxEarners - 1, endTimestamp: 1 .. MaxRounds]

NoFile == [kind |-> "none"]

----------------------------------------------------------------------------
(* The leaves, SetupPaymentsLib.sol:96-158.                                *)
TokenLeaf(earnings) == [kind |-> "tokenLeaf", cumulativeEarnings |-> earnings]
TokenRoot(earnings) == merkleizeKeccak(<<TokenLeaf(earnings)>>)
EarnerLeaf(earner, earnings) ==
    [kind |-> "earnerLeaf", earner |-> earner, earnerTokenRoot |-> TokenRoot(earnings)]

Earnings(info) == info.amountPerPayment % Uint32

EarnerLeavesPadded(info) ==    \* mutant: the padded array is kept
    padLeaves([i \in 1 .. Len(info.earners) |-> EarnerLeaf(info.earners[i], Earnings(info))])

EarnerLeaves(info) ==
    [i \in 1 .. Len(info.earners) |-> EarnerLeaf(info.earners[i], Earnings(info))]

----------------------------------------------------------------------------
(* The RewardsCoordinator: its owner, who may submit roots, what it is     *)
(* paid for an AVS, the roots, and the cumulative earnings each earner has *)
(* claimed.  readDeploymentJson leaves its address at zero, where no code  *)
(* is there to be called; it is there when the address is read.            *)
CoordInits ==
    [there: BOOLEAN, owner: Accounts, updater: Accounts, funded: {0}, roots: {<<>>},
     end: {0}, claimed: [Earners -> {0}],
     trees: {<<>>}]         \* history: the leaves of each root

(* A claim is of a root, an earner's leaf in it, and a token leaf in that; *)
(* it pays what the earner has earned and not claimed.                     *)
Accepts(c, call) ==
    /\ c.there
    /\ \/ /\ call.kind = "updater"
          /\ c.owner = Broadcaster
       \/ /\ call.kind = "fund"
          /\ call.count > 0 => call.amount > 0
       \/ /\ call.kind = "root"
          /\ c.updater = Broadcaster
          /\ call.end > c.end
       \/ /\ call.kind = "claim"
          /\ call.rootIndex < Len(c.roots)
          /\ verifyInclusionKeccak(call.proof, c.roots[call.rootIndex + 1],
                                   call.leaf, call.index)
          /\ verifyInclusionKeccak(call.tokenProof, call.leaf.earnerTokenRoot,
                                   call.tokenLeaf, 0)
          /\ call.leaf.earner \in Claimable
          /\ call.tokenLeaf.cumulativeEarnings > c.claimed[call.leaf.earner]

After(c, call) ==
    CASE call.kind = "updater" -> [c EXCEPT !.updater = call.updater]
      [] call.kind = "fund" -> [c EXCEPT !.funded = @ + call.count * call.amount]
      [] call.kind = "root" ->
            [c EXCEPT !.roots = Append(@, call.root), !.end = call.end,
                      !.trees = Append(@, call.leaves)]
      [] call.kind = "claim" ->
            [c EXCEPT !.claimed[call.leaf.earner] = call.tokenLeaf.cumulativeEarnings]

(* Whether the four calls of a run go through, one after the other.        *)
AllAccepted(c, calls) ==
    LET updated == After(c, calls[1])
        funded == After(updated, calls[2])
        rooted == After(funded, calls[3])
    IN  /\ Accepts(c, calls[1])
        /\ Accepts(updated, calls[2])
        /\ Accepts(funded, calls[3])
        /\ Accepts(rooted, calls[4])

----------------------------------------------------------------------------
(* The calls of run.  The deployer is the account of PRIVATE_KEY.          *)
UpdaterCall(deployer) == [kind |-> "updater", updater |-> deployer]

FundCallOneShort(info) ==    \* mutant: i < numPayments - 1
    [kind |-> "fund", amount |-> info.amountPerPayment,
     count |-> IF info.numPayments > 0 THEN info.numPayments - 1 ELSE 0]

FundCall(info) ==
    [kind |-> "fund", amount |-> info.amountPerPayment, count |-> info.numPayments]

RootCall(info) ==
    [kind |-> "root", root |-> merkleizeKeccak(EarnerLeaves(info)),
     end |-> info.endTimestamp, leaves |-> EarnerLeaves(info)]

ClaimCallNewestRoot(info) ==    \* mutant: claims from the root just submitted
    [kind |-> "claim", rootIndex |-> Len(coord.roots), index |-> info.indexToProve,
     proof |-> generateMerkleProof(EarnerLeaves(info), info.indexToProve),
     leaf |-> EarnerLeaf(info.earners[info.indexToProve + 1], info.rootAmount),
     tokenProof |-> generateMerkleProof(<<TokenLeaf(Earnings(info))>>, 0),
     tokenLeaf |-> TokenLeaf(DefaultEarnings)]

(* processClaim takes the leaves from the file, as they were just written. *)
ClaimCall(info) ==
    [kind |-> "claim", rootIndex |-> 0, index |-> info.indexToProve,
     proof |-> generateMerkleProof(EarnerLeaves(info), info.indexToProve),
     leaf |-> EarnerLeaf(info.earners[info.indexToProve + 1], info.rootAmount),
     tokenProof |-> generateMerkleProof(<<TokenLeaf(Earnings(info))>>, 0),
     tokenLeaf |-> TokenLeaf(DefaultEarnings)]

Calls(info, deployer) ==
    <<UpdaterCall(deployer), FundCall(info), RootCall(info), ClaimCall(info)>>

(* createPaymentRoot is reached and its requires hold: the file is written.*)
LeavesWritten(info, deployer) ==
    /\ Accepts(coord, UpdaterCall(deployer))
    /\ Accepts(After(coord, UpdaterCall(deployer)), FundCall(info))
    /\ Len(info.earners) = info.numPayments

Passes(info, deployer) ==
    /\ LeavesWritten(info, deployer)
    /\ info.indexToProve < Len(info.earners)
    /\ ProofExists(EarnerLeaves(info), info.indexToProve)
    /\ AllAccepted(coord, Calls(info, deployer))

----------------------------------------------------------------------------
Init ==
    /\ file = NoFile
    /\ rounds = 0
    /\ plan = <<>>
    /\ coord \in CoordInits

(* Somebody puts the payments of a round into the file.  A file written    *)
(* during the broadcast is not read before its end, and one that is        *)
(* replaced before a run has overwritten it might as well not have been    *)
(* there.                                                                  *)
WriteInfo ==
    /\ plan = <<>>
    /\ file.kind # "info"
    /\ rounds < MaxRounds
    /\ rounds' = rounds + 1
    /\ file' \in Infos
    /\ UNCHANGED <<plan, coord>>

(* run up to its end, simulated.  A file of leaves is no PaymentInfo, and  *)
(* decoding it reverts; the coordinator may also be paused, or not yet     *)
(* serve the claims of a new root.                                         *)
RunKeepingFile(deployer) ==    \* mutant: the leaves are not written to the file
    /\ plan = <<>>
    /\ file.kind = "info"
    /\ Passes(file, deployer)
    /\ plan' = Calls(file, deployer)
    /\ UNCHANGED <<file, rounds, coord>>

Run(deployer) ==
    /\ plan = <<>>
    /\ file.kind = "info"
    /\ LeavesWritten(file, deployer)
    /\ \/ plan' = <<>>
       \/ Passes(file, deployer) /\ plan' = Calls(file, deployer)
    /\ file' = [kind |-> "leaves", leaves |-> EarnerLeaves(file)]
    /\ UNCHANGED <<rounds, coord>>

Broadcast ==
    /\ plan # <<>>
    /\ Accepts(coord, Head(plan))
    /\ coord' = After(coord, Head(plan))
    /\ plan' = Tail(plan)
    /\ UNCHANGED <<file, rounds>>

(* A call fails on the chain, or the script is stopped: the rest is never  *)
(* sent.                                                                   *)
BroadcastStops ==
    /\ plan # <<>>
    /\ plan' = <<>>
    /\ UNCHANGED <<file, rounds, coord>>

Next ==
    \/ WriteInfo
    \/ \E deployer \in Accounts : Run(deployer)
    \/ Broadcast
    \/ BroadcastStops

Spec == Init /\ [][Next]_vars

----------------------------------------------------------------------------
(* The state holds values of their types; a plan is what is left of the    *)
(* four calls of a run.                                                    *)
TypeOK ==
    /\ \/ file = NoFile
       \/ file \in Infos
       \/ file.kind = "leaves" /\ \A k \in DOMAIN file.leaves : file.leaves[k].kind = "earnerLeaf"
    /\ rounds \in 0 .. MaxRounds
    /\ Len(plan) <= 4
    /\ coord.there \in BOOLEAN
    /\ coord.owner \in Accounts
    /\ coord.updater \in Accounts
    /\ coord.funded \in Nat
    /\ coord.claimed \in [Earners -> Nat]
    /\ Len(coord.roots) = Len(coord.trees)

(* However runs are cut short between their calls, nobody has claimed more *)
(* than the 100 of one claim, and what all have claimed together never     *)
(* exceeds what the rewards submissions paid in (the order of the calls in *)
(* SetupPayments.s.sol:46-54).                                             *)
Claimants == {e \in Earners : coord.claimed[e] > 0}

ClaimedIsFunded ==
    /\ \A e \in Claimants : coord.claimed[e] = DefaultEarnings
    /\ DefaultEarnings * Cardinality(Claimants) <= coord.funded

(* Every claim that was ever paid is one of the first round: its earner is *)
(* owed exactly the 100 of the claim by the tree of root 0.  The claim is  *)
(* of root 0 (SetupPaymentsLib.sol:70) and of the hard-coded 100 (67), its *)
(* siblings come from the tree of the new file and its leaf from the info, *)
(* so that a later round pays nobody whom it adds or pays more.            *)
OnlyTheFirstRoundIsClaimed ==
    \A e \in Claimants :
        /\ coord.trees # <<>>
        /\ \E i \in DOMAIN coord.trees[1] :
                coord.trees[1][i] = EarnerLeaf(e, DefaultEarnings)

(* A file is paid at most once: run reads it and overwrites it (lines 44   *)
(* and 100 of SetupPayments.s.sol), so that no second run sees it.         *)
EachFilePaidOnce == Len(coord.roots) + (IF file.kind = "info" THEN 1 ELSE 0) <= rounds
=============================================================================
