-------------------------------- MODULE Merkle -------------------------------
(***************************************************************************)
(* The Merkle tree of an epoch's scores: merkle.py of the validator and    *)
(* the verification in ScoringRegistry.verifyScore.                        *)
(*                                                                         *)
(* Hashes are free: a leaf's hash is tagged with the leaf, and that of a   *)
(* pair with the set of its two parts, because the pair is sorted first.   *)
(***************************************************************************)
EXTENDS Integers, Sequences, SequencesExt

\* ScoreLeaf.hash: hashed twice, so that no pair is taken for a leaf.
LeafHash(leaf) == <<"leaf", leaf.miner, leaf.score>>

\* Defect: a pair is hashed in the order of the layer.
Unsorted(a, b) == <<"pair", <<a, b>>>>

PairHash(a, b) == <<"pair", {a, b}>>

\* An odd layer repeats its last hash.
Padded(layer) == IF Len(layer) % 2 = 1 THEN Append(layer, Last(layer)) ELSE layer

NextLayer(layer) ==
  LET even == Padded(layer)
  IN [i \in 1 .. Len(even) \div 2 |-> PairHash(even[2 * i - 1], even[2 * i])]

\* The layers from the leaves' hashes on.
Layers(hashes) ==
  LET layer[k \in 0 .. Len(hashes)] == IF k = 0 THEN hashes ELSE NextLayer(layer[k - 1])
  IN layer

\* How many layers are below the root.
Height(hashes) ==
  CHOOSE k \in 0 .. Len(hashes) : /\ Len(Layers(hashes)[k]) = 1
                                  /\ \A j \in 0 .. k - 1 : Len(Layers(hashes)[j]) # 1

RootOf(hashes) == Layers(hashes)[Height(hashes)][1]

Sibling(i) == IF i % 2 = 1 THEN i + 1 ELSE i - 1

\* Where the path from the i-th leaf to the root passes each layer.
Path(hashes, i) ==
  LET at[k \in 0 .. Len(hashes)] == IF k = 0 THEN i ELSE (at[k - 1] + 1) \div 2
  IN at

ProofAt(hashes, i) ==
  [k \in 1 .. Height(hashes) |-> Padded(Layers(hashes)[k - 1])[Sibling(Path(hashes, i)[k - 1])]]

\* The leaves' hashes in some fixed order, which in the code is that of the bytes.
Hashed(leaves) == FoldSet(LAMBDA leaf, layer : Append(layer, LeafHash(leaf)), <<>>, leaves)

\* build_merkle_root
Root(leaves) == IF leaves = {} THEN <<"zero">> ELSE RootOf(Hashed(leaves))

\* build_proof
Proof(leaves, leaf) ==
  LET layer == Hashed(leaves)
  IN ProofAt(layer, CHOOSE i \in DOMAIN layer : layer[i] = LeafHash(leaf))

\* verifyScore: OpenZeppelin's MerkleProof against the committed root.
VerifyScore(root, leaf, proof) ==
  LET hash[k \in 0 .. Len(proof)] ==
        IF k = 0 THEN LeafHash(leaf) ELSE PairHash(hash[k - 1], proof[k])
  IN hash[Len(proof)] = root
=============================================================================
