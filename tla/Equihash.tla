------------------------------ MODULE Equihash ------------------------------
(***************************************************************************)
(* The verification of an Equihash solution, which every ExchangeCoin      *)
(* share goes through: equihash_verify_excc_export, verifyEH_144_5 and     *)
(* Equihash<N,K>::IsValidSolution of libmultihash.                         *)
(*                                                                         *)
(* A solution is 2^K indices of BitLen bits each, packed into bytes.  The  *)
(* bytes are unpacked through an accumulator of WordBits bits; then the    *)
(* rows of the indices are merged pairwise, level by level.  Bytes have    *)
(* ByteBits bits, and one digit of a row stands for the CollisionBitLength *)
(* bits of the hash that two rows must share.  The hash of an index        *)
(* (BLAKE2b of the header) is one of the functions of Hashes.  The names   *)
(* differ from Submission's, whose ProcessShare calls the verification.    *)
(***************************************************************************)
EXTENDS Integers, Sequences, SequencesExt, Functions

CONSTANTS K, ByteBits, WordBits, CollisionBitLength, Hashes

BitLen == CollisionBitLength + 1
Bytes == 0..(2^ByteBits - 1)
Indices == 0..(2^BitLen - 1)
Digits == 0..1
SolutionWidth == (2^K * BitLen) \div ByteBits

\* The assertions of ExpandArray, with bytes of ByteBits bits.
ASSUME EquihashAssumption ==
  /\ K \in Nat \ {0} /\ ByteBits \in Nat \ {0} /\ CollisionBitLength \in Nat
  /\ WordBits \in Nat
  /\ BitLen >= ByteBits /\ WordBits >= ByteBits - 1 + BitLen
  /\ (2^K * BitLen) % ByteBits = 0
  /\ Hashes \subseteq [Indices -> [1..(K + 1) -> Digits]]

VARIABLES
  header,           \* its length is right
  soln,             \* bytes of the solution
  hash,             \* hash of each index under this header
  phase,
  read, acc,        \* ExpandArray: bytes read, accumulator
  indices,
  X, Xc,            \* rows of this level that are left, and rows of the next
  accepted          \* what is returned

inputVars == <<header, soln, hash>>
equihashVars == <<inputVars, phase, read, acc, indices, X, Xc, accepted>>

Inputs ==
  {TRUE} \X [1..SolutionWidth -> Bytes]
    \cup BOOLEAN \X {[b \in 1..w |-> 0] : w \in (SolutionWidth - 1)..(SolutionWidth + 1)}

EquihashInit ==
  /\ \E in \in Inputs : header = in[1] /\ soln = in[2]
  /\ hash = <<>> /\ phase = "size" /\ accepted = FALSE
  /\ read = 0 /\ acc = [value |-> 0, bits |-> 0]
  /\ indices = <<>> /\ X = <<>> /\ Xc = <<>>

Return(v) == phase' = "done" /\ accepted' = v
-----------------------------------------------------------------------------
\* The header must have 180 bytes and the solution SolutionWidth.
CheckSize ==
  /\ phase = "size"
  /\ IF header /\ Len(soln) = SolutionWidth
     THEN phase' = "expand" /\ UNCHANGED accepted
     ELSE Return(FALSE)
  /\ UNCHANGED <<inputVars, read, acc, indices, X, Xc>>

\* (acc_value << 8) | in[i]
Shifted(v, b) == (v * 2^ByteBits + b) % 2^WordBits

\* Mutant of Element: acc_bits is not yet reduced.
ElementEarly(v, bits) == (v \div 2^bits) % 2^BitLen

\* (acc_value >> acc_bits) & bit_len_mask, once bits are left over
Element(v, bits) == (v \div 2^(bits - BitLen)) % 2^BitLen

\* One byte: when BitLen bits are there, they are the next index.
ExpandArray ==
  LET v    == Shifted(acc.value, soln[read + 1])
      bits == acc.bits + ByteBits
  IN /\ phase = "expand" /\ read < Len(soln)
     /\ read' = read + 1
     /\ IF bits >= BitLen
        THEN /\ indices' = Append(indices, Element(v, bits))
             /\ acc' = [value |-> v, bits |-> bits - BitLen]
        ELSE /\ acc' = [value |-> v, bits |-> bits]
             /\ UNCHANGED indices
     /\ UNCHANGED <<inputVars, phase, X, Xc, accepted>>

\* One row for each index, with its hash.
MakeRows ==
  /\ phase = "expand" /\ read = Len(soln)
  /\ hash' \in Hashes
  /\ X' = [n \in 1..Len(indices) |-> [hash |-> hash'[indices[n]], indices |-> <<indices[n]>>]]
  /\ phase' = "merge"
  /\ UNCHANGED <<header, soln, read, acc, indices, Xc, accepted>>
-----------------------------------------------------------------------------
HasCollision(a, b) == a.hash[1] = b.hash[1]

\* memcmp of the big-endian indices
IndicesBefore(a, b) ==
  \E n \in 1..Len(a.indices) :
    /\ a.indices[n] < b.indices[n]
    /\ \A m \in 1..(n - 1) : a.indices[m] = b.indices[m]

\* Mutant of DistinctIndices: only the first indices are compared.
DistinctFirst(a, b) == a.indices[1] # b.indices[1]

DistinctIndices(a, b) == Range(a.indices) \cap Range(b.indices) = {}

\* The merged row: the shared digit is trimmed, the smaller indices come first.
FullStepRow(a, b) ==
  [hash    |-> [d \in 1..(Len(a.hash) - 1) |-> (a.hash[d + 1] + b.hash[d + 1]) % 2],
   indices |-> IF IndicesBefore(a, b) THEN a.indices \o b.indices ELSE b.indices \o a.indices]

MergePair ==
  /\ phase = "merge" /\ Len(X) > 1
  /\ IF \/ ~HasCollision(X[1], X[2])
        \/ IndicesBefore(X[2], X[1])
        \/ ~DistinctIndices(X[1], X[2])
     THEN Return(FALSE) /\ UNCHANGED <<X, Xc>>
     ELSE /\ Xc' = Append(Xc, FullStepRow(X[1], X[2]))
          /\ X' = SubSeq(X, 3, Len(X))
          /\ UNCHANGED <<phase, accepted>>
  /\ UNCHANGED <<inputVars, read, acc, indices>>

NextLevel ==
  /\ phase = "merge" /\ X = <<>>
  /\ X' = Xc /\ Xc' = <<>>
  /\ UNCHANGED <<inputVars, phase, read, acc, indices, accepted>>

IsZero(row) == \A d \in 1..Len(row.hash) : row.hash[d] = 0

Finish ==
  /\ phase = "merge" /\ Len(X) = 1 /\ Xc = <<>>
  /\ Return(IsZero(X[1]))
  /\ UNCHANGED <<inputVars, read, acc, indices, X, Xc>>
-----------------------------------------------------------------------------
IsValidSolution == CheckSize \/ ExpandArray \/ MakeRows \/ MergePair \/ NextLevel \/ Finish

EquihashSpec == EquihashInit /\ [][IsValidSolution]_equihashVars
-----------------------------------------------------------------------------
(***************************************************************************)
(* The reference: the bits of the solution, and the tree of its indices    *)
(***************************************************************************)
Bit(p) == (soln[p \div ByteBits + 1] \div 2^(ByteBits - 1 - (p % ByteBits))) % 2

\* Group n of BitLen bits, the last of them with the weight 1.
IndexOf(n) == SumFunction([b \in 0..(BitLen - 1) |-> 2^b * Bit(n * BitLen - 1 - b)])

\* The indices below node j of level r, counted from the leaves.
Leaves(r, j) == [n \in 1..2^r |-> IndexOf((j - 1) * 2^r + n)]

XorIsZero(leaves, d) == SumFunction([n \in DOMAIN leaves |-> hash[leaves[n]][d]]) % 2 = 0

\* A node of level r is in order, and the first r digits below it cancel.
GoodNode(r, j) ==
  /\ Leaves(r - 1, 2 * j - 1)[1] < Leaves(r - 1, 2 * j)[1]
  /\ \A d \in 1..r : XorIsZero(Leaves(r, j), d)

IsSolution ==
  /\ IsInjective(Leaves(K, 1))
  /\ \A r \in 1..K : \A j \in 1..2^(K - r) : GoodNode(r, j)
  /\ XorIsZero(Leaves(K, 1), K + 1)

\* Unpacking yields the consecutive groups of BitLen bits: no bit is lost in the accumulator
\* where a group crosses a byte, although old bits are shifted out of it at the top.
UnpacksBits == phase = "merge" => indices = [n \in 1..2^K |-> IndexOf(n)]

\* IsValidSolution accepts exactly the solutions of the definition of Equihash: distinct
\* indices in tree order whose hashes cancel digit by digit.  It checks them pair by pair and
\* leaves at the first fault.
AcceptsSolutions ==
  phase = "done" => (accepted <=> header /\ Len(soln) = SolutionWidth /\ IsSolution)
=============================================================================
