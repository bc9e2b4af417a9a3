----------------------------- MODULE MCEquihash -----------------------------
EXTENDS Equihash

Bin(i) == <<i \div 4, (i \div 2) % 2, i % 2>>

\* Linear functions, constants, and functions that fail in one digit only.
MCHashes ==
  {[i \in 0..7 |-> Bin(i)],
   [i \in 0..7 |-> <<0, 0, 0>>],
   [i \in 0..7 |-> <<i % 2, (i \div 2) % 2, 0>>],
   [i \in 0..7 |-> <<0, i % 2, (i \div 4)>>],
   [i \in 0..7 |-> <<0, 0, IF i = 0 THEN 1 ELSE 0>>],
   [i \in 0..7 |-> <<IF i = 7 THEN 1 ELSE 0, 1, 0>>],
   [i \in 0..7 |-> Bin((3 * i * i + i) % 8)]}
=============================================================================
