---------------------------- MODULE MCSubmission ----------------------------
(***************************************************************************)
(* Two jobs; a block of each miner and a share, and one that cannot be     *)
(* parsed.  Others may fail as well, by Refuse and Misparse.               *)
(* The block b1 is also sent in capitals, which is the same submission,    *)
(* and with a leading zero, which is another one of the same header.       *)
(***************************************************************************)
EXTENDS Submission, TLC

CONSTANTS b1, b1Capitals, b1Zero, s1, b2, junk, x1, x2

MCKeyOf == [s \in Contents |-> IF s = b1Capitals THEN b1 ELSE s]
MCHeaderOf == [s \in Contents |-> IF s \in {b1Capitals, b1Zero} THEN b1 ELSE s]

MCJobOf == [s \in Contents |-> IF s \in {b2, junk} THEN 2 ELSE 1]
MCNonceOf == [s \in Contents |-> IF s = b2 THEN x2 ELSE x1]
MCGradeOf == [s \in Contents |-> CASE s = s1 -> "share"
                                   [] s = junk -> "malformed" [] OTHER -> "block"]

\* The clients are alike: each may have either extra nonce.
ClientSymmetry == Permutations(Clients)

\* The variables of a request mean nothing once it has ended.
InRequest(f) == [c \in Clients |-> IF stage[c] = "idle" THEN <<>> ELSE <<f[c]>>]

MCView == <<jobVars, registered, clientVars, stage, InRequest(working), InRequest(candidate),
            statVars, outVars, boundVars>>
=============================================================================
