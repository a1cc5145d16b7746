---------------------------- MODULE ChainFollower ----------------------------
(***************************************************************************)
(* What the block indexer promises: `copy` follows a chain that grows and  *)
(* forks above its last irreversible block. The copy is hash-linked at all *)
(* times, it is extended or cut back and never rewritten in place, and no  *)
(* block is cut off that is on the chain of the moment.                    *)
(***************************************************************************)
EXTENDS Integers, Sequences

CONSTANT Block  \* records with the hash of a block, `tag`, and of its parent, `prev`

VARIABLES
    chain,      \* the chain of the node
    lib,        \* number of its last irreversible block
    copy        \* the chain as indexed

Linked(s) == \A n \in 2..Len(s) : s[n].prev = s[n - 1].tag

Init ==
    /\ chain \in Seq(Block) /\ Linked(chain)
    /\ lib \in 1..Len(chain)
    /\ copy = SubSeq(chain, 1, lib)

(* The chain grows, or is replaced above its last irreversible block. *)
Move ==
    /\ chain' \in Seq(Block) /\ Linked(chain')
    /\ lib' \in lib..Len(chain')
    /\ \A n \in 1..lib : chain'[n] = chain[n]
    /\ UNCHANGED copy

Extend ==
    /\ Len(copy') > Len(copy)
    /\ \A n \in 1..Len(copy) : copy'[n] = copy[n]
    /\ copy' \in Seq(Block) /\ Linked(copy')
    /\ UNCHANGED <<chain, lib>>

Cut ==
    /\ \E k \in 1..(Len(copy) - 1) :
        /\ copy' = SubSeq(copy, 1, k)
        /\ \A n \in (k + 1)..Len(copy) : copy[n] # chain[n]
    /\ UNCHANGED <<chain, lib>>

Next == Move \/ Extend \/ Cut

Spec == Init /\ [][Next]_<<chain, lib, copy>>
=============================================================================
