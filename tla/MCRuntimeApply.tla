--------------------------- MODULE MCRuntimeApply ---------------------------
(***************************************************************************)
(* A small instance: two writers, three tenures of which the third does    *)
(* not supersede the second, requests that reuse an operation id, a nonce  *)
(* or a temporal lineage.                                                  *)
(***************************************************************************)
EXTENDS RuntimeApply

CONSTANTS w1, w2, A, B, C

t1 == [writer |-> w1, epoch |-> 1, supersedes |-> 0, nonce |-> 1]
t2 == [writer |-> w2, epoch |-> 2, supersedes |-> 1, nonce |-> 2]
t3 == [writer |-> w1, epoch |-> 3, supersedes |-> 1, nonce |-> 3]

Ask(op, nonce, tenure, lineage, remaining, gen, revision, slice, expected) ==
  [op |-> op, nonce |-> nonce, tenure |-> tenure, lineage |-> lineage, original |-> 3,
   remaining |-> remaining, generation |-> gen, revision |-> revision, slice |-> slice,
   expected |-> expected]

MCRequests ==
  { Ask(1, 1, t1, 1, 2, 1, 1, A, None),
    Ask(2, 2, t1, 1, 1, 1, 2, B, A),      \* same lineage, less budget
    Ask(2, 3, t1, 1, 3, 1, 2, B, A),      \* same lineage, more budget
    Ask(3, 2, t2, 2, 2, 1, 2, C, A),
    Ask(1, 4, t2, 2, 2, 1, 1, B, None),   \* operation id of the first writer
    Ask(4, 5, t3, 3, 1, 1, 3, A, B),
    Ask(4, 5, t3, 3, 1, 2, 3, A, C),      \* nonce reused in the next generation
    Ask(5, 6, t2, 4, 2, 2, 3, B, A) }

=============================================================================
