-------------------------------- MODULE Lists --------------------------------
(***************************************************************************)
(* A list of operations or blocks whose links live in its nodes is a       *)
(* sequence in which a node occurs once (IntrusiveList has the pointers).  *)
(* A span of buffers is the sequence of their sizes.                       *)
(***************************************************************************)
EXTENDS Naturals, Sequences

(* What is linked in a list.                                               *)
Elements(s) == {s[i] : i \in 1..Len(s)}

NoDuplicates(s) == \A i, j \in 1..Len(s) : s[i] = s[j] => i = j

(* The list without its i-th node.                                         *)
Without(s, i) == SubSeq(s, 1, i - 1) \o SubSeq(s, i + 1, Len(s))

(* The sum of the first k of a sequence of numbers: the bytes in the first *)
(* k buffers, what the first k threads counted.                            *)
SumOfFirst(k, numbers) ==
  LET sum[i \in 0..Len(numbers)] ==
        IF i = 0 THEN 0 ELSE sum[i - 1] + numbers[i]
  IN sum[k]
=============================================================================
