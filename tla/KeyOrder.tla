------------------------------ MODULE KeyOrder ------------------------------
(* The composite key of tree items and node pointers, and                *)
(* apfs_comp_cpu_keys(), the order every checker compares keys by.  The  *)
(* comparator is not in the repository's sources; it is modelled from    *)
(* the specification (KeyOrder: lexicographic on the three fields).      *)
EXTENDS Integers

Key(o, t, f) == [objectid |-> o, type |-> t, offset |-> f]

(* "No valid key type is 0, so all key should be larger than this key" *)
ZeroKey == Key(0, 0, 0)

CompKeys(a, b) ==
    CASE a.objectid > b.objectid -> 1 [] a.objectid < b.objectid -> -1
      [] a.type > b.type -> 1         [] a.type < b.type -> -1
      [] a.offset > b.offset -> 1     [] a.offset < b.offset -> -1
      [] OTHER -> 0

(* A sequence of keys in strictly ascending order, stated over all pairs. *)
KeysAscending(ks) ==
    \A i, j \in DOMAIN ks : i < j => CompKeys(ks[i], ks[j]) < 0

IsAligned(x, a) == x % a = 0
====
