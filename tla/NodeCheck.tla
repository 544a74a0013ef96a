----------------------------- MODULE NodeCheck -----------------------------
(***************************************************************************)
(* apfs_check_node() of tree-checker.c: the validation of one interior   *)
(* node.  The node is any block the device returned: a level and a       *)
(* sequence of key pointers (key, child bytenr).  The function reads the *)
(* block and nothing else and changes no state, so it is an operator:     *)
(* CheckNode(n) is its return value for block n, its loop a recursion on  *)
(* the slot.  MC_LeafCheck checks it against a reference over every block *)
(* of the bounded set Nodes.                                              *)
(***************************************************************************)
EXTENDS KeyOrder, Sequences

CONSTANTS
    MaxLevel,       \* APFS_MAX_LEVEL
    Levels,         \* values of the header level field
    MaxPtrs,        \* largest header nritems considered
    NodeKeys,       \* keys a node may hold
    Bytenrs,        \* child pointer values a node may hold
    SectorSize      \* fs_info->sectorsize

EUCLEAN == -117

KeyPtrs == [key : NodeKeys, blockptr : Bytenrs]
Nodes == [level : Levels,
          ptrs : UNION {[1..k -> KeyPtrs] : k \in 0..MaxPtrs}]

(* apfs_header_nritems(node) *)
nr(n) == Len(n.ptrs)

(* Fault variants: equal keys taken as ordered; the two keys compared   *)
(* the other way round.                                                  *)
SlotVerdictAllowEqual(n, s) ==
    LET bytenr == n.ptrs[s + 1].blockptr
    IN CASE bytenr = 0                                         -> EUCLEAN
         [] ~IsAligned(bytenr, SectorSize)                     -> EUCLEAN
         [] CompKeys(n.ptrs[s + 1].key, n.ptrs[s + 2].key) > 0 -> EUCLEAN
         [] OTHER                                              -> 0

SlotVerdictSwapped(n, s) ==
    LET bytenr == n.ptrs[s + 1].blockptr
    IN CASE bytenr = 0                                          -> EUCLEAN
         [] ~IsAligned(bytenr, SectorSize)                      -> EUCLEAN
         [] CompKeys(n.ptrs[s + 2].key, n.ptrs[s + 1].key) >= 0 -> EUCLEAN
         [] OTHER                                               -> 0

(* One iteration on slot s (0-based; n.ptrs[s + 1] is its pointer): a    *)
(* NULL or unaligned child pointer, or keys of s and s + 1 not strictly  *)
(* ascending, is -EUCLEAN and goes to out.                               *)
SlotVerdict(n, s) ==
    LET bytenr == n.ptrs[s + 1].blockptr
    IN CASE bytenr = 0                                          -> EUCLEAN
         [] ~IsAligned(bytenr, SectorSize)                      -> EUCLEAN
         [] CompKeys(n.ptrs[s + 1].key, n.ptrs[s + 2].key) >= 0 -> EUCLEAN
         [] OTHER                                               -> 0

(* for (slot = 0; slot < nr - 1; slot++), from slot s on. *)
RECURSIVE WalkNode(_, _)
WalkNode(n, s) ==
    IF s >= nr(n) - 1 THEN 0
    ELSE IF SlotVerdict(n, s) # 0 THEN SlotVerdict(n, s)
    ELSE WalkNode(n, s + 1)

(* The level check, the empty check, then the loop.  This is the check   *)
(* the code intends: the function as built starts with "return 0;".      *)
CheckNode(n) ==
    CASE n.level <= 0 \/ n.level >= MaxLevel -> EUCLEAN
      [] nr(n) = 0                           -> EUCLEAN
      [] OTHER                               -> WalkNode(n, 0)

-----------------------------------------------------------------------------
(* The reference: a valid node has a level in [1, MAX_LEVEL - 1], at     *)
(* least one pointer, keys ascending over all pairs, and every child     *)
(* pointer non-null and sector aligned.                                  *)
NodeKeysOf(n) == [i \in DOMAIN n.ptrs |-> n.ptrs[i].key]
PointerValid(p) == p.blockptr # 0 /\ IsAligned(p.blockptr, SectorSize)

ValidNode(n) ==
    /\ n.level \in 1..MaxLevel - 1
    /\ nr(n) >= 1
    /\ KeysAscending(NodeKeysOf(n))
    /\ \A i \in DOMAIN n.ptrs : PointerValid(n.ptrs[i])

(* Every node apfs_check_node accepts has a level in range and its keys  *)
(* ascending over all pairs, though the loop compares adjacent keys only.*)
NodeCheckerSound ==
    \A n \in Nodes :
       CheckNode(n) = 0 =>
          n.level \in 1..MaxLevel - 1 /\ KeysAscending(NodeKeysOf(n))

(* apfs_check_node rejects only nodes that are invalid. *)
NodeCheckerComplete ==
    \A n \in Nodes : CheckNode(n) # 0 => ~ValidNode(n)
====
