------------------------------- MODULE Defrag -------------------------------
(***************************************************************************)
(* apfs_defrag_leaves() of src/tree-defrag.c, and the caller's loop that  *)
(* calls it again while it returns -EAGAIN.                               *)
(*                                                                         *)
(* The tree is abstracted to its leaf keys and its level-1 nodes; a       *)
(* level-1 node is named by its first key, which is the key its parent    *)
(* (the root, at level 2) holds for it.  One call reallocates the leaves  *)
(* of one level-1 node (apfs_realloc_node on path->nodes[1]) and saves   *)
(* the first key of the next one in root->defrag_progress.  Between two   *)
(* calls the transaction ends and other writers may change the tree:     *)
(* keys are inserted and deleted, nodes split and merge (bounded by       *)
(* MaxChanges).  The search, realloc, next-key and path calls may fail    *)
(* (bounded by MaxFaults).  A call runs under the tree locks and is one    *)
(* step.                                                                   *)
(***************************************************************************)
EXTENDS KeyOrder, FiniteSets

CONSTANTS
    KeySpace,    \* keys the tree may hold; their objectid is never 0
    Kinds,       \* roots the caller may pass: "fs", "extent", "unshareable"
    Levels,      \* values of apfs_header_level(root->node)
    MaxChanges,  \* tree changes by other writers, over the whole behaviour
    MaxFaults    \* failed calls of search, realloc, next key or path allocation

ASSUME \A k \in KeySpace : k.objectid # 0

EAGAIN == -11
ENOMEM == -12
EIO    == -5    \* an error returned by a search or by apfs_realloc_node
NoCall == 1     \* lastRet before the first call

(* Outcomes of the calls apfs_defrag_leaves makes. *)
Faults == {"alloc_path", "search_forward", "search_slot", "realloc",
           "realloc_again", "next_key"}

VARIABLES
    kind,          \* the root: fs tree, the extent root, or not shareable
    level,         \* level of the root node
    keys,          \* leaf keys of the tree
    firsts,        \* first keys of the level-1 nodes
    progress,      \* root->defrag_progress
    dmax,          \* root->defrag_max
    inPass,        \* the caller loops: the last call returned -EAGAIN
    lastRet,       \* what the last call returned
    realloced,     \* level-1 nodes reallocated in the current pass
    startNodes,    \* level-1 nodes at the start of the pass, not merged since
    startProgress, \* defrag_progress at the start of the pass
    changes,       \* tree changes so far
    faults         \* failed calls so far

vars == <<kind, level, keys, firsts, progress, dmax, inPass, lastRet,
          realloced, startNodes, startProgress, changes, faults>>

MinKey(S) == CHOOSE k \in S : \A j \in S : CompKeys(k, j) <= 0
MaxKey(S) == CHOOSE k \in S : \A j \in S : CompKeys(k, j) >= 0

(* The level-1 node that holds key k. *)
NodeOf(k) == MaxKey({f \in firsts : CompKeys(f, k) <= 0})

(* apfs_search_forward(): the keys at or after k. *)
KeysFrom(k) == {j \in keys : CompKeys(j, k) >= 0}

(* apfs_find_next_key() at level 1 from the end of node f: the first keys *)
(* of the level-1 nodes after it.                                         *)
NextFirsts(f) == {g \in firsts : CompKeys(g, f) > 0}

(* The key of the root's last slot, read into defrag_max.  At level 1 it  *)
(* is the first key of the last leaf, a key of the tree.                  *)
RootLastKey == IF level = 1 THEN MaxKey(keys) ELSE MaxKey(firsts)

(* The test after out: -EAGAIN stands while one field of defrag_max is    *)
(* above the same field of defrag_progress.                               *)
MoreToDo(prog, m) ==
    \/ m.objectid > prog.objectid
    \/ m.type > prog.type
    \/ m.offset > prog.offset

(* out: and done: the path is freed, -EAGAIN is kept only while there is  *)
(* more to do, and any other result clears defrag_progress.               *)
Out(r, prog, m) ==
    LET res == IF r = EAGAIN /\ ~MoreToDo(prog, m) THEN 0 ELSE r
    IN /\ lastRet' = res
       /\ progress' = IF res # EAGAIN THEN ZeroKey ELSE prog
       /\ dmax' = m
       /\ inPass' = (res = EAGAIN)

FaultsNow == IF faults < MaxFaults THEN Faults ELSE {}

Fail(f) == /\ f \in FaultsNow
           /\ faults' = faults + 1

-----------------------------------------------------------------------------
(* apfs_defrag_leaves(), one call, by the path it takes. *)

(* The extent root and roots that are not shareable are skipped. *)
SkipRoot ==
    /\ inPass /\ kind # "fs"
    /\ Out(0, progress, dmax)
    /\ UNCHANGED <<kind, level, keys, firsts, realloced, startNodes,
                   startProgress, changes, faults>>

(* apfs_alloc_path() fails: -ENOMEM is returned before out:, progress kept. *)
NoPath ==
    /\ inPass /\ kind = "fs"
    /\ Fail("alloc_path")
    /\ lastRet' = ENOMEM
    /\ inPass' = FALSE
    /\ UNCHANGED <<kind, level, keys, firsts, progress, dmax, realloced,
                   startNodes, startProgress, changes>>

(* A root that is a leaf has nothing to defrag. *)
LeafRoot ==
    /\ inPass /\ kind = "fs" /\ level = 0
    /\ Out(0, progress, dmax)
    /\ UNCHANGED <<kind, level, keys, firsts, realloced, startNodes,
                   startProgress, changes, faults>>

(* Fault variants: "ret = EAGAIN" without the minus sign; a next-key   *)
(* search that may return the key it started from.                       *)
NextKeyStepPositive(node, m) ==
    \/ /\ IF NextFirsts(node) # {}
          THEN Out(-EAGAIN, MinKey(NextFirsts(node)), m)
          ELSE Out(0, progress, m)
       /\ UNCHANGED faults
    \/ Fail("next_key") /\ Out(0, progress, m)

NextKeyStepSame(node, m) ==
    LET from == {g \in firsts : CompKeys(g, node) >= 0}
    IN \/ /\ IF from # {} THEN Out(EAGAIN, MinKey(from), m)
                          ELSE Out(0, progress, m)
          /\ UNCHANGED faults
       \/ Fail("next_key") /\ Out(0, progress, m)

(* After apfs_realloc_node: apfs_find_next_key() from the end of the      *)
(* node; if there is a next node (it returns 0) its first key becomes     *)
(* defrag_progress and the call asks to be called again.  If there is     *)
(* none (1), or the search it may redo fails (< 0), ret keeps the 0 of    *)
(* the realloc and the call goes to out: with it.                         *)
NextKeyStep(node, m) ==
    \/ /\ IF NextFirsts(node) # {}
          THEN Out(EAGAIN, MinKey(NextFirsts(node)), m)
          ELSE Out(0, progress, m)
       /\ UNCHANGED faults
    \/ Fail("next_key") /\ Out(0, progress, m)

(* The walk: a fresh start (defrag_progress.objectid == 0) reads          *)
(* defrag_max from the root and searches from the zero key; otherwise it  *)
(* resumes from defrag_progress.  Then search forward, search down to     *)
(* level 1, realloc that node and find the next key.                      *)
Walk ==
    /\ inPass /\ kind = "fs" /\ level > 0
    /\ LET fresh == progress.objectid = 0
           m     == IF fresh THEN RootLastKey ELSE dmax
           key   == IF fresh THEN ZeroKey ELSE progress
       IN \/ /\ Fail("search_forward") /\ Out(EIO, progress, m)
             /\ UNCHANGED realloced
          \/ /\ KeysFrom(key) = {}
             /\ Out(0, progress, m)
             /\ UNCHANGED <<realloced, faults>>
          \/ /\ KeysFrom(key) # {}
             /\ LET node == NodeOf(MinKey(KeysFrom(key)))
                IN \/ /\ Fail("search_slot") /\ Out(EIO, progress, m)
                      /\ UNCHANGED realloced
                   \/ /\ Fail("realloc") /\ Out(EIO, progress, m)
                      /\ UNCHANGED realloced
                   \/ /\ Fail("realloc_again") /\ Out(EAGAIN, progress, m)
                      /\ UNCHANGED realloced
                   \/ /\ realloced' = realloced \cup {node}
                      /\ NextKeyStep(node, m)
    /\ UNCHANGED <<kind, level, keys, firsts, startNodes, startProgress, changes>>

DefragLeaves == SkipRoot \/ NoPath \/ LeafRoot \/ Walk

-----------------------------------------------------------------------------
(* The environment: a new defrag pass, and other writers between calls.   *)

StartPass ==
    /\ ~inPass
    /\ inPass' = TRUE
    /\ realloced' = {}
    /\ startNodes' = firsts
    /\ startProgress' = progress
    /\ UNCHANGED <<kind, level, keys, firsts, progress, dmax, lastRet,
                   changes, faults>>

Change(ks, fs, ss) ==
    /\ changes < MaxChanges
    /\ changes' = changes + 1
    /\ keys' = ks /\ firsts' = fs /\ startNodes' = ss
    /\ UNCHANGED <<kind, level, progress, dmax, inPass, lastRet, realloced,
                   startProgress, faults>>

(* An insert after the first key; a delete of a key no node starts with;  *)
(* a split of a level-1 node at key k; a merge of node f into the one     *)
(* before it.                                                             *)
InsertKey == \E k \in KeySpace \ keys :
    /\ CompKeys(k, MinKey(keys)) > 0
    /\ Change(keys \cup {k}, firsts, startNodes)
DeleteKey == \E k \in keys \ firsts : Change(keys \ {k}, firsts, startNodes)
SplitNode == \E k \in keys \ firsts :
    level = 2 /\ Change(keys, firsts \cup {k}, startNodes)
MergeNode == \E f \in firsts \ {MinKey(keys)} :
    level = 2 /\ Change(keys, firsts \ {f}, startNodes \ {f})

Init ==
    /\ kind \in Kinds
    /\ level \in Levels
    /\ keys \in SUBSET KeySpace \ {{}}
    /\ firsts \in {fs \in SUBSET keys :
                     /\ MinKey(keys) \in fs
                     /\ level < 2 => fs = {MinKey(keys)}}
    /\ progress = ZeroKey
    /\ dmax = ZeroKey
    /\ inPass = FALSE
    /\ lastRet = NoCall
    /\ realloced = {}
    /\ startNodes = {}
    /\ startProgress = ZeroKey
    /\ changes = 0
    /\ faults = 0

Next ==
    \/ DefragLeaves \/ StartPass
    \/ InsertKey \/ DeleteKey \/ SplitNode \/ MergeNode

(* The caller calls again as long as -EAGAIN comes back. *)
Spec == Init /\ [][Next]_vars /\ WF_vars(DefragLeaves)

-----------------------------------------------------------------------------
TypeOK ==
    /\ kind \in Kinds /\ level \in Levels
    /\ keys \subseteq KeySpace /\ firsts \subseteq keys
    /\ progress \in KeySpace \cup {ZeroKey} /\ dmax \in KeySpace \cup {ZeroKey}
    /\ lastRet \in {NoCall, 0, EAGAIN, ENOMEM, EIO}
    /\ realloced \subseteq KeySpace /\ startNodes \subseteq KeySpace
    /\ changes \in 0..MaxChanges /\ faults \in 0..MaxFaults

(* A pass that walked the tree and ended with 0. *)
Walked == ~inPass /\ lastRet = 0 /\ kind = "fs" /\ level > 0

(* A pass that ended with 0 has reallocated every level-1 node that was   *)
(* there all along, from where the pass started up to defrag_max.  The    *)
(* code does not meet it, and no run checks it: when apfs_find_next_key() *)
(* fails after a realloc, ret keeps 0, defrag_progress is cleared and the *)
(* caller is told the tree is done (tree-defrag.c:116-122, 137-139).       *)
DefragCoversBeforeMax ==
    Walked =>
      \A f \in startNodes :
         CompKeys(f, startProgress) >= 0 /\ CompKeys(f, dmax) < 0
           => f \in realloced

(* "Defrag all the leaves in a given btree": a pass that ends with 0 has  *)
(* reallocated every level-1 node that was there all along.              *)
DefragCoversAll ==
    Walked =>
      \A f \in startNodes : CompKeys(f, startProgress) >= 0 => f \in realloced

(* Every pass ends: the caller's loop on -EAGAIN terminates.              *)
DefragTerminates == inPass ~> ~inPass
=============================================================================
