------------------------------- MODULE RBTree -------------------------------
(***************************************************************************)
(* The red-black tree that keeps the replica points of the hash ring       *)
(* (lib/ring/rbtree.js): insertion and removal in one pass from the root   *)
(* down, with rotations and colour flips on the way, and the iterators the *)
(* lookups walk with.                                                      *)
(*                                                                         *)
(* A tree is a value here, Nil or a node with two children; a position in  *)
(* it is the path from the root, and what the code assigns through p, gp   *)
(* and ggp is put back at a path.                                          *)
(***************************************************************************)
EXTENDS Circle

\* null counts as black.
Nil == [red |-> FALSE]

RingNode(key) == [key |-> key, red |-> TRUE, kids |-> [right \in BOOLEAN |-> Nil]]

Blackened(tree) == IF tree = Nil THEN Nil ELSE [tree EXCEPT !.red = FALSE]

RECURSIVE At(_, _)
At(tree, path) == IF path = <<>> THEN tree ELSE At(tree.kids[Head(path)], Tail(path))

RECURSIVE Put(_, _, _)
Put(tree, path, sub) ==
  IF path = <<>> THEN sub
  ELSE [tree EXCEPT !.kids[Head(path)] = Put(@, Tail(path), sub)]

-----------------------------------------------------------------------------
(***************************************************************************)
(* Insertion.                                                              *)
(***************************************************************************)

\* Mutant: the colours stay where they were.
singleRotateKeepsRed(root, dir) ==
  LET save == root.kids[~dir]
  IN [save EXCEPT !.kids[dir] = [root EXCEPT !.kids[~dir] = save.kids[dir]]]

singleRotate(root, dir) ==
  LET save == root.kids[~dir]
  IN [save EXCEPT
        !.red = FALSE,
        !.kids[dir] = [root EXCEPT !.red = TRUE, !.kids[~dir] = save.kids[dir]]]

doubleRotate(root, dir) ==
  singleRotate([root EXCEPT !.kids[~dir] = singleRotate(@, ~dir)], dir)

Flipped(node) ==
  [node EXCEPT !.red = TRUE, !.kids[FALSE].red = FALSE, !.kids[TRUE].red = FALSE]

\* On the way down, a node with two red children takes their colour.
FlipOnTheWay(node) ==
  IF node.kids[FALSE].red /\ node.kids[TRUE].red THEN Flipped(node) ELSE node

\* A red node under a red parent: the grandparent is rotated. What results
\* is the tree, and the path of the node in it.
FixRed(tree, path) ==
  IF path = <<>> \/ ~At(tree, path).red \/ ~At(tree, Front(path)).red
  THEN <<tree, path>>
  ELSE LET gp == Front(Front(path))
           last == Last(Front(path))
       IN IF Last(path) = last
          THEN <<Put(tree, gp, singleRotate(At(tree, gp), ~last)), Append(gp, last)>>
          ELSE <<Put(tree, gp, doubleRotate(At(tree, gp), ~last)), gp>>

RECURSIVE InsertAlong(_, _, _)
InsertAlong(tree, path, key) ==
  LET met == At(tree, path)
      node == IF met = Nil THEN RingNode(key) ELSE FlipOnTheWay(met)
      fixed == FixRed(Put(tree, path, node), path)
  IN IF Same(node.key, key) THEN fixed[1]
     ELSE InsertAlong(fixed[1], Append(fixed[2], Less(node.key, key)), key)

\* A key that is there already is not inserted again.
insert(tree, key) == Blackened(InsertAlong(tree, <<>>, key))

-----------------------------------------------------------------------------
(***************************************************************************)
(* Removal: a red node is pushed down in front, so that what is spliced    *)
(* out at the bottom is red.                                               *)
(***************************************************************************)

\* The node at path and the child it goes to next are black: borrow red from
\* the other child, or from the sibling, or from the parent.
PushRed(tree, path, dir) ==
  LET node == At(tree, path)
      up == Front(path)
      p == At(tree, up)
      lastDir == Last(path)
      sibling == p.kids[~lastDir]
      rotated == IF sibling.kids[lastDir].red THEN doubleRotate(p, lastDir)
                                              ELSE singleRotate(p, lastDir)
  IN IF node.red \/ node.kids[dir].red THEN <<tree, path>>
     ELSE IF node.kids[~dir].red
     THEN <<Put(tree, path, singleRotate(node, dir)), Append(path, dir)>>
     ELSE IF path = <<>> \/ sibling = Nil THEN <<tree, path>>
     ELSE IF ~sibling.kids[FALSE].red /\ ~sibling.kids[TRUE].red
     THEN <<Put(tree, up, [p EXCEPT !.red = FALSE,
                                    !.kids[~lastDir].red = TRUE,
                                    !.kids[lastDir].red = TRUE]), path>>
     ELSE <<Put(tree, up, [Flipped(rotated) EXCEPT !.kids[lastDir].kids[lastDir].red = TRUE]),
            up \o <<lastDir, lastDir>> >>

RECURSIVE Descend(_, _, _)
Descend(tree, path, key) ==
  LET dir == Less(At(tree, path).key, key)
      pushed == PushRed(tree, path, dir)
      next == Append(pushed[2], dir)
  IN IF At(pushed[1], next) = Nil THEN pushed ELSE Descend(pushed[1], next, key)

OnlyChild(node) == node.kids[node.kids[FALSE] = Nil]

\* The node found takes over the key of the one at the bottom, which goes.
Spliced(tree, path, key) ==
  LET node == At(tree, path)
      found == {i \in 0..Len(path) : Same(At(tree, SubSeq(path, 1, i)).key, key)}
      at == SubSeq(path, 1, CHOOSE i \in found : TRUE)
      replaced == Put(tree, at, [At(tree, at) EXCEPT !.key = node.key])
  IN IF found = {} THEN tree ELSE Put(replaced, path, OnlyChild(At(replaced, path)))

remove(tree, key) ==
  IF tree = Nil THEN Nil
  ELSE LET bottom == Descend(tree, <<>>, key)
       IN Blackened(Spliced(bottom[1], bottom[2], key))

-----------------------------------------------------------------------------
(***************************************************************************)
(* Iterators: the cursor with its ancestors before it, or <<>> for an      *)
(* iterator that has not started or has passed the last node.              *)
(***************************************************************************)

RECURSIVE minNode(_)
minNode(node) ==
  IF node = Nil THEN <<>> ELSE <<node>> \o minNode(node.kids[FALSE])

min(tree) == Last(minNode(tree)).key

\* Up past every ancestor of which this is the right subtree.
RECURSIVE Ascend(_)
Ascend(iter) ==
  LET above == Front(iter)
  IN IF above = <<>> \/ Last(above).kids[TRUE] # Last(iter) THEN above ELSE Ascend(above)

next(tree, iter) ==
  IF iter = <<>> THEN minNode(tree)
  ELSE IF Last(iter).kids[TRUE] = Nil THEN Ascend(iter)
  ELSE iter \o minNode(Last(iter).kids[TRUE])

RECURSIVE Toward(_, _)
Toward(node, key) ==
  IF node = Nil THEN <<>>
  ELSE IF Same(node.key, key) THEN <<node>>
  ELSE <<node>> \o Toward(node.kids[Less(node.key, key)], key)

lowerBound(tree, key) ==
  LET down == Toward(tree, key)
  IN SubSeq(down, 1, SelectLastInSeq(down, LAMBDA node : ~Less(node.key, key)))

RECURSIVE SkipSmaller(_, _, _)
SkipSmaller(tree, iter, key) ==
  IF iter # <<>> /\ Less(Last(iter).key, key)
  THEN SkipSmaller(tree, next(tree, iter), key)
  ELSE iter

\* Despite its comment, a key that is in the tree is not passed over.
upperBound(tree, key) == SkipSmaller(tree, lowerBound(tree, key), key)

-----------------------------------------------------------------------------
(***************************************************************************)
(* What makes a tree a red-black tree.                                     *)
(***************************************************************************)

RECURSIVE Keys(_)
Keys(node) ==
  IF node = Nil THEN <<>>
  ELSE Keys(node.kids[FALSE]) \o <<node.key>> \o Keys(node.kids[TRUE])

\* The black nodes on every way down, or -1 where two ways differ.
RECURSIVE BlackHeight(_)
BlackHeight(node) ==
  IF node = Nil THEN 0
  ELSE LET left == BlackHeight(node.kids[FALSE])
           right == BlackHeight(node.kids[TRUE])
       IN IF left # right \/ left = -1 THEN -1
          ELSE left + (IF node.red THEN 0 ELSE 1)

RECURSIVE NoRedPair(_)
NoRedPair(node) ==
  node = Nil \/ \A dir \in BOOLEAN :
                  /\ ~(node.red /\ node.kids[dir].red)
                  /\ NoRedPair(node.kids[dir])

IsRedBlackTree(tree) ==
  /\ ~tree.red
  /\ NoRedPair(tree)
  /\ BlackHeight(tree) # -1
  /\ \A i \in 1..(Len(Keys(tree)) - 1) : Less(Keys(tree)[i], Keys(tree)[i + 1])
=============================================================================
