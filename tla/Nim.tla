--------------------------------- MODULE Nim ---------------------------------
(* The conformance game of the arena (src/arena/games/nim.py).  A position   *)
(* is what setup and apply return: the heaps, the seat to move, the last     *)
(* mover and the number of moves played.  Heaps are numbered from 1 here and *)
(* from 0 in the code.  The definitions keep the names of the functions.     *)
EXTENDS Integers, Sequences, Bitwise, Functions

CONSTANTS
    HeapCounts,     \* how many heaps setup may lay out
    MaxHeap,        \* the largest heap setup may lay out
    NoSeat          \* the last mover before the first move

ASSUME NimAssumption ==
    /\ HeapCounts \subseteq Nat \ {0} /\ HeapCounts # {}
    /\ MaxHeap \in Nat \ {0}
    /\ NoSeat \notin {0, 1}

Objects(heaps) == SumFunction(heaps)
XorOf(heaps) == FoldFunction(LAMBDA h, x : h ^^ x, 0, heaps)

\* The generator decides the heaps; the loop of setup leaves none whose xor is 0.
AnyLayout == UNION {[1..n -> 1..MaxHeap] : n \in HeapCounts}
Layouts == {h \in AnyLayout : XorOf(h) # 0}
setup == {[heaps |-> h, to_move |-> 0, last_mover |-> NoSeat, turn |-> 0] : h \in Layouts}

\* A move names any heap and any count; what is not even a number is no move.
NimMoves == [heap : 0..MaxHeap + 1, take : 0..MaxHeap + 1]

legal(state, move) ==
    /\ move \in NimMoves
    /\ move.heap \in DOMAIN state.heaps
    /\ move.take >= 1
    /\ move.take <= state.heaps[move.heap]

apply(state, move) ==
    [heaps |-> [state.heaps EXCEPT ![move.heap] = @ - move.take],
     to_move |-> 1 - state.to_move,
     last_mover |-> state.to_move,
     turn |-> state.turn + 1]

NimOver(state) == Objects(state.heaps) = 0
move_bound(state) == Objects(state.heaps)

legal_moves(heaps) ==
    UNION {{[heap |-> i, take |-> t] : t \in 1..heaps[i]} : i \in DOMAIN heaps}

\* Mutant: also keeps the heaps that would have to grow.
WinningWithGrowth(heaps) ==
    LET target == XorOf(heaps)
        want(i) == heaps[i] ^^ target
    IN  IF target = 0 THEN {}
        ELSE {[heap |-> i, take |-> heaps[i] - want(i)] : i \in DOMAIN heaps}

\* The moves that leave an xor of zero; none when the position is lost.
winning_moves(heaps) ==
    LET target == XorOf(heaps)
        want(i) == heaps[i] ^^ target
    IN  IF target = 0 THEN {}
        ELSE {[heap |-> i, take |-> heaps[i] - want(i)] :
                 i \in {j \in DOMAIN heaps : want(j) < heaps[j]}}
=============================================================================
