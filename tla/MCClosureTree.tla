--------------------------- MODULE MCClosureTree ---------------------------
(***************************************************************************)
(* Small fork-join programs for ClosureTree.  Every frame that spawns ends *)
(* with a sync, which the compiler adds, and so does every try block with  *)
(* a spawn.  A frame's handler is the instruction after its try block, and *)
(* 0 if it has none; caught is what the serial execution catches in each   *)
(* frame, if it gets there, and lets out of the root.                      *)
(***************************************************************************)
EXTENDS ClosureTree

spawn(f) == [op |-> "spawn", arg |-> f]
call(f)  == [op |-> "call", arg |-> f]
up(n)    == [op |-> "update", arg |-> n]
throw(n) == [op |-> "throw", arg |-> n]
sync     == [op |-> "sync", arg |-> 0]

(* A program that throws nothing. *)
Quiet(p) ==
    [code |-> p.code, kind |-> p.kind, parent |-> p.parent,
     handler |-> [f \in DOMAIN p.code |-> 0],
     caught |-> [f \in DOMAIN p.code |-> <<>>]]

(* A loop: two children of one frame, so that it can be stolen twice before*)
(* its sync, and the children can return in either order.                  *)
Loop ==
    [code   |-> <<<<spawn(2), up(2), spawn(3), up(4), sync, up(5)>>,
                  <<up(1)>>, <<up(3)>>>>,
     kind   |-> <<"root", "spawn", "spawn">>,
     parent |-> <<0, 1, 1>>]

(* Three children, for a child with a sibling on either side.              *)
WideLoop ==
    [code   |-> <<<<spawn(2), spawn(3), spawn(4), up(4), sync>>,
                  <<up(1)>>, <<up(2)>>, <<up(3)>>>>,
     kind   |-> <<"root", "spawn", "spawn", "spawn">>,
     parent |-> <<0, 1, 1, 1>>]

(* Nested spawns: the child spawns in turn, and is stolen from.            *)
Nested ==
    [code   |-> <<<<spawn(2), up(3), sync, up(4)>>,
                  <<spawn(3), up(2), sync>>, <<up(1)>>>>,
     kind   |-> <<"root", "spawn", "spawn">>,
     parent |-> <<0, 1, 2>>]

(* A called function that spawns, while a child of the caller is running.  *)
CallBetween ==
    [code   |-> <<<<spawn(2), call(3), up(4), sync, up(5)>>,
                  <<up(1)>>, <<spawn(4), up(3), sync>>, <<up(2)>>>>,
     kind   |-> <<"root", "spawn", "call", "spawn">>,
     parent |-> <<0, 1, 1, 3>>]

(* A spawned expression that itself spawns.                                *)
Expression ==
    [code   |-> <<<<spawn(2), up(4), sync>>,
                  <<spawn(3), up(2), sync, up(3)>>, <<up(1)>>>>,
     kind   |-> <<"root", "expr", "spawn">>,
     parent |-> <<0, 1, 2>>]

(* Two sync blocks in one frame: the second starts from a clean closure.   *)
Phases ==
    [code   |-> <<<<spawn(2), up(2), sync, spawn(3), up(4), sync, up(5)>>,
                  <<up(1)>>, <<up(3)>>>>,
     kind   |-> <<"root", "spawn", "spawn">>,
     parent |-> <<0, 1, 1>>]

(* Calls within calls, each with a child running beside it.                *)
CallChain ==
    [code   |-> <<<<spawn(2), call(3), up(6), sync>>,
                  <<up(1)>>, <<spawn(4), call(5), up(5), sync>>, <<up(2)>>,
                  <<spawn(6), up(4), sync>>, <<up(3)>>>>,
     kind   |-> <<"root", "spawn", "call", "spawn", "call", "spawn">>,
     parent |-> <<0, 1, 1, 3, 3, 5>>]

(* Two children and the continuation throw: the first child's counts.      *)
ThrowLoop ==
    [code    |-> <<<<spawn(2), spawn(3), throw(3), sync, up(2)>>,
                   <<up(1), throw(1)>>, <<throw(2)>>>>,
     kind    |-> <<"root", "spawn", "spawn">>,
     parent  |-> <<0, 1, 1>>,
     handler |-> <<5, 0, 0>>,
     caught  |-> <<<<1>>, <<>>, <<>>>>]

(* A child with a child of its own: nothing is caught, and the exception   *)
(* leaves the region.                                                      *)
ThrowNested ==
    [code    |-> <<<<spawn(2), up(1), sync>>,
                   <<spawn(3), throw(2), sync>>, <<throw(1)>>>>,
     kind    |-> <<"root", "spawn", "spawn">>,
     parent  |-> <<0, 1, 2>>,
     handler |-> <<0, 0, 0>>,
     caught  |-> <<<<1>>, <<>>, <<>>>>]

(* The child catches and returns, then the root throws; a second sync      *)
(* block throws again, with no handler.                                    *)
ThrowTwice ==
    [code    |-> <<<<spawn(2), throw(2), sync, spawn(4), sync>>,
                   <<spawn(3), sync>>, <<throw(1)>>, <<throw(3)>>>>,
     kind    |-> <<"root", "spawn", "spawn", "spawn">>,
     parent  |-> <<0, 1, 2, 1>>,
     handler |-> <<4, 3, 0, 0>>,
     caught  |-> <<<<2, 3>>, <<1>>, <<>>, <<>>>>]

(* A called function throws, or catches, in its continuation, while a      *)
(* child of the caller runs.                                               *)
ThrowCallee ==
    [code    |-> <<<<spawn(2), call(3), sync>>,
                   <<up(1)>>, <<spawn(4), throw(1), sync>>, <<>>>>,
     kind    |-> <<"root", "spawn", "call", "spawn">>,
     parent  |-> <<0, 1, 1, 3>>,
     handler |-> <<0, 0, 0, 0>>,
     caught  |-> <<<<1>>, <<>>, <<>>, <<>>>>]

CatchCallee ==
    [code    |-> <<<<spawn(2), call(3), throw(3), sync>>,
                   <<throw(1)>>, <<spawn(4), throw(2), sync, up(1)>>, <<>>>>,
     kind    |-> <<"root", "spawn", "call", "spawn">>,
     parent  |-> <<0, 1, 1, 3>>,
     handler |-> <<0, 0, 4, 0>>,
     caught  |-> <<<<1>>, <<>>, <<2>>, <<>>>>]

(* A spawned expression throws past its own spawn.                         *)
ThrowExpression ==
    [code    |-> <<<<spawn(2), up(1), sync>>,
                   <<spawn(3), throw(2), sync>>, <<throw(1)>>>>,
     kind    |-> <<"root", "expr", "spawn">>,
     parent  |-> <<0, 1, 2>>,
     handler |-> <<0, 0, 0>>,
     caught  |-> <<<<1>>, <<>>, <<>>>>]

AllPrograms ==
    {Quiet(p) : p \in {Loop, WideLoop, Nested, CallBetween, Expression, Phases,
                       CallChain}}
    \cup {ThrowLoop, ThrowNested, ThrowTwice, ThrowCallee, CatchCallee,
          ThrowExpression}

(* A frame with a handler calls a function whose continuation throws, both *)
(* of them stolen from, while there is more work elsewhere.                *)
CatchFromCallee ==
    [code    |-> <<<<spawn(2), spawn(6), sync>>,
                   <<spawn(3), call(4), sync>>, <<>>,
                   <<spawn(5), throw(1), sync>>, <<>>, <<>>>>,
     kind    |-> <<"root", "spawn", "spawn", "call", "spawn", "spawn">>,
     parent  |-> <<0, 1, 2, 2, 4, 1>>,
     handler |-> <<0, 4, 0, 0, 0, 0>>,
     caught  |-> <<<<>>, <<1>>, <<>>, <<>>, <<>>, <<>>>>]

StackPrograms == {CatchFromCallee}
=============================================================================
