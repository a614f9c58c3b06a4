---------------------------- MODULE MCMailEnqueue ----------------------------
(***************************************************************************)
(* Instances of MailEnqueue for TLC: the addresses "A" and "a" differ only *)
(* in case, the inputs combine a shared key, several recipients, a copy    *)
(* and one template with two contexts.                                     *)
(***************************************************************************)
EXTENDS MailEnqueue, TLC

CONSTANTS k1, upperA, lowerA, lowerB, t1, c1, c2

MCLower == (upperA :> lowerA) @@ (lowerA :> lowerA) @@ (lowerB :> lowerB)

MCRenders == {[template |-> t1, context |-> c1], [template |-> t1, context |-> c2]}
NoRenders == {}

Body(key, to) == [key |-> key, to |-> to, cc |-> {}, render |-> NoRender,
                  complete |-> TRUE]

KeyedInputs == {Body(k1, <<upperA>>), Body(k1, <<lowerA, lowerB>>)}
UnkeyedInputs == {Body(NoKey, <<lowerB>>)}
RaceInputs == {Body(k1, <<lowerB, upperA>>), Body(EmptyKey, <<lowerA>>)}
SerialInputs ==
    {Body(k1, <<lowerA>>), Body(EmptyKey, <<lowerA>>),
     Body(NoKey, <<lowerB, lowerA>>), Body(NoKey, <<lowerA, lowerA>>),
     [Body(NoKey, <<lowerA>>) EXCEPT !.complete = FALSE]}
        \cup {[Body(NoKey, <<lowerB>>) EXCEPT !.render = x] : x \in Renders}
CopyInputs == {[Body(NoKey, <<lowerB>>) EXCEPT !.cc = {lowerA}]}

RaceCalls == {[op |-> "suppress", address |-> upperA],
              [op |-> "unsuppress", address |-> lowerA]}
SuppressCall == {[op |-> "suppress", address |-> upperA]}

RequestSymmetry ==
    Permutations(Requests) \cup Permutations(Hosts) \cup Permutations(Admins)
=============================================================================
