-------------------------- MODULE MCDropElaboration --------------------------
(***************************************************************************)
(* Small functions for DropElaboration: straight lines, a branch, a loop   *)
(* with an early exit, and a loop around a try, over two values and a      *)
(* reference.                                                              *)
(***************************************************************************)
EXTENDS DropElaboration

MCVars == 0 .. 3
MCNoRef == -1
X == 0
Y == 1
R == 2
Q == 3

I(op, var, path, thru, mutable) ==
  [op |-> op, var |-> var, path |-> path, thru |-> thru, mutable |-> mutable]
P(op, var) == I(op, var, <<>>, NoRef, FALSE)
At(op, path, thru) == I(op, X, path, thru, FALSE)
Loan(path, mutable) == I("loan", X, path, R, mutable)
Nop == P("nop", X)
Try(body, body_end, handler, handler_end, final) ==
  [op |-> "try", var |-> X, path |-> <<>>, thru |-> NoRef, mutable |-> FALSE,
   body |-> body, body_end |-> body_end, handles |-> handler # <<>>,
   handler |-> handler, handler_end |-> handler_end,
   orelse |-> <<>>, final |-> final]

Fill(succ, choices, owned) ==
  {[size |-> Cardinality(DOMAIN succ), succ |-> succ,
    code |-> [n \in DOMAIN succ |-> c[n + 1]], owned |-> owned, borrowed |-> {}]
   : c \in choices}
Line(k) == [n \in 0 .. k |-> IF n < k THEN {n + 1} ELSE {}]

(* if c: 2 else: 3; the join is 1. *)
Diamond == [n \in 0..3 |-> CASE n = 0 -> {2, 3} [] n \in {2, 3} -> {1} [] OTHER -> {}]
(* while c: 2 with an early exit from the body; the exit is 3. *)
Loop == [n \in 0..4 |-> CASE n = 0 -> {1} [] n = 1 -> {2, 3} [] n = 2 -> {4, 3}
                          [] n = 4 -> {1} [] OTHER -> {}]

Whole == {Nop, P("def", X), P("use", X), P("move", X), P("use", Y), P("def", Y),
          P("writeback", X)}
Branches == Fill(Diamond, Whole \X Whole \X Whole \X Whole, {X})
Loops == Fill(Loop, {P("def", X), Nop} \X Whole \X Whole \X Whole \X Whole, {Y})

(* Loans of x and of its fields, in a line and around a loop. *)
Borrowing ==
  {Loan(<<>>, TRUE), Loan(<<"a">>, FALSE), Loan(<<"[]">>, TRUE),
   At("load", <<"a">>, NoRef), At("load", <<"a">>, R), At("store", <<"a">>, NoRef),
   At("store", <<"b">>, NoRef), At("store", <<"[]">>, R), P("def", X), P("move", X),
   P("def", R), P("deref", R)}
Lines == Fill(Line(3), {P("def", X)} \X Borrowing \X Borrowing \X Borrowing, {})
(* Two references, one of them with several loans, taken in either order.  *)
Second == {P("def", Q), I("loan", X, <<"a">>, Q, TRUE), I("loan", X, <<"b">>, Q, FALSE),
           P("deref", Q), P("deref", R), Loan(<<"a">>, TRUE)}
Pairs == Fill(Line(5), {P("def", X)} \X Second \X Second \X Second \X Second \X Second, {})
BorrowLoops ==
  Fill(Loop, {P("def", X)} \X {Nop, P("deref", R)} \X Borrowing
               \X {Nop, P("use", X)} \X Borrowing, {})

(* while c: try: body; except: handler; finally: final; with escapes to    *)
(* the exit 3 and to the header 1, and a use after the try.                *)
Bodies == {<<P("use", X), Nop>>, <<P("def", Y), Nop, P("use", Y)>>,
           <<Nop, P("move", X)>>, <<P("def", X), Nop>>}
Attempts ==
  {Try(body, e, handler, h, final) :
     body \in Bodies, e \in {Fall, Leave, 3, 1}, h \in {Fall, 3},
     handler \in {<<>>, <<P("use", X)>>}, final \in {<<>>, <<P("use", X)>>}}
TryLoop == [n \in 0..4 |-> CASE n = 0 -> {1} [] n = 1 -> {2, 3} [] n = 2 -> {4}
                             [] n = 4 -> {1} [] OTHER -> {}]
TryLoops ==
  Fill(TryLoop, {P("def", X)} \X {Nop} \X Attempts
                  \X {Nop, P("use", X), P("def", X)} \X {Nop, P("use", X), P("def", X)},
       {})

(* resource^.close(): the receiver is loaded, the call made, the variable  *)
(* consumed.                                                               *)
ConsumeFunctions ==
  Fill(Line(3), {<<P("def", X), At("load", <<>>, NoRef), Nop, P("consume", X)>>}, {})

MCFunctions ==
  {f \in Branches \union Loops \union Lines \union Pairs \union BorrowLoops
           \union TryLoops \union ConsumeFunctions : IsFunction(f)}
=============================================================================
