------------------------------- MODULE Requires -------------------------------
(***************************************************************************)
(* The requires strings of data/*.json and what Rules.py makes of them.    *)
(* A string is a sequence of tokens: "(", ")", "AND", "OR" and the atoms   *)
(* |item:n|, |@category:n| and {OptOne(|item:n|)}; an item begins with its *)
(* category.  No string gates nothing.                                     *)
(*                                                                         *)
(* have is what the player has, counts what his pool has, both functions   *)
(* on items.                                                               *)
(***************************************************************************)
EXTENDS Integers, SequencesExt, FiniteSetsExt

Need(i, n)      == [t |-> "item", i |-> i, n |-> n]
AnyOf(c, n)     == [t |-> "category", c |-> c, n |-> n]
NeedIfAny(i, n) == [t |-> "OptOne", i |-> i, n |-> n]
Sign(c)         == [t |-> c]

\* How many of an atom's items does c have?
Held(a, c) ==
    IF a.t = "category"
    THEN MapThenSumSet(LAMBDA i : c[i], {i \in DOMAIN c : i[1] = a.c})
    ELSE c[a.i]

\* The count an atom asks for; OptOne clamps it to what the pool has.
OptOne(a, counts) ==
    IF a.t = "OptOne" THEN Max({0, Min({a.n, Held(a, counts)})}) ELSE a.n

\* The string with its atoms looked up, as the evaluator's characters.
Characters(string, have, counts) ==
    [k \in DOMAIN string |->
        CASE string[k].t = "AND" -> "&"
          [] string[k].t = "OR"  -> "|"
          [] string[k].t \in {"(", ")"} -> string[k].t
          [] OTHER -> IF Held(string[k], have) >= OptOne(string[k], counts) THEN "1" ELSE "0"]

\* & and | have one precedence, so an operator takes off the stack whatever
\* is there down to the last parenthesis.
infix_to_postfix(expr) ==
    LET Open(s)  == Max({0} \cup {k \in DOMAIN s : s[k] = "("})
        Popped(s) == Reverse(SubSeq(s, Open(s) + 1, Len(s)))
        Step(acc, c) ==
            CASE c \in {"0", "1"} -> [acc EXCEPT !.postfix = Append(@, c)]
              [] c = "("          -> [acc EXCEPT !.stack = Append(@, c)]
              [] c = ")"          -> [postfix |-> acc.postfix \o Popped(acc.stack),
                                      stack   |-> SubSeq(acc.stack, 1, Open(acc.stack) - 1)]
              [] OTHER            -> [postfix |-> acc.postfix \o Popped(acc.stack),
                                      stack   |-> Append(SubSeq(acc.stack, 1, Open(acc.stack)), c)]
        done == FoldLeft(Step, [postfix |-> <<>>, stack |-> <<>>], expr)
    IN done.postfix \o Popped(done.stack)

evaluate_postfix(expr) ==
    LET Step(stack, c) ==
            LET n == Len(stack)
                Pushed(v) == Append(SubSeq(stack, 1, n - 2), v)
            IN CASE c = "0" -> Append(stack, FALSE)
                 [] c = "1" -> Append(stack, TRUE)
                 [] c = "&" -> Pushed(stack[n - 1] /\ stack[n])
                 [] c = "|" -> Pushed(stack[n - 1] \/ stack[n])
    IN Head(FoldLeft(Step, <<>>, expr))

checkRequireString(string, have, counts) ==
    \/ string = <<>>
    \/ evaluate_postfix(infix_to_postfix(Characters(string, have, counts)))
=============================================================================
