------------------------------ MODULE LabCompile ------------------------------
(***************************************************************************)
(* The two compilers of the iterator laboratory (CompiledRegex::new and    *)
(* GuardedRegex::new), from a capture-free expression to a prioritized     *)
(* continuation graph.  They differ only in how an unbounded repetition    *)
(* keeps an iteration that consumed nothing from looping: the product      *)
(* compiler copies the body into a zero and a consumed mode, the guarded   *)
(* one saves the position at which an iteration began.                     *)
(*                                                                         *)
(* An instruction is [op, arg, to]: to lists the successors, preferred     *)
(* first; arg is the byte of a "byte" and the guard of "save" and "check". *)
(* A builder is [code, at, guards]: at is the entry of the continuation,   *)
(* and after a node was compiled the entry of that node.                   *)
(***************************************************************************)
EXTENDS Integers, Sequences, FiniteSets, SequencesExt

CONSTANTS MaxNodes, MaxDepth, MaxRepeatBound    \* CompileLimits

Unbounded == -1

\* Ast, by its constructors.
Empty == [op |-> "empty"]
Byte(b) == [op |-> "byte", byte |-> b]
Start == [op |-> "start"]
End == [op |-> "end"]
Concat(x, y) == [op |-> "concat", kids |-> <<x, y>>]
Alt(x, y) == [op |-> "alt", kids |-> <<x, y>>]
Atoms(body, greedy) == [op |-> "repeat", body |-> body, greedy |-> greedy]
Repetition(child, min, max, greedy) ==
    [op |-> "repetition", child |-> child, min |-> min, max |-> max, greedy |-> greedy]
Star(child, greedy) == Repetition(child, 0, Unbounded, greedy)

Inst(op, arg, to) == [op |-> op, arg |-> arg, to |-> to]

\* Builder::push: one more instruction, which becomes the entry.
Push(b, inst) == [b EXCEPT !.code = Append(@, inst), !.at = Len(b.code) + 1]

\* The successors of a choice between another iteration and the exit.
Ordered(greedy, body, exit) ==
    IF greedy THEN <<body, exit>> ELSE <<exit, body>>

Split(b, to) == Push(b, Inst("split", 0, to))

\* Builder::compile_node and GuardBuilder::compile_node, below.
RECURSIVE CompileNode(_, _, _)

\* Alternatives are compiled from the last to the first, each in front of the
\* same continuation.
Alternatives(guarded, kids, b) ==
    FoldRight(LAMBDA kid, rest :
                LET first == CompileNode(guarded, kid, [rest EXCEPT !.at = b.at])
                IN  Split(first, <<first.at, rest.at>>),
              Front(kids), CompileNode(guarded, Last(kids), b))

\* translate_progress_inst: reading a byte enters the consumed mode.
Translate(inst, zero, consumed, progressed) ==
    [inst EXCEPT !.to = [i \in DOMAIN @ |->
        IF progressed \/ inst.op = "byte" THEN consumed[@[i]] ELSE zero[@[i]]]]

\* import_progress_product: every instruction of the fragment but its accept
\* becomes two slots; an iteration that ends in the zero mode leaves the loop.
ImportProduct(b, fragment, exit, loop) ==
    LET rank(pc) == Cardinality({q \in 1..pc : fragment.code[q].op # "match"})
        pcs == DOMAIN fragment.code
        zero == [pc \in pcs |-> IF fragment.code[pc].op = "match" THEN exit
                                ELSE Len(b.code) + 2 * rank(pc) - 1]
        consumed == [pc \in pcs |-> IF fragment.code[pc].op = "match" THEN loop
                                    ELSE Len(b.code) + 2 * rank(pc)]
        pairs == [pc \in pcs |->
                    IF fragment.code[pc].op = "match" THEN <<>>
                    ELSE <<Translate(fragment.code[pc], zero, consumed, FALSE),
                           Translate(fragment.code[pc], zero, consumed, TRUE)>>]
    IN  [b EXCEPT !.code = @ \o FlattenSeq(pairs), !.at = zero[fragment.at]]

\* compile_progress_star.
ProgressStar(child, greedy, b) ==
    LET hole == Push(b, Inst("hole", 0, <<>>))
        start == [code |-> <<Inst("match", 0, <<>>)>>, at |-> 1, guards |-> 0]
        body == ImportProduct(hole, CompileNode(FALSE, child, start), b.at, hole.at)
    IN  [body EXCEPT !.code[hole.at] =
                        Inst("split", 0, Ordered(greedy, body.at, b.at)),
                     !.at = hole.at]

\* CheckProgress: around the loop after progress, out of it without.
GuardExit(b, loop, exit) == Push(b, Inst("check", b.guards - 1, <<loop, exit>>))

\* compile_general_star, and compile_atom_star, whose atoms are alternatives.
GuardedStar(child, greedy, b) ==
    LET hole == [Push(b, Inst("hole", 0, <<>>)) EXCEPT !.guards = @ + 1]
        check == GuardExit(hole, hole.at, b.at)
        body == CompileNode(TRUE, child, check)
        save == Push(body, Inst("save", b.guards, <<body.at>>))
    IN  [save EXCEPT !.code[hole.at] =
                        Inst("split", 0, Ordered(greedy, save.at, b.at)),
                     !.at = hole.at]

\* compile_repeat_atom: an atom that reads a byte goes around the loop, one
\* that does not leaves it.
RepeatAtom(atom, b, loop, exit) ==
    CASE atom.op = "empty" -> [b EXCEPT !.at = exit]
      [] atom.op = "byte"  -> Push(b, Inst("byte", atom.byte, <<loop>>))
      [] OTHER             -> Push(b, Inst(atom.op, 0, <<exit>>))

\* compile_repeat_body.
AtomStar(body, greedy, b) ==
    LET hole == Push(b, Inst("hole", 0, <<>>))
        list == FoldRight(LAMBDA atom, rest :
                            LET first == RepeatAtom(atom, rest, hole.at, b.at)
                            IN  Split(first, <<first.at, rest.at>>),
                          Front(body), RepeatAtom(Last(body), hole, hole.at, b.at))
    IN  [list EXCEPT !.code[hole.at] =
                        Inst("split", 0, Ordered(greedy, list.at, b.at)),
                     !.at = hole.at]

\* compile_repetition: optional iterations, each of which may be skipped on
\* its own, or a star, behind the required ones.
Repeated(guarded, ast, b) ==
    LET optional(x) == LET body == CompileNode(guarded, ast.child, x)
                       IN  Split(body, Ordered(ast.greedy, body.at, x.at))
        tail == IF ast.max # Unbounded
                THEN FoldLeft(LAMBDA x, i : optional(x), b, [i \in 1..(ast.max - ast.min) |-> i])
                ELSE IF guarded THEN GuardedStar(ast.child, ast.greedy, b)
                ELSE ProgressStar(ast.child, ast.greedy, b)
    IN  FoldLeft(LAMBDA x, i : CompileNode(guarded, ast.child, x), tail, [i \in 1..ast.min |-> i])

CompileNode(guarded, ast, b) ==
    CASE ast.op = "empty"  -> b
      [] ast.op = "byte"   -> Push(b, Inst("byte", ast.byte, <<b.at>>))
      [] ast.op \in {"start", "end"} -> Push(b, Inst(ast.op, 0, <<b.at>>))
      [] ast.op = "concat" ->
            FoldRight(LAMBDA kid, rest : CompileNode(guarded, kid, rest), ast.kids, b)
      [] ast.op = "alt"    -> Alternatives(guarded, ast.kids, b)
      [] ast.op = "repeat" ->
            IF guarded THEN GuardedStar([op |-> "alt", kids |-> ast.body], ast.greedy, b)
            ELSE AtomStar(ast.body, ast.greedy, b)
      [] ast.op = "repetition" -> Repeated(guarded, ast, b)

Compile(guarded, ast) ==
    CompileNode(guarded, ast,
                [code |-> <<Inst("match", 0, <<>>)>>, at |-> 1, guards |-> 0])

\* validate_ast: every node of the expression is well formed and the whole
\* small and shallow enough.
RECURSIVE Nodes(_)
Nodes(ast) ==
    1 + (CASE ast.op \in {"concat", "alt"} ->
                FoldLeft(LAMBDA n, kid : n + Nodes(kid), 0, ast.kids)
           [] ast.op = "repetition" -> Nodes(ast.child)
           [] OTHER -> 0)

RECURSIVE Valid(_, _, _)
Valid(ast, depth, bound) ==
    /\ depth > 0
    /\ CASE ast.op = "concat" -> \A i \in DOMAIN ast.kids : Valid(ast.kids[i], depth - 1, bound)
         [] ast.op = "alt" ->
                /\ ast.kids # <<>>
                /\ \A i \in DOMAIN ast.kids : Valid(ast.kids[i], depth - 1, bound)
         [] ast.op = "repeat" -> ast.body # <<>>
         [] ast.op = "repetition" ->
                /\ ast.min <= bound
                /\ ast.max # Unbounded => ast.min <= ast.max /\ ast.max <= bound
                /\ Valid(ast.child, depth - 1, bound)
         [] OTHER -> TRUE

Accepted(ast) ==
    /\ Valid(ast, MaxDepth, MaxRepeatBound)
    /\ Nodes(ast) <= MaxNodes

-----------------------------------------------------------------------------
(* The order in which one boundary is evaluated.                           *)

\* Successors at the same boundary.
Epsilon(inst) == IF inst.op = "byte" THEN {} ELSE Range(inst.to)

\* The instructions of a program, in its order.
Program(code) == [i \in DOMAIN code |-> i]

\* The first of the queue is done; whoever waited for it alone follows.
RECURSIVE Kahn(_, _, _)
Kahn(code, queue, order) ==
    IF queue = <<>> THEN order ELSE
    LET child == Head(queue)
        done == Append(order, child)
        ready == SelectSeq(Program(code),
                           LAMBDA pc : /\ child \in Epsilon(code[pc])
                                       /\ Epsilon(code[pc]) \subseteq Range(done))
    IN  Kahn(code, Tail(queue) \o ready, done)

\* epsilon_order: successors at the same boundary come first.  Shorter than
\* the program when the graph has a cycle that reads nothing.
EpsilonOrder(code) ==
    Kahn(code, SelectSeq(Program(code), LAMBDA pc : Epsilon(code[pc]) = {}), <<>>)

-----------------------------------------------------------------------------
(* The reference: what an expression selects, by backtracking.             *)

\* A list of lists as one, without an end that a better match already has.
Ranked(lists) ==
    FoldLeft(LAMBDA ends, e : IF e \in Range(ends) THEN ends ELSE Append(ends, e),
             <<>>, FlattenSeq(lists))

\* The ends of the matches of an expression from position i, best first.  An
\* iteration of an unbounded repetition that consumes nothing is its last.
RECURSIVE Ends(_, _, _)
Ends(ast, hay, i) ==
    LET Then(ends, More(_)) == Ranked([k \in DOMAIN ends |-> More(ends[k])])
        Iterate(child, greedy, More(_)) ==
            LET more == Then(Ends(child, hay, i), More)
            IN  Ranked(IF greedy THEN <<more, <<i>>>> ELSE <<<<i>>, more>>)
    IN
    CASE ast.op = "empty" -> <<i>>
      [] ast.op = "byte"  -> IF i < Len(hay) /\ ast.byte \in {"any", hay[i + 1]}
                             THEN <<i + 1>> ELSE <<>>
      [] ast.op = "start" -> IF i = 0 THEN <<i>> ELSE <<>>
      [] ast.op = "end"   -> IF i = Len(hay) THEN <<i>> ELSE <<>>
      [] ast.op = "concat" ->
            FoldLeft(LAMBDA ends, kid : Then(ends, LAMBDA e : Ends(kid, hay, e)),
                     <<i>>, ast.kids)
      [] ast.op = "alt" -> Ranked([k \in DOMAIN ast.kids |-> Ends(ast.kids[k], hay, i)])
      [] ast.op = "repeat" ->
            Iterate([op |-> "alt", kids |-> ast.body], ast.greedy,
                    LAMBDA e : IF e = i THEN <<i>> ELSE Ends(ast, hay, e))
      [] ast.op = "repetition" /\ ast.min > 0 ->
            Then(Ends(ast.child, hay, i),
                 LAMBDA e : Ends([ast EXCEPT !.min = @ - 1,
                                             !.max = IF @ = Unbounded THEN @ ELSE @ - 1],
                                 hay, e))
      [] ast.op = "repetition" /\ ast.min = 0 /\ ast.max = 0 -> <<i>>
      [] ast.op = "repetition" /\ ast.min = 0 /\ ast.max > 0 ->
            Iterate(ast.child, ast.greedy,
                    LAMBDA e : Ends([ast EXCEPT !.max = @ - 1], hay, e))
      [] OTHER ->
            Iterate(ast.child, ast.greedy,
                    LAMBDA e : IF e = i THEN <<i>> ELSE Ends(ast, hay, e))

\* Start -> end of the match an expression selects, or -1.
Selection(ast, hay) ==
    [i \in 0..Len(hay) |-> LET ends == Ends(ast, hay, i)
                           IN  IF ends = <<>> THEN -1 ELSE ends[1]]
==============================================================================
