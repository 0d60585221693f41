------------------------------- MODULE Reader -------------------------------
(***************************************************************************)
(* The parser of cgc-main.fl, from tokens to trees.  It is a recursive     *)
(* descent that never reports an error: a list ends at any closing token,  *)
(* which is consumed if it is of the list's kind and left to the lists     *)
(* around it if not.  Here a stack of the calls that wait for a node, each *)
(* with the nodes it has got so far.                                       *)
(* Tokens: the brackets, "@", "s" a symbol, "S" a symbol that begins with  *)
(* a capital letter, "k" a keyword.  {} is read like [] and left out.      *)
(***************************************************************************)
EXTENDS Integers, Sequences

CONSTANT Texts   \* the token sequences of the instance

Tokens == {"(", ")", "[", "]", "@", "s", "S", "k"}

ASSUME ReaderAssumption == Texts \subseteq Seq(Tokens)

VARIABLES
    tokens,
    idx,        \* the next token
    calls,      \* parse-all and the parse functions under way, innermost last
    made,       \* the nodes, each under the index of its first token
    tree,       \* the nodes of the program
    reading     \* "reading", then "parsed" or "crashed"

readVars == <<tokens, idx, calls, made, tree, reading>>

Closers == {")", "]"}
Symbols == {"s", "S"}

NoNode == [k |-> "none"]
AtomNode(t) == [k |-> "atom", v |-> t]
Sexpr(op, args) == [k |-> "sexpr", op |-> op, args |-> args]
ArrayNode(items) == [k |-> "array", items |-> items]
Block(type, name, fields) == [k |-> "block", type |-> type, name |-> name, fields |-> fields]
Deref(n) == [k |-> "deref", n |-> n]
Unknown == "unknown"

At(i) == IF i \in DOMAIN tokens THEN tokens[i] ELSE "end"

\* a call that has begun at a token: "top" parse-all, a bracket parse-args for a list of
\* its kind, "block" parse-named-block, "@" parse-expr for its operand
Frame(what, first, name) == [what |-> what, first |-> first, name |-> name, items |-> <<>>]
Current == calls[Len(calls)]
Begun(frame) == Append(calls, frame)

\* the innermost call gets node i; a keyword that comes again replaces a block's field
Got(stack, i) ==
    [stack EXCEPT ![Len(stack)].items = IF stack[Len(stack)].what = "block" THEN <<i>> ELSE Append(@, i)]
\* it returns node n, under its first token, to the call around it
Returned(n) ==
    /\ made' = [made EXCEPT ![Current.first] = n]
    /\ calls' = Got(SubSeq(calls, 1, Len(calls) - 1), Current.first)

(***************************************************************************)
ReadInit ==
    /\ tokens \in Texts
    /\ idx = 1 /\ calls = <<Frame("top", 0, <<>>)>>
    /\ made = [i \in DOMAIN tokens |-> NoNode]
    /\ tree = <<>> /\ reading = "reading"

\* where parse-all, parse-args, parse-block-fields and parse-expr call parse-expr
Wants ==
    CASE Current.what = "top" -> At(idx) # "end"
      [] Current.what \in {"(", "["} -> At(idx) \notin Closers \cup {"end"}
      [] Current.what = "block" -> At(idx) = "k"
      [] Current.what = "@" -> Current.items = <<>>

\* the first token of the expression, after the keyword in a block
ExprAt == IF Current.what = "block" THEN idx + 1 ELSE idx

ParseExpr(i) == reading = "reading" /\ Wants /\ i = ExprAt

ParseAtom(i) ==
    /\ ParseExpr(i) /\ At(i) \notin {"end", "(", "[", "@"}
    /\ made' = [made EXCEPT ![i] = AtomNode(At(i))]
    /\ calls' = Got(calls, i)
    /\ idx' = i + 1
    /\ UNCHANGED <<tokens, tree, reading>>

ParseSexpr(i) ==
    /\ ParseExpr(i) /\ At(i) = "("
    /\ calls' = Begun(Frame("(", i, <<>>))
    /\ idx' = i + 1
    /\ UNCHANGED <<tokens, made, tree, reading>>

ParseArray(i) ==
    /\ ParseExpr(i) /\ At(i) = "[" /\ At(i + 1) \notin {"S", "end"}
    /\ calls' = Begun(Frame("[", i, <<>>))
    /\ idx' = i + 1
    /\ UNCHANGED <<tokens, made, tree, reading>>

\* [TYPE name :k v ...]
ParseNamedBlock(i) ==
    /\ ParseExpr(i) /\ At(i) = "[" /\ At(i + 1) = "S"
    /\ LET name == IF At(i + 2) \in Symbols THEN <<At(i + 2)>> ELSE <<>> IN
       /\ calls' = Begun(Frame("block", i, name))
       /\ idx' = i + 2 + Len(name)
    /\ UNCHANGED <<tokens, made, tree, reading>>

ParseDeref(i) ==
    /\ ParseExpr(i) /\ At(i) = "@"
    /\ calls' = Begun(Frame("@", i, <<>>))
    /\ idx' = i + 1
    /\ UNCHANGED <<tokens, made, tree, reading>>

\* mutant: any closing token is consumed
ConsumeAny(closer) == IF At(idx) \in Closers THEN idx + 1 ELSE idx

\* parse-consume-rparen, parse-consume-rbracket
Consume(closer) == IF At(idx) = closer THEN idx + 1 ELSE idx

\* a list whose head is a symbol; the head of any other list is forgotten
MakeSexpr(items) ==
    IF items = <<>> THEN Sexpr("", <<>>)
    ELSE LET h == made[Head(items)] IN
         Sexpr(IF h.k = "atom" /\ h.v \in Symbols THEN h.v ELSE Unknown, Tail(items))

ReturnSexpr ==
    /\ reading = "reading" /\ Current.what = "(" /\ At(idx) \in Closers
    /\ Returned(MakeSexpr(Current.items))
    /\ idx' = Consume(")")
    /\ UNCHANGED <<tokens, tree, reading>>

ReturnArray ==
    /\ reading = "reading" /\ Current.what = "[" /\ At(idx) \in Closers
    /\ Returned(ArrayNode(Current.items))
    /\ idx' = Consume("]")
    /\ UNCHANGED <<tokens, tree, reading>>

\* whatever follows the fields is left to the lists around
ReturnBlock ==
    /\ reading = "reading" /\ Current.what = "block" /\ At(idx) \notin {"k", "end"}
    /\ Returned(Block(At(Current.first + 1), Current.name, Current.items))
    /\ idx' = Consume("]")
    /\ UNCHANGED <<tokens, tree, reading>>

ReturnDeref ==
    /\ reading = "reading" /\ Current.what = "@" /\ Current.items # <<>>
    /\ Returned(Deref(Current.items[1]))
    /\ UNCHANGED <<tokens, idx, tree, reading>>

\* parse-expr, parse-bracket and the consume functions look into the token after the last
\* one: `and' is a C function, so that the test for nil in front does not guard
Crash ==
    /\ reading = "reading"
    /\ \/ Wants /\ (At(ExprAt) = "end" \/ (At(ExprAt) = "[" /\ At(ExprAt + 1) = "end"))
       \/ Current.what \in {"(", "[", "block"} /\ At(idx) = "end"
    /\ reading' = "crashed"
    /\ UNCHANGED <<tokens, idx, calls, made, tree>>

ParseEnd ==
    /\ reading = "reading" /\ Current.what = "top" /\ At(idx) = "end"
    /\ tree' = Current.items /\ reading' = "parsed"
    /\ UNCHANGED <<tokens, idx, calls, made>>

ReadNext ==
    \/ \E i \in DOMAIN tokens :
          ParseAtom(i) \/ ParseSexpr(i) \/ ParseArray(i) \/ ParseNamedBlock(i) \/ ParseDeref(i)
    \/ ReturnSexpr \/ ReturnArray \/ ReturnBlock \/ ReturnDeref
    \/ Crash \/ ParseEnd

ReadSpec == ReadInit /\ [][ReadNext]_readVars

(***************************************************************************)
(* Properties.  What a text means: Ends says where its lists end, Members  *)
(* what is in each of them then.                                           *)
(***************************************************************************)
\* operands of "@" are there, no array begins with a symbol in capitals
Plain ==
    \A i \in DOMAIN tokens :
        /\ tokens[i] = "@" => At(i + 1) \notin Closers \cup {"end"}
        /\ tokens[i] = "[" => At(i + 1) # "S"

Lists == {i \in DOMAIN tokens : tokens[i] \in {"(", "["}}
Closing == {i \in DOMAIN tokens : tokens[i] \in Closers}
Matches(o, c) == tokens[o] = IF tokens[c] = ")" THEN "(" ELSE "["

\* where each list ends, the end of the text for one that does not
Endings == [Lists -> Closing \cup {Len(tokens) + 1}]

\* a closing token ends the nearest open list of its kind and all lists inside it, and
\* all open lists if none is of its kind: all but those with an open list of its kind
\* inside
Ends(e) ==
    \A o \in Lists :
        /\ o < e[o]
        /\ \A c \in Closing : o < c /\ c <= e[o] =>
              (c = e[o] <=> ~ \E p \in Lists : o < p /\ p < c /\ c <= e[p] /\ Matches(p, c))

\* brackets that match: each list has a closing token of its kind, each closing token a
\* list, and lists lie inside each other or apart
Pairs(e) ==
    /\ \A o \in Lists : o < e[o] /\ e[o] \in Closing /\ Matches(o, e[o])
    /\ \A c \in Closing : \E o \in Lists : e[o] = c
    /\ \A o, p \in Lists : o < p /\ p < e[o] => e[p] < e[o]

\* a closing token with no open list of its kind is an atom
Stray(e, c) == c \in Closing /\ \A o \in Lists : o < c /\ c <= e[o] => ~Matches(o, c)
Node(e, i) == i \in DOMAIN tokens /\ (i \in Closing => Stray(e, i))

\* the nodes in list o and in no list inside it, 0 for the program; the operand of "@"
\* is in its node
Encloses(e, o, i) == o < i /\ (o \in Lists => i < e[o])
Members(e, o) ==
    {i \in DOMAIN tokens :
        /\ Node(e, i) /\ At(i - 1) # "@" /\ Encloses(e, o, i)
        /\ \A p \in Lists : o < p => ~Encloses(e, p, i)}

\* seq lists the numbers of S from the smallest to the largest
InTextOrder(seq, S) ==
    /\ {seq[j] : j \in DOMAIN seq} = S
    /\ \A j, k \in DOMAIN seq : j < k => seq[j] < seq[k]

\* node i is what is written there; a list's first member is its operator
Right(e, i) ==
    CASE tokens[i] = "@" -> made[i] = Deref(i + 1)
      [] tokens[i] = "[" -> made[i].k = "array" /\ InTextOrder(made[i].items, Members(e, i))
      [] tokens[i] = "(" ->
            /\ made[i].k = "sexpr" /\ InTextOrder(made[i].args, Members(e, i) \ {i + 1})
            /\ made[i].op = IF Members(e, i) = {} THEN ""
                            ELSE IF tokens[i + 1] \in Symbols THEN tokens[i + 1] ELSE Unknown
      [] OTHER -> made[i] = AtomNode(tokens[i])

ReadAs(e) ==
    IF \E o \in Lists : e[o] = Len(tokens) + 1 THEN reading = "crashed"
    ELSE /\ reading = "parsed"
         /\ InTextOrder(tree, Members(e, 0))
         /\ \A i \in DOMAIN tokens : Node(e, i) => Right(e, i)

\* Whatever is written with matching brackets is read as exactly that: every token but
\* the brackets is in the list it stands in, in the order of the text.  Brackets that do
\* not match have the effect that Ends describes, and the parser crashes exactly when the
\* text ends inside a list: a forgotten bracket never reorders or loses what stands after
\* the list it should have ended (cgc-main.fl:428-624).
Regroups ==
    reading \in {"parsed", "crashed"} /\ Plain =>
        /\ \E e \in Endings : Ends(e) /\ ReadAs(e)
        /\ \A e \in Endings : Pairs(e) => ReadAs(e)
=============================================================================
