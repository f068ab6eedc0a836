---------------------------- MODULE RseExpression ----------------------------
(***************************************************************************)
(* The parser of RSE expressions (core/rse_expression_parser.py), over     *)
(* expressions that are cut into tokens: parentheses, the three operators, *)
(* and primitives such as an RSE, an attribute or "*", each of which       *)
(* stands for the RSEs that it matches.                                    *)
(***************************************************************************)
EXTENDS Integers, Sequences, FiniteSets

CONSTANTS
  Rses,
  Matching,   \* external: the RSEs that each primitive matches
  Writable,   \* RSEs whose availability_write is set
  Nothing,    \* no left term, no operator
  Invalid,    \* InvalidRSEExpression is raised
  Blocked     \* RSEWriteBlocked is raised

ASSUME ExpressionAssumption ==
  /\ IsFiniteSet(Rses)
  /\ \A p \in DOMAIN Matching : Matching[p] \subseteq Rses
  /\ (DOMAIN Matching \cup {Nothing}) \cap {"|", "&", "\\", "(", ")"} = {}
  /\ Writable \subseteq Rses
  /\ \A S \in SUBSET Rses : S \notin {Nothing, Invalid, Blocked}

Primitives == DOMAIN Matching
Operators == {"|", "&", "\\"}
Tokens == Primitives \cup Operators \cup {"(", ")"}

Count(s, t, n) == Cardinality({i \in 1 .. n : s[i] = t})

\* The parentheses are counted first.
Balanced(s) ==
  /\ \A n \in 1 .. Len(s) : Count(s, ")", n) <= Count(s, "(", n)
  /\ Count(s, "(", Len(s)) = Count(s, ")", Len(s))

\* The regular expression PATTERN matches all of s: primitives in parentheses,
\* with an operator between two of them.
Opens(t) == t \in Primitives \cup {"("}
Closes(t) == t \in Primitives \cup {")"}
FitsPattern(s) ==
  /\ s # <<>> /\ Opens(s[1]) /\ Closes(s[Len(s)])
  /\ \A i \in 1 .. Len(s) - 1 :
       IF Closes(s[i]) THEN s[i + 1] \in Operators \cup {")"} ELSE Opens(s[i + 1])

Apply(op, left, right) ==
  CASE op = "|" -> left \cup right
    [] op = "&" -> left \cap right
    [] op = "\\" -> left \ right

\* Mutant: the operands of the operator are swapped.
Combine_Swapped(op, left, term) == IF left = Nothing THEN term ELSE Apply(op, term, left)

\* The left term, the operator and a new term become the next left term.
Combine(op, left, term) == IF left = Nothing THEN term ELSE Apply(op, left, term)

\* __extract_term: up to the parenthesis that closes the first one.
ExtractTerm(s) ==
  LET closing == {i \in 1 .. Len(s) : Count(s, "(", i) = Count(s, ")", i)}
  IN SubSeq(s, 2, (CHOOSE i \in closing : \A k \in closing : i <= k) - 1)

\* What the loop of __resolve_term_expression can be left with: an operator comes
\* next after a left term, and a term at the start and after an operator.
\* Anything else raises an exception.
Pending ==
  {x \in Seq(Tokens) \X ((SUBSET Rses) \cup {Nothing}) \X (Operators \cup {Nothing}) :
     /\ Balanced(x[1])
     /\ x[2] = Nothing => x[3] = Nothing
     /\ IF x[2] # Nothing /\ x[3] = Nothing
        THEN x[1] = <<>> \/ (x[1][1] \in Operators /\ FitsPattern(Tail(x[1])))
        ELSE FitsPattern(x[1])}

\* __resolve_term_expression: the loop, with the rest of the expression, the
\* left term and the operator.  A term in parentheses is resolved on its own;
\* a primitive ends before the next token.
Resolve[x \in Pending] ==
  LET s == x[1]
      group == ExtractTerm(s)
      term == IF s[1] = "(" THEN Resolve[<<group, Nothing, Nothing>>] ELSE Matching[s[1]]
      rest == SubSeq(s, IF s[1] = "(" THEN Len(group) + 3 ELSE 2, Len(s))
  IN IF s = <<>> THEN x[2]
     ELSE IF s[1] \in Operators THEN Resolve[<<Tail(s), x[2], s[1]>>]
     ELSE Resolve[<<rest, Combine(x[3], x[2], term), Nothing>>]

\* parse_expression, with the filter for RSEs that can be written to.
ParseExpression(s, writable) ==
  IF ~Balanced(s) \/ ~FitsPattern(s) THEN Invalid
  ELSE LET result == Resolve[<<s, Nothing, Nothing>>]
       IN IF result = {} THEN Invalid
          ELSE IF ~writable THEN result
          ELSE IF result \cap Writable = {} THEN Blocked
          ELSE result \cap Writable

(***************************************************************************)
(* What expressions mean: operators of one rank, applied from the left.    *)
(***************************************************************************)
\* The operators of s outside all parentheses.
TopLevel(s) == {i \in 1 .. Len(s) : s[i] \in Operators /\ Count(s, "(", i) = Count(s, ")", i)}
LastTop(s) == CHOOSE i \in TopLevel(s) : \A k \in TopLevel(s) : k <= i

WellFormed[s \in Seq(Tokens)] ==
  IF TopLevel(s) # {}
  THEN WellFormed[SubSeq(s, 1, LastTop(s) - 1)] /\ WellFormed[SubSeq(s, LastTop(s) + 1, Len(s))]
  ELSE \/ Len(s) = 1 /\ s[1] \in Primitives
       \/ Len(s) > 2 /\ s[1] = "(" /\ s[Len(s)] = ")" /\ WellFormed[SubSeq(s, 2, Len(s) - 1)]

Denotes[s \in Seq(Tokens)] ==
  IF TopLevel(s) # {}
  THEN Apply(s[LastTop(s)], Denotes[SubSeq(s, 1, LastTop(s) - 1)], Denotes[SubSeq(s, LastTop(s) + 1, Len(s))])
  ELSE IF Len(s) <= 1 THEN Matching[s[1]]
  ELSE Denotes[SubSeq(s, 2, Len(s) - 1)]

=============================================================================
