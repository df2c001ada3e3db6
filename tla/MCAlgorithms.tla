---------------------------- MODULE MCAlgorithms ----------------------------
(***************************************************************************)
(* The two pure parts, the interpreter and the values of the collectives,  *)
(* for TLC: each behaviour is of one of them.  The words have eight bits,  *)
(* the kinds two and four, and some values are of a word.                  *)
(***************************************************************************)
EXTENDS Mir, WarpOps

Kind(bits, signed) == [bits |-> bits, signed |-> signed]
Kinds == {Kind(b, s) : b \in {2, 4}, s \in BOOLEAN}

Values(k) == {Integer(raw, k) : raw \in 0 .. 2 ^ k.bits - 1}

Local(l) == [local |-> l, path |-> <<>>]
Part(l, i) == [local |-> l, path |-> <<i>>]
Set(place, rvalue) == [place |-> place, rvalue |-> rvalue]
Block(stmts, term) == [stmts |-> stmts, term |-> term]

Use(x) == [rv |-> "use", args |-> <<x>>]
Op(rv, op, x, y) == [rv |-> rv, op |-> op, args |-> <<x, y>>]
One(rv, op, x) == [rv |-> rv, op |-> op, args |-> <<x>>]
CastTo(x, k) == [rv |-> "cast", args |-> <<x>>, to |-> k]

Jump(target) == [kind |-> "goto", target |-> target]
Returns == [kind |-> "return"]
Switch(x, arms, otherwise) == [kind |-> "switch", discr |-> x, arms |-> arms, otherwise |-> otherwise]

\* A switch on zero alone.
Arm(target) == [d \in {0} |-> target]

Asserts(x, expected, target) ==
    [kind |-> "assert", cond |-> x, expected |-> expected, msg |-> "overflow", target |-> target]

\* A body whose blocks are those of the sequence, numbered from 0.
Body(about, n, blocks) ==
    [about |-> about, locals |-> n, blocks |-> [i \in 0 .. Len(blocks) - 1 |-> blocks[i + 1]]]

Answer(v) == [what |-> "answer", answer |-> v]

(***************************************************************************)
(* Bodies of one operation.                                                *)
(***************************************************************************)
Ops == {"Add", "Sub", "Mul", "Div", "Rem", "BitAnd", "BitOr", "BitXor", "Shl", "Shr",
        "Eq", "Ne", "Lt", "Le", "Gt", "Ge"}

BinaryBody(op, l, r) ==
    Body([what |-> "binary", op |-> op, left |-> l, right |-> r], 1,
         <<Block(<<Set(Local(0), Op("checked", op, l, r))>>, Returns)>>)

\* Of a kind as wide as the word.
Extremes(k) == {Integer(raw, k) : raw \in {0, 1, 2, 127, 128, 255}}

BinaryBodies ==
    UNION {{BinaryBody(op, l, r) : op \in Ops, l \in Values(k), r \in Values(k)} : k \in Kinds}
    \cup {BinaryBody(op, l, r) : op \in {"Shl", "Shr"}, l \in Values(Kind(2, TRUE)),
                                 r \in Values(Kind(4, FALSE))}
    \cup UNION {{BinaryBody(op, l, r) : op \in Ops, l \in Extremes(k), r \in Extremes(k)} :
                    k \in {Kind(8, s) : s \in BOOLEAN}}

\* A cast keeps the value modulo the width of the new kind.
Casts(from, to) ==
    {Body(Answer(CHOOSE w \in Values(to) : (Meaning(w) - Meaning(v)) % 2 ^ to.bits = 0), 1,
          <<Block(<<Set(Local(0), CastTo(v, to))>>, Returns)>>) : v \in Values(from)}

Negations(k) ==
    {Body(Answer(CHOOSE w \in Values(k) : (Meaning(w) + Meaning(v)) % 2 ^ k.bits = 0), 1,
          <<Block(<<Set(Local(0), One("unary", "Neg", v))>>, Returns)>>) : v \in Values(k)}

Complements(k) ==
    {Body(Answer(CHOOSE w \in Values(k) : w.raw + v.raw = 2 ^ k.bits - 1), 1,
          <<Block(<<Set(Local(0), One("unary", "Not", v))>>, Returns)>>) : v \in Values(k)}

(***************************************************************************)
(* sum_to_ten of fixtures/interp.rs, with n for ten: the sum of 1 .. n, or *)
(* the overflow that stops it, or neither within StepLimit.                *)
(***************************************************************************)
Sum(m) == (m * (m + 1)) \div 2

SumAnswer(k, n) ==
    LET out == {m \in 1 .. n : ~InRange(k, Sum(m))}
        first == CHOOSE m \in out : \A o \in out : m <= o
        taken == IF out = {} THEN 4 * n + 3 ELSE 4 * first
    IN  IF taken > StepLimit THEN Failed("gave up")
        ELSE IF out = {} THEN Integer(Sum(n), k) ELSE Failed("overflow")

SumBody(k, n) ==
    Body(Answer(SumAnswer(k, n)), 5,
         << Block(<<Set(Local(0), Use(Integer(0, k))), Set(Local(1), Use(Integer(0, k)))>>, Jump(1)),
            Block(<<Set(Local(2), Op("binary", "Lt", Local(1), Integer(n, k)))>>,
                  Switch(Local(2), Arm(5), 2)),
            Block(<<Set(Local(3), Op("checked", "Add", Local(1), Integer(1, k)))>>,
                  Asserts(Part(3, 2), FALSE, 3)),
            Block(<<Set(Local(1), Use(Part(3, 1))),
                    Set(Local(4), Op("checked", "Add", Local(0), Local(1)))>>,
                  Asserts(Part(4, 2), FALSE, 4)),
            Block(<<Set(Local(0), Use(Part(4, 1)))>>, Jump(1)),
            Block(<<>>, Returns) >>)

(***************************************************************************)
(* What stops a body, and booleans and aggregates.                         *)
(***************************************************************************)
U == Kind(4, FALSE)

OddBodies ==
    { Body(Answer(Failed("gave up")), 1, <<Block(<<>>, Jump(0))>>),
      Body(Answer(Failed("no such block")), 1, <<Block(<<>>, Jump(7))>>),
      Body(Answer(Failed("not interpreted")), 1, <<Block(<<>>, [kind |-> "other"])>>),
      Body(Answer(Failed("read of uninitialised")), 2,
           <<Block(<<Set(Local(0), Use(Local(1)))>>, Returns)>>),
      Body(Answer(Uninit), 1, <<Block(<<>>, Returns)>>),
      Body(Answer(Failed("mismatched operand types")), 1,
           <<Block(<<Set(Local(0), Op("binary", "Add", Integer(1, U), Integer(1, Kind(2, FALSE))))>>, Returns)>>),
      Body(Answer(Failed("cannot switch")), 1,
           <<Block(<<Set(Local(0), [rv |-> "aggregate", args |-> <<Bool(TRUE)>>])>>,
                   Switch(Local(0), Arm(0), 0))>>),
      Body(Answer(Failed("expected a bool")), 1,
           <<Block(<<>>, Asserts(Integer(1, U), TRUE, 0))>>),
      Body(Answer(Integer(7, U)), 2,
           <<Block(<<Set(Local(1), [rv |-> "aggregate", args |-> <<Integer(5, U), Bool(TRUE)>>]),
                     Set(Part(1, 1), Use(Integer(7, U))),
                     Set(Part(1, 2), One("unary", "Not", Part(1, 2)))>>,
                   Switch(Part(1, 2), Arm(1), 2)),
             Block(<<Set(Local(0), Use(Part(1, 1)))>>, Returns),
             Block(<<>>, Returns)>>),
      Body(Answer(Integer(1, U)), 1,
           <<Block(<<Set(Local(0), Op("binary", "BitXor", Bool(TRUE), Bool(FALSE))),
                     Set(Local(0), CastTo(Local(0), U))>>, Returns)>>) }

NoBody == Body([what |-> "none", answer |-> Running], 0, <<>>)

MCBodies ==
    BinaryBodies
    \cup UNION {Casts(from, to) : from \in Kinds, to \in Kinds}
    \cup UNION {Negations(k) \cup Complements(k) : k \in Kinds}
    \cup {SumBody(Kind(4, s), n) : s \in BOOLEAN, n \in 0 .. 7}
    \cup OddBodies

WarpIdle ==
    /\ idiom = "none" /\ mask = {} /\ given = <<>> /\ value = <<>> /\ delta = 1 /\ problems = {}

MirIdle == body = NoBody /\ locals = <<>> /\ bb = 0 /\ steps = 0 /\ result = Running

Init == \/ MirInit /\ WarpIdle
        \/ WarpInit /\ MirIdle

Next == \/ MirNext /\ UNCHANGED warpVars
        \/ WarpNext /\ UNCHANGED mirVars

\* Both are sequential programs, which go on while they can.
Spec == Init /\ [][Next]_<<mirVars, warpVars>> /\ WF_mirVars(MirNext /\ UNCHANGED warpVars)
=============================================================================
