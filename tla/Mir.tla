--------------------------------- MODULE Mir ---------------------------------
(***************************************************************************)
(* The MIR interpreter of riri-mir: the scalar values of value.rs and the  *)
(* machine of interp.rs, which runs a body of basic blocks.                *)
(*                                                                         *)
(* The program keeps every integer zero-extended in a u128 and computes    *)
(* with u128 and i128.  Here the word has WordBits bits, and the narrower  *)
(* kinds stand for 8 to 64: at most half a word, so that the product of    *)
(* two fits.  What rustc hands over (a body) is a record; the names of     *)
(* blocks and locals are numbers, as there.                                *)
(***************************************************************************)
EXTENDS Integers, Sequences, Bitwise

CONSTANTS
    WordBits,         \* 128
    Bodies,           \* what may be interpreted
    StepLimit         \* STEP_LIMIT

ASSUME MirAssumption ==
    /\ WordBits \in Nat \ {0}
    /\ StepLimit \in Nat

VARIABLES
    body,
    locals,
    bb,               \* `block`: the basic block to run next
    steps,
    result            \* Running, a value, or Failed

mirVars == <<body, locals, bb, steps, result>>

(***************************************************************************)
(* Values.                                                                 *)
(***************************************************************************)
Uninit == [tag |-> "uninit"]
Bool(b) == [tag |-> "bool", bool |-> b]
Aggregate(parts) == [tag |-> "aggregate", parts |-> parts]
Failed(why) == [tag |-> "failed", why |-> why]
Running == [tag |-> "running"]

Word == 2 ^ WordBits

\* u128 and i128 of the same bits.
ToWord(i) == i % Word
ToSigned(raw) == IF 2 * raw >= Word THEN raw - Word ELSE raw

\* A kind has `bits` and is `signed` or not.
Truncate(k, raw) == raw % 2 ^ k.bits

\* Mutant: the sign bit is not extended.
AsSignedNot(k, raw) == ToSigned(Truncate(k, raw))

AsSigned(k, raw) ==
    LET r == Truncate(k, raw)
    IN  IF k.bits >= WordBits THEN ToSigned(r)
        ELSE IF 2 * r >= 2 ^ k.bits THEN r - 2 ^ k.bits ELSE r

Fits(k, i) ==
    IF k.signed THEN AsSigned(k, ToWord(i)) = i
    ELSE i >= 0 /\ Truncate(k, ToWord(i)) = ToWord(i)

Integer(raw, k) == [tag |-> "int", raw |-> Truncate(k, raw), kind |-> k]

(***************************************************************************)
(* Operators.  Each gives a value or Failed, and the binary ones whether   *)
(* the operation overflowed.                                               *)
(***************************************************************************)
Overflowing(v, overflowed) == [tag |-> "pair", value |-> v, overflowed |-> overflowed]

Exact(op, x, y) ==
    CASE op = "Add" -> x + y
      [] op = "Sub" -> x - y
      [] op = "Mul" -> x * y

\* `checked`: the unsigned result is the raw one, and the signed decides the
\* overflow of a signed kind.  A kind as wide as the word never overflows.
Checked(k, op, left, right) ==
    LET raw == ToWord(Exact(op, left, right))
        signed == ToSigned(ToWord(Exact(op, AsSigned(k, left), AsSigned(k, right))))
        overflowed == IF k.signed THEN ~Fits(k, signed)
                      ELSE Truncate(k, raw) # raw \/ ~(k.bits >= WordBits \/ raw < 2 ^ k.bits)
    IN  Overflowing(Integer(raw, k), overflowed)

\* Rust divides towards zero.
Magnitude(i) == IF i < 0 THEN -i ELSE i
Quotient(a, b) ==
    LET q == Magnitude(a) \div Magnitude(b) IN IF (a < 0) = (b < 0) THEN q ELSE -q
Remainder(a, b) == a - b * Quotient(a, b)

Compare(op, x, y) ==
    CASE op = "Lt" -> x < y
      [] op = "Le" -> x <= y
      [] op = "Gt" -> x > y
      [] op = "Ge" -> x >= y
      [] op = "Eq" -> x = y
      [] op = "Ne" -> x # y

Bits(op, x, y) ==
    CASE op = "BitAnd" -> x & y
      [] op = "BitOr"  -> x | y
      [] op = "BitXor" -> x ^^ y

IntBinary(op, k, left, right) ==
    LET a == AsSigned(k, left)
        b == AsSigned(k, right)
        x == IF k.signed THEN a ELSE left
        y == IF k.signed THEN b ELSE right
        amount == right % k.bits
    IN  CASE op \in {"Add", "Sub", "Mul"} -> Checked(k, op, left, right)
          [] op \in {"Div", "Rem"} ->
                IF right = 0 THEN Failed("by zero")
                ELSE Overflowing(Integer(ToWord(IF op = "Div" THEN Quotient(x, y)
                                                          ELSE Remainder(x, y)), k), FALSE)
          [] op \in {"BitAnd", "BitOr", "BitXor"} ->
                Overflowing(Integer(Bits(op, left, right), k), FALSE)
          [] op = "Shl" ->
                Overflowing(Integer(ToWord(left * 2 ^ amount), k), right >= k.bits)
          [] op = "Shr" ->
                Overflowing(Integer(ToWord(x \div 2 ^ amount), k), right >= k.bits)
          [] op \in {"Eq", "Ne"} -> Overflowing(Bool(Compare(op, left, right)), FALSE)
          [] op \in {"Lt", "Le", "Gt", "Ge"} -> Overflowing(Bool(Compare(op, x, y)), FALSE)

BoolBinary(op, a, b) ==
    CASE op = "BitAnd" -> Overflowing(Bool(a /\ b), FALSE)
      [] op = "BitOr" -> Overflowing(Bool(a \/ b), FALSE)
      [] op = "Eq" -> Overflowing(Bool(a = b), FALSE)
      [] op \in {"Ne", "BitXor"} -> Overflowing(Bool(a # b), FALSE)
      [] OTHER -> Failed("not defined on bools")

Binary(op, l, r) ==
    IF l.tag = "bool" /\ r.tag = "bool" THEN BoolBinary(op, l.bool, r.bool)
    ELSE IF l.tag # "int" \/ r.tag # "int" THEN Failed("expected an integer")
    ELSE IF op \notin {"Shl", "Shr"} /\ l.kind # r.kind THEN Failed("mismatched operand types")
    ELSE IntBinary(op, l.kind, l.raw, r.raw)

Unary(op, v) ==
    CASE v.tag = "int" /\ op = "Not" -> Integer(Word - 1 - v.raw, v.kind)
      [] v.tag = "int" /\ op = "Neg" -> Integer(ToWord(-v.raw), v.kind)
      [] v.tag = "bool" /\ op = "Not" -> Bool(~v.bool)
      [] OTHER -> Failed("cannot negate")

Cast(v, to) ==
    CASE v.tag = "bool" -> Integer(IF v.bool THEN 1 ELSE 0, to)
      [] v.tag = "int" -> Integer(IF v.kind.signed THEN ToWord(AsSigned(v.kind, v.raw)) ELSE v.raw, to)
      [] OTHER -> Failed("cannot cast")

(***************************************************************************)
(* Places, operands and right-hand sides.  A place is a local and a path   *)
(* of field numbers.                                                       *)
(***************************************************************************)
IsFailed(v) == v.tag = "failed"

Field(v, i) ==
    IF IsFailed(v) THEN v
    ELSE IF v.tag = "aggregate" /\ i \in DOMAIN v.parts THEN v.parts[i] ELSE Failed("no field")

Load(ls, place) ==
    LET at[n \in 0 .. Len(place.path)] ==
            IF n = 0 THEN ls[place.local] ELSE Field(at[n - 1], place.path[n])
        v == at[Len(place.path)]
    IN  IF place.local \notin DOMAIN ls THEN Failed("no local")
        ELSE IF v = Uninit THEN Failed("read of uninitialised") ELSE v

\* The locals after an assignment, or Failed in a record of one.
Store(ls, place, v) ==
    IF IsFailed(v) THEN v
    ELSE IF place.local \notin DOMAIN ls THEN Failed("no local")
    ELSE IF place.path = <<>> THEN [tag |-> "locals", ls |-> [ls EXCEPT ![place.local] = v]]
    ELSE IF Len(place.path) > 1 THEN Failed("projection not interpreted")
    ELSE IF IsFailed(Field(ls[place.local], place.path[1])) THEN Failed("cannot assign")
    ELSE [tag |-> "locals", ls |-> [ls EXCEPT ![place.local].parts[place.path[1]] = v]]

\* A constant operand is a value; the overflow checks are on.
Operand(ls, o) == IF "local" \in DOMAIN o THEN Load(ls, o) ELSE o

Rvalue(ls, rv) ==
    LET x == [i \in DOMAIN rv.args |-> Operand(ls, rv.args[i])]
        bad == {i \in DOMAIN x : IsFailed(x[i])}
        result2 == Binary(rv.op, x[1], x[2])
    IN  IF bad # {} THEN x[CHOOSE i \in bad : \A j \in bad : i <= j]
        ELSE CASE rv.rv = "use" -> x[1]
               [] rv.rv = "unary" -> Unary(rv.op, x[1])
               [] rv.rv = "cast" -> Cast(x[1], rv.to)
               [] rv.rv = "aggregate" -> Aggregate(x)
               [] rv.rv = "binary" ->
                    IF IsFailed(result2) THEN result2 ELSE result2.value
               [] rv.rv = "checked" ->
                    IF IsFailed(result2) THEN result2
                    ELSE Aggregate(<<result2.value, Bool(result2.overflowed)>>)

(***************************************************************************)
(* The machine: one step a basic block.                                    *)
(***************************************************************************)
Blocks == body.blocks

\* The locals after the statements of the block, or the first failure.
After ==
    LET stmts == Blocks[bb].stmts
        run[n \in 0 .. Len(stmts)] ==
            IF n = 0 THEN [tag |-> "locals", ls |-> locals]
            ELSE IF IsFailed(run[n - 1]) THEN run[n - 1]
            ELSE LET ls == run[n - 1].ls
                 IN  Store(ls, stmts[n].place, Rvalue(ls, stmts[n].rvalue))
    IN  run[Len(stmts)]

Count == steps' = steps + 1 /\ UNCHANGED body

GiveUp ==
    /\ result = Running /\ Count
    /\ steps >= StepLimit
    /\ result' = Failed("gave up")
    /\ UNCHANGED <<locals, bb>>

JumpNowhere ==
    /\ result = Running /\ Count
    /\ steps < StepLimit
    /\ bb \notin DOMAIN Blocks
    /\ result' = Failed("no such block")
    /\ UNCHANGED <<locals, bb>>

InBlock == result = Running /\ steps < StepLimit /\ bb \in DOMAIN Blocks /\ Count

StatementFails ==
    /\ InBlock
    /\ IsFailed(After)
    /\ result' = After
    /\ UNCHANGED <<locals, bb>>

\* The statements succeed and the block ends in a terminator of this kind.
Terminates(kind) ==
    /\ InBlock
    /\ ~IsFailed(After)
    /\ Blocks[bb].term.kind = kind
    /\ locals' = After.ls

Goto ==
    /\ Terminates("goto")
    /\ bb' = Blocks[bb].term.target
    /\ UNCHANGED result

\* Whether or not anything was stored in local 0.
Return ==
    /\ Terminates("return")
    /\ result' = locals'[0]
    /\ UNCHANGED bb

Discriminant(v) ==
    CASE v.tag = "bool" -> IF v.bool THEN 1 ELSE 0
      [] v.tag = "int" -> v.raw
      [] OTHER -> -1

\* Mutant: the last arm is taken when none matches.
TargetLastArm(term, d) ==
    IF d \in DOMAIN term.arms THEN term.arms[d]
    ELSE term.arms[CHOOSE a \in DOMAIN term.arms : \A c \in DOMAIN term.arms : c <= a]

Target(term, d) == IF d \in DOMAIN term.arms THEN term.arms[d] ELSE term.otherwise

SwitchInt ==
    /\ Terminates("switch")
    /\ LET v == Operand(locals', Blocks[bb].term.discr)
           d == Discriminant(v)
       IN  IF IsFailed(v) THEN result' = v /\ UNCHANGED bb
           ELSE IF d < 0 THEN result' = Failed("cannot switch") /\ UNCHANGED bb
           ELSE bb' = Target(Blocks[bb].term, d) /\ UNCHANGED result

Assert ==
    /\ Terminates("assert")
    /\ LET term == Blocks[bb].term
           v == Operand(locals', term.cond)
       IN  IF IsFailed(v) THEN result' = v /\ UNCHANGED bb
           ELSE IF v.tag # "bool" THEN result' = Failed("expected a bool") /\ UNCHANGED bb
           ELSE IF v.bool # term.expected THEN result' = Failed(term.msg) /\ UNCHANGED bb
           ELSE bb' = term.target /\ UNCHANGED result

\* Calls, `unreachable` and the other terminators.
NotInterpreted ==
    /\ Terminates("other")
    /\ result' = Failed("not interpreted")
    /\ UNCHANGED bb

MirInit ==
    /\ body \in Bodies
    /\ locals = [l \in 0 .. body.locals - 1 |-> Uninit]
    /\ bb = 0
    /\ steps = 0
    /\ result = Running

MirNext ==
    \/ GiveUp \/ JumpNowhere \/ StatementFails
    \/ Goto \/ Return \/ SwitchInt \/ Assert \/ NotInterpreted

(***************************************************************************)
(* The reference: arithmetic on the integers.                              *)
(***************************************************************************)
Meaning(v) ==
    IF v.kind.signed /\ v.raw >= 2 ^ (v.kind.bits - 1) THEN v.raw - 2 ^ v.kind.bits ELSE v.raw

InRange(k, i) ==
    IF k.signed THEN -(2 ^ (k.bits - 1)) <= i /\ i < 2 ^ (k.bits - 1) ELSE 0 <= i /\ i < 2 ^ k.bits

BitOf(raw, n) == (raw \div 2 ^ n) % 2

MeansBits(op, v, l, r) ==
    \A n \in 0 .. l.kind.bits - 1 :
        BitOf(v.raw, n) = LET s == BitOf(l.raw, n) + BitOf(r.raw, n)
                          IN  CASE op = "BitAnd" -> s \div 2
                                [] op = "BitOr" -> (s + 1) \div 2
                                [] op = "BitXor" -> s % 2

\* What the result of one operation of two integers must be, where `wrapped`
\* is the value and `overflowed` the flag.
MeansBinary(op, wrapped, overflowed, l, r) ==
    LET k == l.kind
        x == Meaning(l)
        y == Meaning(r)
    IN  CASE op \in {"Add", "Sub", "Mul"} ->
                /\ (Meaning(wrapped) - Exact(op, x, y)) % 2 ^ k.bits = 0
                /\ overflowed = (k.bits < WordBits /\ ~InRange(k, Exact(op, x, y)))
          [] op = "Div" ->
                LET q == Meaning(wrapped)
                IN  \/ Magnitude(x - q * y) < Magnitude(y) /\ (x - q * y) * x >= 0
                    \/ ~InRange(k, -x) /\ y = -1
          [] op = "Rem" ->
                LET m == Meaning(wrapped)
                IN  Magnitude(m) < Magnitude(y) /\ m * x >= 0 /\ (x - m) % Magnitude(y) = 0
          [] op \in {"BitAnd", "BitOr", "BitXor"} -> MeansBits(op, wrapped, l, r)
          [] op = "Shl" ->
                /\ overflowed = (r.raw >= k.bits)
                /\ (Meaning(wrapped) - x * 2 ^ (r.raw % k.bits)) % 2 ^ k.bits = 0
          [] op = "Shr" ->
                /\ overflowed = (r.raw >= k.bits)
                /\ LET p == 2 ^ (r.raw % k.bits)
                       rest == x - Meaning(wrapped) * p
                   IN  0 <= rest /\ rest < p
          [] OTHER -> wrapped.bool = Compare(op, x, y)

\* Arithmetic is that of the language, for each body of one checked operation:
\* the result is the exact one modulo its width, a division by zero stops the
\* body, and the flag that an Assert looks at is set exactly when the result is
\* out of range, but for kinds of the width of the word (i128 and u128), whose
\* overflow goes unnoticed.
ArithmeticExact ==
    body.about.what = "binary" /\ result.tag \in {"aggregate", "failed"} =>
        LET a == body.about
        IN  IF a.op \in {"Div", "Rem"} /\ a.right.raw = 0 THEN result = Failed("by zero")
            ELSE /\ result.tag = "aggregate"
                 /\ MeansBinary(a.op, result.parts[1], result.parts[2].bool, a.left, a.right)

\* Every body is answered, in the end, with what it means: a value, the
\* overflow that stops it, or that it takes too many steps.
InterpreterAnswers == <>(IF body.about.what = "binary" THEN result # Running
                                                     ELSE result = body.about.answer)
=============================================================================
