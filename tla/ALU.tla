-------------------------------- MODULE ALU --------------------------------
(***************************************************************************)
(* alu() and the ripple-carry adder of hw_elts.c on words of Bits bits.    *)
(* A move-wide immediate is Bits \div 4 bits wide, as 16 is of 64.         *)
(***************************************************************************)
EXTENDS Integers, FiniteSets, Bitwise

CONSTANT Bits
ASSUME BitsAssumption == Bits \in Nat /\ Bits >= 4 /\ Bits % 4 = 0

Size == 2 ^ Bits
Bit(a, i) == (a \div 2 ^ i) % 2
Invert(a) == Size - 1 - a

\* Carries[i] is the carry into bit i, Carries[Bits] the carry out.
Carries(a, b, cin) ==
    LET c[i \in 0 .. Bits] ==
            IF i = 0 THEN cin
            ELSE IF Bit(a, i - 1) + Bit(b, i - 1) + c[i - 1] >= 2 THEN 1 ELSE 0
    IN c
SumUpTo(a, b, c) ==
    LET s[i \in 0 .. Bits] ==
            IF i = 0 THEN 0
            ELSE s[i - 1] + 2 ^ (i - 1) * ((Bit(a, i - 1) + Bit(b, i - 1) + c[i - 1]) % 2)
    IN s
RippleCarryAdd(a, b, cin) == SumUpTo(a, b, Carries(a, b, cin))[Bits]

ShiftRight(a, n) == a \div 2 ^ n
Negative(a) == Bit(a, Bits - 1) = 1
WideMask == 2 ^ (Bits \div 4) - 1

Val(op, a, b, cond) ==
    CASE op = "PLUS"  -> RippleCarryAdd(a, b, 0)
      [] op = "MINUS" -> RippleCarryAdd(a, Invert(b), 1)
      [] op = "INV"   -> a | Invert(b)
      [] op = "OR"    -> a | b
      [] op = "EOR"   -> a ^^ b
      [] op = "AND"   -> a & b
      [] op = "MOV"   -> a | b
      [] op = "MOVK"  -> (a & Invert(WideMask)) | b
      [] op = "LSL"   -> (a * 2 ^ (b % Bits)) % Size
      [] op = "LSR"   -> ShiftRight(a, b % Bits)
      [] op = "ASR"   -> IF Negative(a)
                         THEN Invert(ShiftRight(Invert(a), b % Bits))
                         ELSE ShiftRight(a, b % Bits)
      [] op = "CSEL"  -> IF cond THEN a ELSE b
      [] op = "CSINV" -> IF cond THEN a ELSE Invert(b)
      [] op = "CSINC" -> IF cond THEN a ELSE RippleCarryAdd(b, 1, 0)
      [] op = "CSNEG" -> IF cond THEN a ELSE RippleCarryAdd(0, Invert(b), 1)
      [] OTHER -> a                              \* PASS_A, CBZ, CBNZ

\* The carry and overflow flags come from the adder's last cell.
FlagBits(op, a, b) ==
    LET val == Val(op, a, b, TRUE)
        c == CASE op = "PLUS" -> Carries(a, b, 0)
               [] op = "MINUS" -> Carries(a, Invert(b), 1)
               [] OTHER -> [i \in 0 .. Bits |-> 0]
    IN [n |-> Negative(val), z |-> val = 0, c |-> c[Bits] = 1, v |-> c[Bits] # c[Bits - 1]]
=============================================================================
