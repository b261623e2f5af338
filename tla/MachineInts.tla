---------------------------- MODULE MachineInts ----------------------------
(***************************************************************************)
(* The integers of LLVM: an integer of w bits is a number of 0..2^w - 1,   *)
(* whose sign, if it has one, is its first bit.                            *)
(***************************************************************************)
EXTENDS Integers

Signed(bits, n) == IF n >= 2^(bits - 1) THEN n - 2^bits ELSE n

\* The bits of a number of eight bits, the lowest first, and back.
Digits(n) ==
  << n % 2, (n \div 2) % 2, (n \div 4) % 2, (n \div 8) % 2,
     (n \div 16) % 2, (n \div 32) % 2, (n \div 64) % 2, (n \div 128) % 2 >>

OfDigits(d) ==
  d[1] + 2 * d[2] + 4 * d[3] + 8 * d[4] + 16 * d[5] + 32 * d[6] + 64 * d[7] + 128 * d[8]

\* Bitwise operations, on eight bits.
And(m, n) == OfDigits([i \in 1..8 |-> Digits(m)[i] * Digits(n)[i]])
Xor(m, n) == OfDigits([i \in 1..8 |-> (Digits(m)[i] + Digits(n)[i]) % 2])

\* "not" is xor with -1.
Arith(kind, bits, m, n) ==
  CASE kind = "add" -> (m + n) % 2^bits
    [] kind = "sub" -> (m - n) % 2^bits
    [] kind = "mul" -> (m * n) % 2^bits
    [] kind = "and" -> And(m, n)
    [] kind = "xor" -> Xor(m, n)
    [] kind = "not" -> (-1 - m) % 2^bits

ArithKinds == {"add", "sub", "mul", "and", "xor", "not"}

\* The result of an addition or subtraction of signed numbers has another sign.
SignedOverflow(kind, bits, m, n) ==
  LET exact == IF kind = "add" THEN Signed(bits, m) + Signed(bits, n)
               ELSE Signed(bits, m) - Signed(bits, n)
  IN  exact \notin -(2^(bits - 1))..(2^(bits - 1) - 1)
=============================================================================
