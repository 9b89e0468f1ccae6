\* An accumulator of up to three digits, one of them behind the point; fractions
\* of two numbers below 8, which are one digit.
SPECIFICATION MCSpec
CONSTANTS
    Bits = 3
    Operands <- MCOperands
    Shifts <- MCShifts
    Precision = 2
    Scale = 1
    MaxRank = 1
    Parts <- MCParts
    Turns = {1, 2, 3}
INVARIANTS ArithmeticExact OrderExact RoundReduces
