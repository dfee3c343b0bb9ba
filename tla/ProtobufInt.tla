---------------------------- MODULE ProtobufInt ----------------------------
(* Ids in protobuf messages: int32, where the Go code has int.             *)
EXTENDS Integers

CONSTANT IdBits   \* width of an id in a protobuf message (32 in the code)

Half == 2 ^ (IdBits - 1)

\* The second part is arithmetic, which TLC works out; the provers take ^ for an
\* operator they know nothing about.
ASSUME WidthAssumption == IdBits \in Nat \ {0} /\ Half \in Nat \ {0}

Int32 == -Half .. Half - 1

\* The conversion int32(n): the low bits of n, read as a signed number.
ToInt32(n) == ((n + Half) % (2 * Half)) - Half

=============================================================================
