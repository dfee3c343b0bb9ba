------------------------------ MODULE Protobuf ------------------------------
(***************************************************************************)
(* The wire format that the gateway and the services share.  A message is  *)
(* a record, its schema a set of fields, and its encoding a function from  *)
(* field numbers to values: a field that holds the zero value of its kind  *)
(* is left out, and a reader that misses a field takes the zero value.     *)
(*                                                                         *)
(* A string is any value; Empty is the string of length 0.  A field that   *)
(* holds other messages (kind "messages", or "message" with at most one)   *)
(* carries their schema.                                                   *)
(***************************************************************************)
EXTENDS Integers, Sequences

CONSTANT Empty

Field(num, name, kind) == [num |-> num, name |-> name, kind |-> kind, of |-> {}]
Nested(num, name, kind, fields) == [num |-> num, name |-> name, kind |-> kind, of |-> fields]

Zero(kind) == CASE kind = "int32" -> 0 [] kind = "bool" -> FALSE
                [] kind = "string" -> Empty [] OTHER -> <<>>
WireType(kind) == IF kind \in {"int32", "bool"} THEN "varint" ELSE "length delimited"

Names(fields) == {f.name : f \in fields}
Numbers(fields) == {f.num : f \in fields}
Numbered(fields, n) == CHOOSE f \in fields : f.num = n
Named(fields, s) == CHOOSE f \in fields : f.name = s

\* Messages without messages in them ...
EncodeFlat(fields, msg) ==
  [n \in {k \in Numbers(fields) :
            msg[Numbered(fields, k).name] # Zero(Numbered(fields, k).kind)} |->
     [type |-> WireType(Numbered(fields, n).kind), value |-> msg[Numbered(fields, n).name]]]
DecodeFlat(fields, bytes) ==
  [s \in Names(fields) |->
     LET f == Named(fields, s) IN
       IF f.num \in DOMAIN bytes /\ bytes[f.num].type = WireType(f.kind)
       THEN bytes[f.num].value ELSE Zero(f.kind)]

\* ... and with one level of them.
Inner(fields, s) == Named(fields, s).kind \in {"message", "messages"}
Encode(fields, msg) ==
  EncodeFlat(fields,
    [s \in Names(fields) |->
       IF Inner(fields, s)
       THEN [i \in DOMAIN msg[s] |-> EncodeFlat(Named(fields, s).of, msg[s][i])]
       ELSE msg[s]])
Decode(fields, bytes) ==
  LET msg == DecodeFlat(fields, bytes) IN
    [s \in Names(fields) |->
       IF Inner(fields, s)
       THEN [i \in DOMAIN msg[s] |-> DecodeFlat(Named(fields, s).of, msg[s][i])]
       ELSE msg[s]]

\* A call of a stub: the method's path and the messages it takes and returns.
Method(service, name, in, out) == [path |-> <<service, name>>, in |-> in, out |-> out]

=============================================================================
