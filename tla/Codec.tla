-------------------------------- MODULE Codec --------------------------------
(***************************************************************************)
(* How messages and the arguments of remote calls become bytes and are     *)
(* read back (Buffer, Serialization, the code that netpack generates, the  *)
(* argument packs of the client and the C# that it writes for the server). *)
(* Nothing on the wire says what comes next: writer and reader must agree  *)
(* on every bit and on where a byte begins.  Widths are scaled down: a     *)
(* byte has Group + 1 bits, and 2^LengthBits stands for 65536.             *)
(***************************************************************************)
EXTENDS Integers, Sequences, FiniteSets

CONSTANTS
    Group,      \* bits of a number that WriteVarInt puts into one byte: 7
    Groups,     \* bytes that the longest number takes
    LengthBits, \* bits of a length: 16
    MaxFields   \* bound on the fields of a message, or the arguments of a call

ASSUME CodecAssumption == /\ Group \in Nat \ {0}
                          /\ Groups \in Nat \ {0, 1}
                          /\ LengthBits \in 1 .. Group * Groups
                          /\ MaxFields \in Nat

VARIABLES
    phase,      \* "idle", "writing" or "reading"
    form,       \* a "message", or the arguments of a call, by where it goes
    fields,     \* what was written: <<kind, value>>
    bits,       \* the buffer, up to the writer's position
    at,         \* the reader's m_bitPosition
    got,        \* what was read
    inherited,  \* which fields are members that a class has from its parent
    plain       \* nothing was cut off, no text at a NUL, no member inherited (history)

codecVars == <<phase, form, fields, bits, at, got, inherited, plain>>

(* 1 << n, and v >> n.                                                      *)
Power[n \in Nat] == IF n = 0 THEN 1 ELSE 2 * Power[n - 1]
Shifted(v, n) == LET rest[i \in Nat] == IF i = 0 THEN v ELSE rest[i - 1] \div 2
                 IN  rest[n]

Byte  == Group + 1
Limit == Power[LengthBits]
Octet == 0 .. Power[Byte] - 1

(* "fixed": whole bytes at any bit, as floats are in a message and int8 and *)
(* int16 in a call; "float": bytes that begin with a byte, as in a call.    *)
(* Arrays are "repeated" in a message; their elements are bits here.  A     *)
(* double is a float of twice the size, except from the server, whose       *)
(* WriteDouble takes an int32: no function of the client has one.          *)
MessageKind == {"bool", "fixed", "varint", "string", "repeated"}
CallKind    == {"bool", "fixed", "varint", "int", "float", "string", "array"}

(* One text of each length will do; an "int" is in two's complement, a      *)
(* "string" also stands for bytes, a "varint" for names and enums.         *)
Value(kind) ==
    CASE kind = "bool"                  -> {0, 1}
      [] kind = "varint"                -> 0 .. Power[Group * Groups] - 1
      [] kind = "string"                -> {[i \in 1 .. n |-> (i + 3) % Power[Byte]] : n \in 0 .. Limit}
      [] kind \in {"array", "repeated"} -> {[i \in 1 .. n |-> i % 2] : n \in 0 .. Limit}
      [] kind = "set"                   -> {<<>>} \cup [{1} -> {0, 1}] \cup [{1, 2} -> {0, 1}]
      [] OTHER                          -> Octet

CodecTypeOK ==
    /\ phase \in {"idle", "writing", "reading"}
    /\ form \in {"message", "toServer", "toClient"}
    /\ \A i \in DOMAIN fields : fields[i][2] \in Value(fields[i][1])
    /\ bits \in Seq({0, 1})
    /\ at \in Nat
    /\ Len(got) <= Len(fields)
    /\ inherited \subseteq DOMAIN fields
    /\ plain \in BOOLEAN

CodecInit ==
    /\ phase = "idle"
    /\ form = "message"
    /\ fields = <<>>
    /\ bits = <<>>
    /\ at = 0
    /\ got = <<>>
    /\ inherited = {}
    /\ plain = TRUE

-----------------------------------------------------------------------------
(* The lowest n bits of v, and the number that bits are.                   *)
Bits(v, n) == [i \in 1 .. n |-> Shifted(v, i - 1) % 2]
Number(b)  == LET sum[n \in 0 .. Len(b)] ==
                      IF n = 0 THEN 0 ELSE sum[n - 1] + Power[n - 1] * b[n]
              IN  sum[Len(b)]

(* The next full byte, and what a buffer holds from p on, as bytes.         *)
NextByte(p)    == p + ((-p) % Byte)
Padded(b)      == b \o [i \in 1 .. NextByte(Len(b)) - Len(b) |-> 0]
Bytes(b, p, n) == [i \in 1 .. n |-> Number(SubSeq(b, p + (i - 1) * Byte + 1, p + i * Byte))]

(* WriteVarInt: the groups of v, the lowest first, each with a bit that     *)
(* says whether another follows.                                           *)
Size(v) == CHOOSE k \in 1 .. Groups :
               /\ Shifted(v, Group * k) = 0
               /\ k = 1 \/ Shifted(v, Group * (k - 1)) # 0

VarInt(v) ==
    [i \in 1 .. Size(v) * Byte |->
        LET k == (i - 1) \div Byte
            j == (i - 1) % Byte
        IN  IF j < Group THEN Shifted(v, Group * k + j) % 2
            ELSE IF k + 1 < Size(v) THEN 1 ELSE 0]

(* WriteInt32 and WriteInt64, and back: the sign is the lowest bit.         *)
ZigZag(v)   == LET twice == (2 * v) % Power[Byte]
               IN  IF v >= Power[Group] THEN Power[Byte] - 1 - twice ELSE twice
UnZigZag(r) == IF r % 2 = 1 THEN (Power[Byte] - 1 - r) \div 2 + Power[Group] ELSE r \div 2

WriteBytes(b, s) ==
    Padded(b) \o [i \in 1 .. Len(s) * Byte |->
                     Bits(s[(i - 1) \div Byte + 1], Byte)[((i - 1) % Byte) + 1]]

Counted(s) == Len(s) % Limit

WriteString(b, v) == WriteBytes(b \o VarInt(Counted(v)), SubSeq(v, 1, Counted(v)))

(* What Serialization has for a type; a message has its floats as bits.     *)
Primitive(b, kind, v) ==
    CASE kind = "bool"   -> b \o <<v>>
      [] kind = "fixed"  -> b \o Bits(v, Byte)
      [] kind = "varint" -> b \o VarInt(v)
      [] kind = "int"    -> b \o VarInt(ZigZag(v))
      [] kind = "float"  -> WriteBytes(b, <<v>>)
      [] kind = "string" -> WriteString(b, v)

(* GenerateSerializer: all that a repeated field holds, after a count that  *)
(* may be too small for it.                                                *)
Serialized(b, kind, v) ==
    CASE kind = "repeated" -> b \o VarInt(Counted(v)) \o v
      [] kind = "set"      -> b \o v
      [] OTHER             -> Primitive(b, kind, v)

(* The packs of the client, and what EmitWrite has the server do: what an   *)
(* array holds past its length is left out.                                *)
Packed(b, kind, v) ==
    IF kind = "array" THEN b \o Bits(Counted(v), LengthBits) \o SubSeq(v, 1, Counted(v))
                      ELSE Primitive(b, kind, v)

(* ClassArgumentPack takes the props of the class itself; the C# has all    *)
(* that GetProperties knows, those of the parent too, in both directions.  *)
PropsPacked(b, kind, v, own) == IF own THEN Packed(b, kind, v) ELSE b

(* BufferScriptInstance, through which the server's scripts use the buffer: *)
(* texts are C strings.                                                    *)
HasNul(v)  == \E i \in DOMAIN v : v[i] = 0
CString(v) == IF HasNul(v) THEN SubSeq(v, 1, (CHOOSE i \in DOMAIN v :
                                   v[i] = 0 /\ \A j \in 1 .. i - 1 : v[j] # 0) - 1)
              ELSE v

InstanceWrites(b, kind, v) == Primitive(b, kind, IF kind = "string" THEN CString(v) ELSE v)

EmitWrite(b, kind, v) ==
    LET length == Counted(v)
    IN  IF kind = "array"
        THEN b \o Bits(length, LengthBits) \o [i \in 1 .. length |-> v[i]]
        ELSE InstanceWrites(b, kind, v)

-----------------------------------------------------------------------------
(* ReadBits: zero, and nothing is taken, if the bytes end before.           *)
ReadBits(p, n) ==
    IF p + n <= Len(bits) THEN [value |-> Number(SubSeq(bits, p + 1, p + n)), to |-> p + n]
                          ELSE [value |-> 0, to |-> p]

(* A group and a bit, until there is no other group.                        *)
ReadVarInt(start) ==
    LET read[k \in Nat] ==
            IF k = 0 THEN [value |-> 0, to |-> start, more |-> 1]
            ELSE LET last  == read[k - 1]
                     group == ReadBits(last.to, Group)
                     more  == ReadBits(group.to, 1)
                 IN  [value |-> last.value + Power[Group * (k - 1)] * group.value,
                      to |-> more.to, more |-> more.value]
        all == CHOOSE k \in 1 .. Len(bits) + 1 :
                   read[k].more = 0 /\ \A j \in 1 .. k - 1 : read[j].more # 0
    IN  [value |-> read[all].value, to |-> read[all].to]

(* A slip: the bytes are taken from where the reader stands.                *)
ReadsOn(p, n) ==
    IF p + n * Byte <= Len(bits) THEN [value |-> Bytes(bits, p, n), to |-> p + n * Byte]
                                 ELSE [value |-> [i \in 1 .. n |-> 0], to |-> p]

ReadBytes(p, n) ==
    LET start == NextByte(p)
    IN  IF start + n * Byte <= Len(bits)
        THEN [value |-> Bytes(bits, start, n), to |-> start + n * Byte]
        ELSE [value |-> [i \in 1 .. n |-> 0], to |-> start]

(* Elements that are missing are zero.                                      *)
ReadElements(p, n) ==
    [value |-> [i \in 1 .. n |-> ReadBits(p + i - 1, 1).value], to |-> p + n]

ReadPrimitive(p, kind) ==
    LET number == ReadVarInt(p)
        float  == ReadBytes(p, 1)
    IN  CASE kind = "bool"   -> ReadBits(p, 1)
          [] kind = "fixed"  -> ReadBits(p, Byte)
          [] kind = "varint" -> number
          [] kind = "int"    -> [number EXCEPT !.value = UnZigZag(@ % Power[Byte])]
          [] kind = "float"  -> [float EXCEPT !.value = @[1]]
          [] kind = "string" -> ReadBytes(number.to, number.value % Limit)

(* GenerateDeserializer; a message knows how many singular fields it has.   *)
Deserialized(p, kind, v) ==
    LET count == ReadVarInt(p)
    IN  CASE kind = "repeated" -> ReadElements(count.to, count.value % Limit)
          [] kind = "set"      -> ReadElements(p, Len(v))
          [] OTHER             -> ReadPrimitive(p, kind)

(* The packs of the client, and what EmitRead has the server do.            *)
Unpacked(p, kind) ==
    LET length == ReadBits(p, LengthBits)
    IN  IF kind = "array" THEN ReadElements(length.to, length.value) ELSE ReadPrimitive(p, kind)

Untouched(kind) == IF kind \in {"string", "array"} THEN <<>> ELSE 0

PropsUnpacked(p, kind, own) ==
    IF own THEN Unpacked(p, kind) ELSE [value |-> Untouched(kind), to |-> p]

InstanceReads(p, kind) ==
    LET r == ReadPrimitive(p, kind)
    IN  IF kind = "string" THEN [r EXCEPT !.value = CString(@)] ELSE r

EmitRead(p, kind) ==
    LET length == ReadBits(p, LengthBits)
        read[i \in Nat] ==
            IF i = 0 THEN [value |-> <<>>, to |-> length.to]
            ELSE LET last    == read[i - 1]
                     element == ReadBits(last.to, 1)
                 IN  [value |-> Append(last.value, element.value), to |-> element.to]
    IN  IF kind = "array" THEN read[length.value] ELSE InstanceReads(p, kind)

-----------------------------------------------------------------------------
(* Serializer::Process and serialize: the opcode, of one byte or two, and a *)
(* bit for each singular field: whether it was set.                        *)
Process(opcode, set) ==
    /\ phase = "idle"
    /\ phase' = "writing"
    /\ form' = "message"
    /\ fields' = <<<<"varint", opcode>>, <<"set", set>>>>
    /\ bits' = Serialized(Serialized(bits, "varint", opcode), "set", set)
    /\ UNCHANGED <<at, got, inherited, plain>>

(* RunRpcFunction on the client, or a function of a library on the server.  *)
BeginCall ==
    /\ phase = "idle"
    /\ phase' = "writing"
    /\ form' \in {"toServer", "toClient"}
    /\ UNCHANGED <<fields, bits, at, got, inherited, plain>>

IsSet(i) == fields[2][2][i] = 1
Singular == {i \in DOMAIN fields : fields[i][1] # "repeated"}
Awaited  == form = "message" /\ Cardinality(Singular) < 2 + Cardinality({i \in DOMAIN fields[2][2] : IsSet(i)})

Written(kind, v, own) ==
    CASE form = "message"  -> Serialized(bits, kind, v)
      [] form = "toServer" -> PropsPacked(bits, kind, v, own)
      [] form = "toClient" -> EmitWrite(bits, kind, v)

(* The fields that are set come first, in order, and then the repeated      *)
(* ones; a call has its parameters in order, classes member by member,     *)
(* which a class may have from its parent.                                 *)
Write(kind, v, own) ==
    /\ phase = "writing"
    /\ kind \in IF form = "message" THEN MessageKind ELSE CallKind
    /\ form = "message" => own /\ (kind = "repeated" <=> ~Awaited)
    /\ Len(fields) < IF form = "message" THEN MaxFields + 2 ELSE MaxFields
    /\ bits' = Written(kind, v, own)
    /\ fields' = Append(fields, <<kind, v>>)
    /\ inherited' = IF own THEN inherited ELSE inherited \cup {Len(fields) + 1}
    /\ plain' = /\ plain
                /\ kind \in {"string", "array", "repeated"} => Len(v) < Limit
                /\ form # "message" /\ kind = "string" => ~HasNul(v)
                /\ own
    /\ UNCHANGED <<phase, form, at, got>>

(* The bytes of a call are a field of the RpcCall that carries them.        *)
SendMessage ==
    LET whole  == Padded(bits)
        size   == Len(whole) \div Byte
    IN  /\ phase = "writing"
        /\ ~Awaited
        /\ phase' = "reading"
        /\ IF form # "message"
           THEN /\ bits' = SubSeq(whole, 1, (size % Limit) * Byte)
                /\ plain' = (plain /\ size < Limit)
           ELSE bits' = whole /\ UNCHANGED plain
        /\ UNCHANGED <<form, fields, at, got, inherited>>

(* deserialize, the dispatcher of the scripts, RpcService::Call.            *)
ReadNext ==
    LET kind == fields[Len(got) + 1][1]
        r    == CASE form = "message"  -> Deserialized(at, kind, fields[Len(got) + 1][2])
                  [] form = "toServer" -> EmitRead(at, kind)
                  [] form = "toClient" -> PropsUnpacked(at, kind, Len(got) + 1 \notin inherited)
    IN  /\ phase = "reading"
        /\ Len(got) < Len(fields)
        /\ got' = Append(got, r.value)
        /\ at' = r.to
        /\ UNCHANGED <<phase, form, fields, bits, inherited, plain>>

CodecNext ==
    \/ \E opcode \in {0, Power[Group]}, set \in Value("set") : Process(opcode, set)
    \/ BeginCall
    \/ \E kind \in MessageKind \cup CallKind : \E v \in Value(kind), own \in BOOLEAN : Write(kind, v, own)
    \/ SendMessage
    \/ ReadNext

CodecSpec == CodecInit /\ [][CodecNext]_codecVars

-----------------------------------------------------------------------------
(* What is read is what was written, field by field, wherever in a byte     *)
(* each begins and whichever side wrote it, as long as every text, array    *)
(* and list of arguments is shorter than its length can say, no text goes   *)
(* through the server's scripts with a NUL in it, and no class among the    *)
(* arguments has a parent with members: the client leaves those out, the    *)
(* server's libraries do not.  (RpcPack.cpp, RpcCsharp.cpp,                *)
(* BufferScriptInstance.cpp, netpack/main.cpp, Serialization.cpp,          *)
(* Buffer.cpp.)                                                            *)
CallsArriveWhole ==
    plain => \A i \in DOMAIN got : got[i] = fields[i][2]
=============================================================================
