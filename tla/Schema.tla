-------------------------------- MODULE Schema --------------------------------
(***************************************************************************)
(* The protocol that netpack compiles from the .proto files, and the       *)
(* identifier by which two builds of it recognize each other (HashProtocol,*)
(* kIdentifier).  The files change; the client and the server are built at *)
(* different times; the handshake compares the identifiers.  Messages have *)
(* no oneof but that of Protocol, and no maps, as in code/protocol.        *)
(***************************************************************************)
EXTENDS Integers, Sequences, FiniteSets

CONSTANTS
    File,       \* client.proto and server.proto
    Message,    \* names of messages
    FieldName,
    MaxFields,  \* bound on the fields of a message
    MaxEdits    \* bound on the changes of the files

ASSUME SchemaAssumption == /\ Message # {} /\ IsFiniteSet(Message)
                           /\ FieldName # {}
                           /\ MaxFields \in Nat \ {0}
                           /\ MaxEdits \in Nat

CONSTANT NotBuilt
Side == {"client", "server"}

VARIABLES
    tree,   \* the sources: the two files, and the file they depend on
    built,  \* what the client and the server were built from
    admission,\* of their connection: "none", "admitted" or "refused"
    edits

schemaVars == <<tree, built, admission, edits>>

(* A field is of a primitive type, of a message of the file, or of one of  *)
(* another package (common::Vector3).  Two primitive types of the files    *)
(* can be one type of C++: uint64 goes over the wire in groups of bits,    *)
(* fixed64 as 64 of them, and both are uint64_t.                           *)
Type      == {"uint64", "fixed64", "common"} \cup Message
CppType(t) == IF t = "fixed64" THEN "uint64" ELSE t
Field     == [name : FieldName, type : Type, repeated : BOOLEAN]
NoRepeat(s) == \A i, j \in DOMAIN s : s[i] = s[j] => i = j
FieldList == {l \in UNION {[1 .. n -> Field] : n \in 0 .. MaxFields} :
                \A i, j \in DOMAIN l : l[i].name = l[j].name => i = j}
Orders    == {s \in [1 .. Cardinality(Message) -> Message] :
                \A m \in Message : \E i \in DOMAIN s : s[i] = m}
Sent      == {s \in UNION {[1 .. n -> Message] : n \in 1 .. Cardinality(Message)} : NoRepeat(s)}
Proto     == [order    : Orders,
              fields   : [Message -> FieldList],
              protocol : Sent]

SchemaTypeOK ==
    /\ DOMAIN tree.proto = File
    /\ \A f \in File : /\ tree.proto[f].fields \in [Message -> FieldList]
                       /\ NoRepeat(tree.proto[f].protocol)
    /\ tree.common \in 0 .. MaxEdits
    /\ built["client"] = NotBuilt \/ DOMAIN built["client"].proto = File
    /\ admission \in {"none", "admitted", "refused"}

(* Where to begin does not matter: the files are edited first.             *)
SchemaInit ==
    /\ LET o == CHOOSE o \in Orders : TRUE
           n == CHOOSE n \in FieldName : TRUE
       IN  tree = [proto  |-> [f \in File |->
                      [order    |-> o,
                       fields   |-> [m \in Message |->
                           <<[name |-> n, repeated |-> FALSE,
                              type |-> IF m = o[1] THEN "uint64" ELSE o[1]]>>],
                       protocol |-> o]],
                   common |-> 0]
    /\ built = [s \in Side |-> NotBuilt]
    /\ admission = "none"
    /\ edits = 0

-----------------------------------------------------------------------------
(* Context::Message: singular fields have a bit that says they are set.    *)
Optional(fields) == SelectSeq(fields, LAMBDA f : ~f.repeated)
Repeated(fields) == SelectSeq(fields, LAMBDA f : f.repeated)

(* GenerateSource: the bits and the values of the singular fields, then    *)
(* the others, each the way its type in the file is written.  Reading it   *)
(* back, a field is told by its place alone.                               *)
Layout(fields) == <<Len(Optional(fields)), Optional(fields), Repeated(fields)>>

(* A slip: the types are left to the compiler.                             *)
FieldHashByName(f) == <<f.name, ~f.repeated>>

(* The name and the C++ type of a field, and whether it is singular.       *)
FieldHash(f) == <<CppType(f.type), f.repeated, f.name, ~f.repeated>>

StructHash(m, fields) == <<m, [i \in DOMAIN fields |-> FieldHash(fields[i])]>>

(* Of a file that is imported, only the name is part of it.                *)
HashProtocol(p) ==
    <<"common", [i \in DOMAIN p.order |-> StructHash(p.order[i], p.fields[p.order[i]])],
      [i \in DOMAIN p.protocol |-> <<i - 1, p.protocol[i]>>]>>

(* FNV1a64 of that text, taken to be without collisions.                   *)
Identifier(build, f) == HashProtocol(build.proto[f])

-----------------------------------------------------------------------------
(* The developers change a message, the order of the file, the messages    *)
(* that are sent, or the messages of common.proto.                         *)
Change(t) == /\ edits < MaxEdits
             /\ tree' = t
             /\ edits' = edits + 1
             /\ UNCHANGED <<built, admission>>

EditMessage == \E f \in File, m \in Message, l \in FieldList :
                 Change([tree EXCEPT !.proto[f].fields[m] = l])
EditOrder == \E f \in File, o \in Orders :
               Change([tree EXCEPT !.proto[f].order = o])
EditProtocol == \E f \in File, o \in Sent :
                  Change([tree EXCEPT !.proto[f].protocol = o])
EditCommon == Change([tree EXCEPT !.common = @ + 1])

(* netpack runs on every file, and the build replaces the program.         *)
Build(s) ==
    /\ built' = [built EXCEPT ![s] = tree]
    /\ admission' = "none"
    /\ UNCHANGED <<tree, edits>>

(* Client::SendHandshake, Server::HandleHandshake.                         *)
Handshake ==
    /\ \A s \in Side : built[s] # NotBuilt
    /\ admission = "none"
    /\ admission' = IF \A f \in File :
                    Identifier(built["client"], f) = Identifier(built["server"], f)
               THEN "admitted" ELSE "refused"
    /\ UNCHANGED <<tree, built, edits>>

SchemaNext ==
    \/ EditMessage \/ EditOrder \/ EditProtocol \/ EditCommon
    \/ \E s \in Side : Build(s)
    \/ Handshake

SchemaSpec == SchemaInit /\ [][SchemaNext]_schemaVars

-----------------------------------------------------------------------------
(* The messages that a message is made of.                                 *)
Uses(p, m) == {p.fields[m][i].type : i \in DOMAIN p.fields[m]}
Parts(p, m) ==
    {n \in Message :
       \A S \in SUBSET Message :
         (m \in S /\ \A k \in S : Uses(p, k) \cap Message \subseteq S) => n \in S}

(* The fields as the generated class has them, in the order in which they  *)
(* are read.                                                               *)
Shape(fields) == Layout([i \in DOMAIN fields |->
                           [fields[i] EXCEPT !.type = CppType(@)]])

(* A property of every part of every message that may be sent, if a client *)
(* is admitted: of its fields in the client and in the server.             *)
Admitted(Same(_, _)) ==
    admission = "admitted" =>
        \A f \in File :
            LET c == built["client"].proto[f]
                s == built["server"].proto[f]
            IN  /\ c.protocol = s.protocol
                /\ \A i \in DOMAIN s.protocol : \A n \in Parts(s, s.protocol[i]) :
                     Same(c.fields[n], s.fields[n])

(* A client that the server admits means the same by every number of the   *)
(* protocol and reads the same members in the same places, whatever was    *)
(* changed between the two builds and in whatever order.  How many bits a  *)
(* number takes is not part of it, nor is the layout of common.proto.      *)
(* ("Invalid protocol version!", GameServer.cpp:174; HashProtocol.)        *)
AdmittedAgree == Admitted(LAMBDA c, s : Shape(c) = Shape(s))

(* "Any edit to client.proto/server.proto text (including adding a field)  *)
(* changes this hash automatically" (design/research/research-R6.md:10):   *)
(* who is admitted has every bit where the other side puts it.             *)
AdmittedSameBits == Admitted(LAMBDA c, s : Layout(c) = Layout(s))
=============================================================================
