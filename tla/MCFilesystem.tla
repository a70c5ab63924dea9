----------------------------- MODULE MCFilesystem -----------------------------
(***************************************************************************)
(* Requests of every operation, with spans around a proper layout, and     *)
(* responses and credentials around proper ones.  U32 = 2048: a u64 has 22 *)
(* bits, enough for every open flag and every error number.                *)
(***************************************************************************)
EXTENDS Filesystem, Variations

NUL == 0
x == 7
Text == <<x, NUL, x, NUL, 3, 3, 3, 3, 5, NUL>>    \* two paths, a group, data

Plain == [f \in DOMAIN RequestU32 \cup DOMAIN RequestU64 \cup {"offset"} |-> 0]
Key == [opcode |-> 18, generation |-> 2049, sequence |-> 5]
Bare == Key @@ Plain
Proper ==
  [opcode |-> 32, path_offset |-> 48, path_length |-> 2, second_path_offset |-> 50,
   second_path_length |-> 2, groups_offset |-> 52, groups_length |-> 4, data_offset |-> 56,
   data_length |-> 2, umask |-> 23, offset |-> -3, capabilities |-> 4097, mask |-> 9] @@ Bare

Offsets == {0, 47, 48, 49, 50, 52, 54, 56, 57, 58, U64Max - 1}
Lengths == {0, 1, 2, 3, 4, 8, 10, 11}
SpanChanges ==
  [path_offset |-> Offsets, path_length |-> Lengths, second_path_offset |-> Offsets,
   second_path_length |-> Lengths, groups_offset |-> Offsets, groups_length |-> Lengths,
   data_offset |-> Offsets, data_length |-> Lengths]
FieldChanges ==
  [opcode |-> {0, 44, 45}, generation |-> {0}, sequence |-> {0, U64Max}, umask |-> {0, 511, 512},
   uid |-> {U32Max}, offset |-> {0, 2047, -2048, -(U64Max + 1) \div 2, U64Max \div 2},
   flags |-> {U64Max}, client |-> {U32Max}, length |-> {U64Max}]
Requests ==
  {Bare, Proper} \cup ChangeFields(Proper, FieldChanges)
  \cup UNION {ChangeFields(r, SpanChanges) : r \in ChangeFields(Proper, SpanChanges)}

AccessFlags == {0, 1, 2, 3, 64, 512, 513, 576, 2^O_PATH, 2^O_PATH + 512, 2^O_PATH + 66}
Calls == {[opcode |-> op, flags |-> flags, mode |-> mode] @@ Bare :
            op \in 1 .. 45, flags \in AccessFlags, mode \in {0, 1, 2}}

Texts == {<<x, NUL, x, NUL>>, <<x, x, x, NUL>>, <<NUL, NUL, x, NUL>>, <<x, NUL, x, x>>,
          <<x, NUL, NUL, NUL>>}
Paths == {[path_offset |-> 48, path_length |-> n, second_path_offset |-> 48 + n,
           second_path_length |-> 4 - n] @@ Bare : n \in 1 .. 3}

Ask(r, payload) == [kind |-> "request", fields |-> r, payload |-> payload]
Answer(r, payload) == [kind |-> "response", fields |-> r, payload |-> payload]

Done == [result |-> 3, handle |-> 0, service |-> 0, data_length |-> 3] @@ Key
Failed == [result |-> -9, data_length |-> 0] @@ Done
ResponseChanges ==
  [opcode |-> {0, 19, 45}, generation |-> {0, 1, 2050}, sequence |-> {0, 6}, handle |-> {1, U64Max},
   result |-> {-4096, -4095, -2048, -1, 0, 2048, U64Max \div 2}, service |-> {4},
   data_length |-> {0, 2, 3, U64Max - ResponseWords, U64Max}]
Responses == {Done, Failed} \cup ChangeFields(Done, ResponseChanges)
             \cup ChangeFields(Failed, ResponseChanges)

User == [umask |-> 23] @@ [f \in DOMAIN CredentialU32 \cup DOMAIN CredentialU64 |-> 3]
Users == {User} \cup ChangeFields(User, [umask |-> {0, 511, 512}, euid |-> {U32Max},
                                         cap_ambient |-> {0, U64Max}, securebits |-> {0, 8}])

As(reader, m) == [value |-> m, reader |-> reader]
Service == [kind |-> "request"]
Client(request) == [kind |-> "response", request |-> request]
Owner == [kind |-> "credentials"]

MCSources ==
  {As(Service, Ask(r, Text)) : r \in Requests}
  \cup {As(Service, Ask(r, <<>>)) : r \in Calls}
  \cup {As(Service, Ask(r, t)) : r \in Paths, t \in Texts}
  \cup {As(Client(q), Answer(r, p)) :
          q \in {Key, [Key EXCEPT !.generation = 2050]}, r \in Responses, p \in {<<>>, <<1, 2, 3>>}}
  \cup {As(Owner, [kind |-> "credentials", fields |-> u, payload |-> <<>>]) : u \in Users}
  \cup {As(Client(Key), Ask(Proper, Text)), As(Service, Answer(Done, <<1, 2, 3>>))}
MCFragile ==
  {As(Service, Ask(Proper, Text)), As(Service, Ask(Bare, <<>>)), As(Client(Key), Answer(Done, <<1, 2, 3>>)),
   As(Client(Key), Answer(Failed, <<>>)),
   As(Owner, [kind |-> "credentials", fields |-> User, payload |-> <<>>])}
MCNoise == {0, 1, 2, 47, 49, 52, 512, 1024, U32Max}

Init == Transfer!Init(MCSources)
Next == Transfer!Next(MCFragile, MCNoise)
===============================================================================
