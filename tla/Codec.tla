-------------------------------- MODULE Codec --------------------------------
(***************************************************************************)
(* Commands as bytes (libarsdk/src/arsdk_encoder.c, arsdk_decoder.c).  A   *)
(* description is what arsdkgen generates of a command: its three numbers  *)
(* and the types of its arguments.  A float is its bit pattern, a string   *)
(* the sequence of its bytes, none of them 0, and NULL the empty one.      *)
(* What may fail gives a set: of its result, or empty.                     *)
(***************************************************************************)
EXTENDS Integers, SequencesExt

CONSTANT Table      \* g_arsdk_cmd_desc_table: projects of classes of commands

\* enum arsdk_arg_type but strings and binaries: the bytes each takes.
Width == [I8 |-> 1, U8 |-> 1, I16 |-> 2, U16 |-> 2, I32 |-> 4, U32 |-> 4,
          I64 |-> 8, U64 |-> 8, FLOAT |-> 4, DOUBLE |-> 8, ENUM |-> 4]
Signed == {"I8", "I16", "I32", "I64", "ENUM"}
ArgTypes == DOMAIN Width \cup {"STRING", "BINARY"}

Uint16Max == 65535
Descs == UNION {UNION {ToSet(class) : class \in ToSet(project)} : project \in ToSet(Table)}

\* A project's commands have its number, a class' have its own, and no number is
\* another's beside it.
NumberedOnce(project) ==
    \A i \in DOMAIN project :
      /\ project[i] # << >>
      /\ \A j \in DOMAIN project : project[i][1].cls = project[j][1].cls => i = j
      /\ \A k \in DOMAIN project[i] :
           /\ project[i][k].prj = project[1][1].prj
           /\ project[i][k].cls = project[i][1].cls
           /\ \A m \in DOMAIN project[i] : project[i][k].cmd = project[i][m].cmd => k = m

ASSUME TableAssumption ==
    /\ Table \in Seq(Seq(Seq([prj : 0..255, cls : 0..255, cmd : 0..Uint16Max, args : Seq(ArgTypes)])))
    /\ \A i \in DOMAIN Table :
         /\ Table[i] # << >>
         /\ \A j \in DOMAIN Table : Table[i][1][1].prj = Table[j][1][1].prj => i = j
    /\ \A project \in ToSet(Table) : NumberedOnce(project)

-----------------------------------------------------------------------------
\* encoder_write_i8 to encoder_write_f64: n bytes, little endian, two's
\* complement.
Rests(v, n) == LET rest[i \in 0..n] == IF i = 0 THEN v ELSE rest[i - 1] \div 256 IN rest
Fixed(v, n) == [i \in 1..n |-> Rests(v, n)[i - 1] % 256]

\* encoder_write_str, encoder_write_binary, or one of the above.
Written(type, v) ==
    CASE type = "STRING" -> Append(v, 0)
      [] type = "BINARY" -> Fixed(Len(v), 4) \o v
      [] OTHER -> Fixed(v, Width[type])

\* cmd_encv_internal: the numbers, then the arguments, of the types described.
EncodeCmd(desc, argv) ==
    IF \/ Len(argv) # Len(desc.args)
       \/ \E i \in DOMAIN argv : argv[i].type # desc.args[i]
    THEN {}
    ELSE LET upTo[i \in 0..Len(argv)] ==
               IF i = 0 THEN <<desc.prj, desc.cls>> \o Fixed(desc.cmd, 2)
               ELSE upTo[i - 1] \o Written(argv[i].type, argv[i].val)
         IN  {upTo[Len(argv)]}

-----------------------------------------------------------------------------
\* What was read, and how far.
Got(v, off) == {[val |-> v, off |-> off]}

\* decoder_read_i8 to decoder_read_f64.
ReadFixed(type, b, off) ==
    LET n == Width[type]
        top == b[off + n]
        from[i \in 0..(n - 1)] ==
          IF i = 0 THEN (IF type \in Signed /\ top >= 128 THEN top - 256 ELSE top)
          ELSE 256 * from[i - 1] + b[off + n - i]
    IN  IF off + n > Len(b) THEN {} ELSE Got(from[n - 1], off + n)

\* Mutant: the null byte is left for the next argument.
ReadCstrShort(b, off) ==
    LET nulls == {p \in (off + 1)..Len(b) : b[p] = 0}
        end == CHOOSE p \in nulls : \A q \in nulls : p <= q
    IN  IF nulls = {} THEN {} ELSE Got(SubSeq(b, off + 1, end - 1), end - 1)

\* decoder_read_cstr: up to the first null byte.
ReadCstr(b, off) ==
    LET nulls == {p \in (off + 1)..Len(b) : b[p] = 0}
        end == CHOOSE p \in nulls : \A q \in nulls : p <= q
    IN  IF nulls = {} THEN {} ELSE Got(SubSeq(b, off + 1, end - 1), end)

\* decoder_read_binary.
ReadBinary(b, off) ==
    UNION {IF len.off + len.val > Len(b) THEN {}
           ELSE Got(SubSeq(b, len.off + 1, len.off + len.val), len.off + len.val) :
             len \in ReadFixed("U32", b, off)}

ReadArg(type, b, off) ==
    CASE type = "STRING" -> ReadCstr(b, off)
      [] type = "BINARY" -> ReadBinary(b, off)
      [] OTHER -> ReadFixed(type, b, off)

\* The arguments' loop of arsdk_cmd_dec, after the numbers.
DecodeArgs(types, b) ==
    LET upTo[i \in 0..Len(types)] ==
          IF i = 0 THEN Got(<< >>, 4)
          ELSE UNION {UNION {Got(Append(got.val, r.val), r.off) :
                               r \in ReadArg(types[i], b, got.off)} : got \in upTo[i - 1]}
    IN  {got.val : got \in upTo[Len(types)]}

\* arsdk_cmd_dec_header.
DecodeHeader(b) ==
    IF Len(b) < 4 THEN {} ELSE {[prj |-> b[1], cls |-> b[2], cmd |-> b[3] + 256 * b[4]]}

\* arsdk_cmd_dec: of a command that has the numbers of desc.
DecodeCmd(desc, b) ==
    UNION {IF id = [prj |-> desc.prj, cls |-> desc.cls, cmd |-> desc.cmd]
           THEN DecodeArgs(desc.args, b) ELSE {} : id \in DecodeHeader(b)}

\* arsdk_cmd_find_desc: the first project, in it the first class that begins
\* with the numbers, and no other.
FindDesc(id) ==
    LET first(s, Is(_)) == {s[i] : i \in {k \in DOMAIN s :
                                            Is(s[k]) /\ \A j \in 1..(k - 1) : ~Is(s[j])}}
        projects == first(Table, LAMBDA p : p[1][1].prj = id.prj)
        classes == UNION {first(p, LAMBDA c : c[1].cls = id.cls) : p \in projects}
    IN  UNION {first(c, LAMBDA d : d.cmd = id.cmd) : c \in classes}

\* arsdk_cmd_get_values, with room for max values.
GetValues(id, b, max) ==
    UNION {IF Len(d.args) > max THEN {} ELSE DecodeArgs(d.args, b) : d \in FindDesc(id)}

\* A turn of the loop of arsdk_cmd_fmt, at the argument st.at, which the loop over
\* the bytes of a binary has moved.
Format(types, b, st) ==
    LET rs == IF st.at > Len(types) THEN {} ELSE ReadArg(types[st.at], b, st.off)
        r == CHOOSE one \in rs : TRUE
    IN  IF rs = {} THEN st
        ELSE [at |-> IF types[st.at] = "BINARY" THEN Len(r.val) + 2 ELSE st.at + 1,
              off |-> r.off, text |-> Append(st.text, r.val)]

\* arsdk_cmd_fmt: the arguments its text has, in order, up to one it cannot
\* read.  Each takes a byte, so that the loop has no more turns than b has bytes.
Formatted(desc, b) ==
    LET turn[k \in 0..Len(b)] ==
          IF k = 0 THEN [at |-> 1, off |-> 4, text |-> << >>]
          ELSE Format(desc.args, b, turn[k - 1])
    IN  turn[Len(b)].text
=============================================================================
