---------------------------- MODULE FlatBuffers ----------------------------
(***************************************************************************)
(* The part of the FlatBuffers library the server sends and receives       *)
(* with: the builder, the verifier and the table accessors of              *)
(* Protocol/include/flatbuffers, over a buffer whose scalars are cells.    *)
(*                                                                         *)
(* The builder fills its buffer downwards, so a place is named, as in the  *)
(* code, by its distance from the END of the buffer: the value of size     *)
(* when it was written.  mem maps such a place to the scalar that starts   *)
(* there, <<width, value>>; a place that is not in it holds the zeros of   *)
(* padding.  Readers use addresses from the front: place p is address      *)
(* size - p.                                                               *)
(*                                                                         *)
(* A table type is the sequence of its fields in slot order, records with  *)
(*   name, size (what they take in the table) and kind: a "scalar" with    *)
(* its default, a "struct" of so many 4-byte words, or the offset of a     *)
(* "string", a "table" or a "vector" (of tables), `of' being the fields of *)
(* the table.  A pointer that may be null is <<>> or <<v>>.                *)
(***************************************************************************)
EXTENDS Integers, Sequences, SequencesExt, FiniteSetsExt

CONSTANT InitialSize      \* what a builder reserves first (1024)

ASSUME InitialSizeAssumption == InitialSize \in Nat \ {0}

\* Op(x), with x worked out first: without it, a long message is one deep
\* expression that TLC evaluates from the outside.
Then(x, Op(_)) == CHOOSE y \in {Op(a) : a \in {x}} : TRUE

Absent == <<>>
Present(v) == <<v>>

Voffset(id) == 2 * id + 2

\* reserved is the memory the builder has, start is where the open table
\* began, last the offset that the latest Create or Finish call returned.
NewBuilder ==
    [reserved |-> 0, size |-> 0, minalign |-> 1, mem |-> <<>>, fields |-> {},
     vtables |-> <<>>, start |-> 0, last |-> 0]

PaddingBytes(size, n) == (-size) % n

\* The low end of the memory holds the places of the vtables, then those of
\* the open table's fields.
ScratchSize(b) == 4 * Len(b.vtables) + 8 * Cardinality(b.fields)

\* Growing copies both ends to the ends of the new memory: what is named by
\* its distance from the end keeps its name.
Reallocate(reserved, len) ==
    LET more == reserved + Max({len, IF reserved > 0 THEN reserved \div 2 ELSE InitialSize})
    IN  more + PaddingBytes(more, 8)

\* The memory of a builder that has len bytes free.
EnsureSpace(b, len) ==
    IF len > b.reserved - b.size - ScratchSize(b) THEN Reallocate(b.reserved, len)
    ELSE b.reserved

MakeSpace(b, len) == [b EXCEPT !.reserved = EnsureSpace(b, len), !.size = @ + len]

TrackMinAlign(b, n) == [b EXCEPT !.minalign = Max({@, n})]

Align(b, n) == TrackMinAlign(MakeSpace(b, PaddingBytes(b.size, n)), n)

\* Aligned for what follows len bytes, which are written next.
PreAlign(b, len, n) ==
    IF len = 0 THEN b
    ELSE TrackMinAlign(MakeSpace(b, PaddingBytes(b.size + len, n)), n)

Push(b, n, v) == [MakeSpace(b, n) EXCEPT !.mem = (b.size + n :> <<n, v>>) @@ @]

\* All of it at once, the first at the lowest address.
PushAll(b, n, vs) ==
    [MakeSpace(b, n * Len(vs)) EXCEPT
        !.mem = [p \in {b.size + n * k : k \in DOMAIN vs} |->
                    <<n, vs[Len(vs) + 1 - (p - b.size) \div n]>>] @@ @]

\* Mutant of PushElement: the scalar is put wherever the buffer ends.
PushElementUnaligned(b, n, v) == Push(b, n, v)

PushElement(b, n, v) == Push(Align(b, n), n, v)

ReferTo(b, off) == b.size - off + 4

PushOffset(b, off) == LET a == Align(b, 4) IN PushElement(a, 4, ReferTo(a, off))

TrackField(b, id) ==
    [b EXCEPT !.reserved = EnsureSpace(b, 8),
              !.fields = @ \cup {[at |-> b.size, voffset |-> Voffset(id)]}]

AddElement(b, id, n, v, default) ==
    IF v = default THEN b ELSE TrackField(PushElement(b, n, v), id)

AddOffset(b, id, off) == IF off = 0 THEN b ELSE TrackField(PushOffset(b, off), id)

AddStruct(b, id, v) ==
    IF v = Absent THEN b ELSE TrackField(PushAll(Align(b, 4), 4, v[1]), id)

\* The vtable of the open table: its own size, the table's, then for each
\* slot up to the last field that was stored how far into the table it lies.
VTable(fields, table, start) ==
    LET top == Max({4} \cup {f.voffset + 2 : f \in fields})
    IN  <<top, table - start>>
          \o [k \in 1 .. (top - 4) \div 2 |->
                LET at == {table - f.at : f \in {g \in fields : g.voffset = Voffset(k)}}
                IN  IF at = {} THEN 0 ELSE CHOOSE a \in at : TRUE]

StartTable(b) == [b EXCEPT !.start = b.size]

\* Mutant of SameLayout: only the sizes of the two vtables are compared.
SameSize(known, vt) == known.layout[1] = vt[1]

SameLayout(known, vt) == known.layout = vt

\* A vtable equal to an earlier one is taken back, which leaves its memory
\* reserved, and the earlier one used.
EndTable(b) ==
    LET t == PushElement(b, 4, 0)
        vt == VTable(t.fields, t.size, t.start)
        pushed == [PushAll(t, 2, vt) EXCEPT !.fields = {}]
        same == SelectInSeq(t.vtables, LAMBDA known : SameLayout(known, vt))
        use == IF same > 0 THEN t.vtables[same].at ELSE pushed.size
        end == IF same > 0
               THEN [pushed EXCEPT !.size = t.size, !.mem = t.mem]
               ELSE [pushed EXCEPT !.reserved = EnsureSpace(pushed, 4),
                                   !.vtables = Append(@, [at |-> use, layout |-> vt])]
    IN  [end EXCEPT !.mem[t.size] = <<4, use - t.size>>, !.last = t.size]

\* Pushes the length in front of a string or vector and returns its offset.
EndVector(b, len) == LET e == PushElement(b, 4, len) IN [e EXCEPT !.last = e.size]

CreateString(b, s) ==
    EndVector(PushAll(Push(PreAlign(b, Len(s) + 1, 4), 1, 0), 1, s), Len(s))

CreateVector(b, offs) ==
    EndVector(FoldRight(LAMBDA off, c : PushOffset(c, off), offs,
                        PreAlign(b, 4 * Len(offs), 4)),
              Len(offs))

Identifier == <<80, 84, 80, 75>>

FinishSizePrefixed(b, root) ==
    LET a == TrackMinAlign([b EXCEPT !.vtables = <<>>], 4)
        p == PreAlign(a, 4 + 4 + Len(Identifier), a.minalign)
        r == PushOffset(PushAll(p, 1, Identifier), root)
    IN  PushElement(r, 4, r.size)

(***************************************************************************)
(* What the generated Create<Table> does: strings, vectors and inner       *)
(* tables are made before the table is opened; the fields are then added   *)
(* the largest first and, within a size, the last slot first.              *)
(***************************************************************************)
CreateOrder(T) ==
    SortSeq([id \in DOMAIN T |-> id],
            LAMBDA i, j : T[i].size > T[j].size \/ (T[i].size = T[j].size /\ i > j))

IsPointer(f) == f.kind \in {"string", "table", "vector"}

\* One field into the open table; off is the object a pointer refers to.
AddField(b, T, id, v, off) ==
    CASE T[id].kind = "scalar" -> AddElement(b, id, T[id].size, v, T[id].default)
      [] T[id].kind = "struct" -> AddStruct(b, id, v)
      [] OTHER                 -> AddOffset(b, id, off)

RECURSIVE CreateTable(_, _, _)

\* The object of a pointer field.
CreateObject(b, f, v) ==
    CASE f.kind = "string" -> CreateString(b, v)
      [] f.kind = "table"  -> CreateTable(b, f.of, v)
      [] f.kind = "vector" ->
            LET Made(s, c) == [b |-> c, offs |-> Append(s.offs, c.last)]
                made == FoldLeft(LAMBDA s, e : Then(s, LAMBDA t : Made(t, CreateTable(t.b, f.of, e))),
                                 [b |-> b, offs |-> <<>>], v)
            IN  CreateVector(made.b, made.offs)

\* A builder with the objects of T's pointers, and their offsets slot by slot.
CreateObjects(b, T, v) ==
    LET Object(s, f) ==
            IF ~IsPointer(f) \/ v[f.name] = Absent
            THEN [s EXCEPT !.offs = Append(@, 0)]
            ELSE LET c == CreateObject(s.b, f, v[f.name][1])
                 IN  [b |-> c, offs |-> Append(s.offs, c.last)]
    IN  FoldLeft(LAMBDA s, f : Then(s, LAMBDA t : Object(t, f)),
                 [b |-> b, offs |-> <<>>], T)

CreateTable(b, T, v) ==
    LET Filled(o) == FoldLeft(LAMBDA c, id : AddField(c, T, id, v[T[id].name], o.offs[id]),
                              StartTable(o.b), CreateOrder(T))
    IN  Then(Then(CreateObjects(b, T, v), Filled), EndTable)

(***************************************************************************)
(* Reading: addresses are from the front of the finished buffer.           *)
(***************************************************************************)
At(b, a, n) ==
    LET p == b.size - a
    IN  IF p \in DOMAIN b.mem /\ b.mem[p][1] = n THEN b.mem[p][2] ELSE 0

GetVTable(b, t) == t - At(b, t, 4)

GetOptionalFieldOffset(b, t, id) ==
    LET vt == GetVTable(b, t)
    IN  IF Voffset(id) < At(b, vt, 2) THEN At(b, vt + Voffset(id), 2) ELSE 0

GetField(b, t, id, n, default) ==
    LET o == GetOptionalFieldOffset(b, t, id)
    IN  IF o = 0 THEN default ELSE At(b, t + o, n)

GetStruct(b, t, id, words) ==
    LET o == GetOptionalFieldOffset(b, t, id)
    IN  IF o = 0 THEN Absent
        ELSE Present([w \in 1 .. words |-> At(b, t + o + 4 * (w - 1), 4)])

\* An offset points forward, from where it is stored.
Follow(b, a) == a + At(b, a, 4)

RECURSIVE ReadTable(_, _, _)

\* The object of a pointer field.
ReadObject(b, f, a) ==
    CASE f.kind = "string" -> [i \in 1 .. At(b, a, 4) |-> At(b, a + 3 + i, 1)]
      [] f.kind = "table"  -> ReadTable(b, f.of, a)
      [] f.kind = "vector" -> [i \in 1 .. At(b, a, 4) |-> ReadTable(b, f.of, Follow(b, a + 4 * i))]

GetPointer(b, t, f, id) ==
    LET o == GetOptionalFieldOffset(b, t, id)
    IN  IF o = 0 THEN Absent ELSE Present(ReadObject(b, f, Follow(b, t + o)))

ReadField(b, t, f, id) ==
    CASE f.kind = "scalar" -> GetField(b, t, id, f.size, f.default)
      [] f.kind = "struct" -> GetStruct(b, t, id, f.words)
      [] OTHER             -> GetPointer(b, t, f, id)

\* What the accessors of table type T say of the table at t, field by field.
ReadTable(b, T, t) ==
    [name \in {T[id].name : id \in DOMAIN T} |->
        LET id == CHOOSE i \in DOMAIN T : T[i].name = name IN ReadField(b, t, T[id], id)]

(***************************************************************************)
(* Verifying.  The verifier's limits on depth and on the number of tables, *)
(* 64 and 1000000, are out of reach of a packet that fits the receive      *)
(* buffer, and left out.                                                   *)
(***************************************************************************)
Verify(b, a, n) == n < b.size /\ a >= 0 /\ a <= b.size - n

VerifyAligned(b, a, n) == a % n = 0 /\ Verify(b, a, n)

VerifyOffset(b, a) ==
    /\ VerifyAligned(b, a, 4)
    /\ At(b, a, 4) > 0
    /\ Verify(b, Follow(b, a), 1)

VerifyTableStart(b, t) ==
    /\ VerifyAligned(b, t, 4)
    /\ LET vt == GetVTable(b, t)
       IN  /\ VerifyAligned(b, vt, 2)
           /\ At(b, vt, 2) % 2 = 0
           /\ Verify(b, vt, At(b, vt, 2))

VerifyVectorOrString(b, a, n) ==
    VerifyAligned(b, a, 4) /\ Verify(b, a, 4 + n * At(b, a, 4))

VerifyString(b, a) ==
    LET end == a + 4 + At(b, a, 4)
    IN  VerifyVectorOrString(b, a, 1) /\ Verify(b, end, 1) /\ At(b, end, 1) = 0

RECURSIVE VerifyTable(_, _, _)

VerifyObject(b, f, a) ==
    CASE f.kind = "string" -> VerifyString(b, a)
      [] f.kind = "table"  -> VerifyTable(b, f.of, a)
      [] f.kind = "vector" ->
            /\ VerifyVectorOrString(b, a, 4)
            /\ \A i \in 1 .. At(b, a, 4) : VerifyTable(b, f.of, Follow(b, a + 4 * i))

VerifyField(b, t, f, id) ==
    LET o == GetOptionalFieldOffset(b, t, id)
    IN  \/ o = 0
        \/ CASE f.kind = "scalar" -> VerifyAligned(b, t + o, f.size)
             [] f.kind = "struct" -> (t + o) % 4 = 0 /\ Verify(b, t + o, 4 * f.words)
             [] OTHER             -> /\ VerifyOffset(b, t + o)
                                     /\ VerifyObject(b, f, Follow(b, t + o))

VerifyTable(b, T, t) ==
    VerifyTableStart(b, t) /\ \A id \in DOMAIN T : VerifyField(b, t, T[id], id)

\* The size in front, the identifier, the root offset; the caller verifies
\* the root table, which is at Root(b).
Root(b) == Follow(b, 4)

VerifySizePrefixedBuffer(b) ==
    /\ VerifyAligned(b, 0, 4)
    /\ At(b, 0, 4) + 4 <= b.size
    /\ [i \in 1 .. Len(Identifier) |-> At(b, 7 + i, 1)] = Identifier
    /\ VerifyOffset(b, 4)
=============================================================================
