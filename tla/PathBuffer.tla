------------------------------ MODULE PathBuffer ------------------------------
(***************************************************************************)
(* The two readers of a movement packet's bytes: read and parse_entries of *)
(* src/src/packet/handlers/waypoints.rs, which take every entry of the     *)
(* buffer, and PathPacket::parse of src/src/emulator/packet.rs, which      *)
(* takes the first.  The game writes two bytes of flags, the unit, a       *)
(* byte more when the flags say so, a bitmap that tells which coordinates  *)
(* are one-byte changes, and the coordinates.                              *)
(*                                                                         *)
(* A byte has Bits bits.  The unit's id and speed are one byte together,   *)
(* and the place a coordinate stands for on the map is left out.           *)
(***************************************************************************)
EXTENDS Integers, FiniteSetsExt, SequencesExt

CONSTANTS
  Bits,                  \* of a byte, 8; an even number
  GroupUnits,            \* units
  FirstPlaces, Shifts,   \* where first points are, and the way to the next: pairs
  OnMap,                 \* coordinates that are on the map
  MAX_ENTRIES, MAX_BUFFER,
  MaxPoints, MaxEntries  \* bounds

Base == 2 ^ Bits
Word == Base * Base

ASSUME BufferAssumption ==
  /\ Bits \in {4, 8} /\ GroupUnits \subseteq 0 .. Base - 1
  /\ FirstPlaces \subseteq (0 .. Word - 1) \X (0 .. Word - 1)
  /\ Shifts \subseteq Int \X Int /\ OnMap \subseteq 0 .. Word - 1
  /\ MaxPoints \in Nat /\ MaxPoints < Base \div 2 /\ MaxEntries \in Nat
  /\ MAX_ENTRIES \in Nat /\ MAX_BUFFER \in Nat

VARIABLES
  group,     \* the entries the game means: unit, extra and points
  packet,    \* the buffer and the count the object holds, <<>> before
  read_group, read_path    \* what the readers make of it

bufferPart == <<group, packet, read_group, read_path>>

Failed == <<>>     \* None, or an error

BufferInit == group = <<>> /\ packet = <<>> /\ read_group = Failed /\ read_path = Failed

-----------------------------------------------------------------------------
(* The game's writer                                                       *)

Signed(byte) == IF byte < Base \div 2 THEN byte ELSE byte - Base

Coordinate(c) == IF c.delta THEN <<c.by % Base>> ELSE <<c.at % Base, c.at \div Base>>

BytesOf(entry) ==
  LET n == Len(entry.points)
      flat == FlattenSeq([i \in 1 .. n |-> <<entry.points[i].x, entry.points[i].z>>])
      Set(j) == {i \in 0 .. 2 * n - 3 : i \div Bits = j /\ flat[i + 3].delta}
  IN  <<(2 * n) + entry.extra, 2, entry.unit>> \o [i \in 1 .. entry.extra |-> Base - 1]
      \o [j \in 1 .. (2 * n + Bits - 3) \div Bits |-> MapThenSumSet(LAMBDA i : 2 ^ (i % Bits), Set(j - 1))]
      \o FlattenSeq([i \in 1 .. 2 * n |-> Coordinate(flat[i])])

GroupBytes(entries) == FlattenSeq([i \in DOMAIN entries |-> BytesOf(entries[i])])

NewEntry(unit, extra) ==
  /\ packet = <<>> /\ Len(group) < MaxEntries
  /\ group' = Append(group, [unit |-> unit, extra |-> extra, points |-> <<>>])
  /\ UNCHANGED <<packet, read_group, read_path>>

\* A coordinate: where it is, the change that brought it there, and whether the
\* change is what is written.
Shifted(was, by, delta) == [at |-> (was + by) % Word, by |-> by, delta |-> delta]

NewPoint(x, z) ==
  /\ packet = <<>> /\ group # <<>>
  /\ FoldFunction(LAMBDA e, n : n + Len(e.points), 0, group) < MaxPoints
  /\ group' = [group EXCEPT ![Len(group)].points = Append(@, [x |-> x, z |-> z])]
  /\ UNCHANGED <<packet, read_group, read_path>>

FirstPoint(p) ==
  /\ group # <<>> /\ Last(group).points = <<>>
  /\ NewPoint([at |-> p[1], by |-> 0, delta |-> FALSE], [at |-> p[2], by |-> 0, delta |-> FALSE])

IsByte(by) == by \in -(Base \div 2) .. Base \div 2 - 1

NextPoint(by, how) ==
  /\ group # <<>> /\ Last(group).points # <<>>
  /\ (how.x => IsByte(by[1])) /\ (how.z => IsByte(by[2]))
  /\ LET p == Last(Last(group).points)
     IN  NewPoint(Shifted(p.x.at, by[1], how.x), Shifted(p.z.at, by[2], how.z))

-----------------------------------------------------------------------------
(* The readers.  Reading past the end fails; as a reader only moves on, it *)
(* has if it stands past the end when it is done.                          *)

Byte(buf, at) == IF at < Len(buf) THEN buf[at + 1] ELSE 0

Mutant_BitmapBytes_short(n) == IF n > 1 THEN (n - 1) \div (Bits \div 2) ELSE 0

\* Two bits for every point after the first.
BitmapBytes(n) == IF n > 1 THEN (n - 2) \div (Bits \div 2) + 1 ELSE 0

\* n points from `start` on: each coordinate a word or, where its bit is set, a
\* byte that is added to the one before.
Points(buf, n, start, bitmap, Delta(_)) ==
  LET Bit(i) == (Byte(buf, bitmap + i \div Bits) \div 2 ^ (i % Bits)) % 2 = 1
      Next(was, at, delta) ==
        IF delta THEN (was + Delta(Byte(buf, at))) % Word ELSE Byte(buf, at) + Base * Byte(buf, at + 1)
      Width(delta) == IF delta THEN 1 ELSE 2
      walk[i \in 0 .. n] ==
        IF i = 0 THEN [at |-> start, points |-> << <<0, 0>> >>]
        ELSE LET p  == walk[i - 1]
                 dx == i > 1 /\ Bit(2 * i - 4)
                 dz == i > 1 /\ Bit(2 * i - 3)
                 zAt == p.at + Width(dx)
             IN  [at |-> zAt + Width(dz),
                  points |-> Append(p.points, <<Next(Last(p.points)[1], p.at, dx),
                                                Next(Last(p.points)[2], zAt, dz)>>)]
  IN  [at |-> walk[n].at, points |-> Tail(walk[n].points)]

\* The count of points and the extra byte are in the low byte of the flags.
Entry(buf, at, Delta(_)) ==
  LET low    == Byte(buf, at)
      n      == low \div 2
      bitmap == at + 3 + (low % 2)
      p      == Points(buf, n, bitmap + BitmapBytes(n), bitmap, Delta)
  IN  [at |-> p.at, path |-> [unit |-> Byte(buf, at + 2), points |-> p.points]]

\* Exactly `count` entries, which fill the buffer.
parse_entries(buf, count) ==
  LET done[i \in 0 .. count] ==
        IF i = 0 THEN [at |-> 0, paths |-> <<>>]
        ELSE LET e == Entry(buf, done[i - 1].at, Signed)
             IN  [at |-> e.at, paths |-> Append(done[i - 1].paths, e.path)]
  IN  IF done[count].at = Len(buf) THEN done[count].paths ELSE Failed

read(buf, count) ==
  LET paths == parse_entries(buf, count)
  IN  IF count = 0 \/ count > MAX_ENTRIES \/ buf = <<>> \/ Len(buf) > MAX_BUFFER THEN Failed
      ELSE IF \A i \in DOMAIN paths : \A k \in DOMAIN paths[i].points :
                paths[i].points[k][1] \in OnMap /\ paths[i].points[k][2] \in OnMap
      THEN paths ELSE Failed

\* PathPacket::parse: the first entry, which must have a point; a byte is added
\* as it is.
parse(buf) ==
  LET e == Entry(buf, 0, LAMBDA byte : byte)
  IN  IF Len(buf) < 1 \/ Byte(buf, 0) < 2 \/ e.at > Len(buf) THEN Failed ELSE <<e.path>>

Deliver(count, cut) ==
  /\ packet = <<>> /\ group # <<>>
  /\ LET bytes == GroupBytes(group)
         buf   == SubSeq(bytes, 1, Len(bytes) - cut)
     IN  /\ cut <= Len(bytes)
         /\ packet' = [buf |-> buf, count |-> count]
         /\ read_group' = read(buf, count) /\ read_path' = parse(buf)
  /\ UNCHANGED group

BufferNext ==
  \/ \E unit \in GroupUnits, extra \in {0, 1} : NewEntry(unit, extra)
  \/ \E p \in FirstPlaces : FirstPoint(p)
  \/ \E by \in Shifts, how \in [x : BOOLEAN, z : BOOLEAN] : NextPoint(by, how)
  \/ \E count \in 0 .. MaxEntries + 1, cut \in 0 .. 3 : Deliver(count, cut)

BufferSpec == BufferInit /\ [][BufferNext]_bufferPart

-----------------------------------------------------------------------------
\* The path an entry means, and what becomes of it when a change back is taken for
\* one forward: the coordinate is a byte's worth too far until it is given whole.
Meant(entry) ==
  [unit |-> entry.unit,
   points |-> [i \in DOMAIN entry.points |-> <<entry.points[i].x.at, entry.points[i].z.at>>]]

Astray(entry) ==
  LET n == Len(entry.points)
      Off(i, c) == Base * Cardinality({k \in 2 .. i :
                      entry.points[k][c].by < 0 /\ \A m \in k .. i : entry.points[m][c].delta})
  IN  [unit |-> entry.unit,
       points |-> [i \in 1 .. n |-> <<(entry.points[i].x.at + Off(i, "x")) % Word,
                                      (entry.points[i].z.at + Off(i, "z")) % Word>>]]

\* From whatever buffer and count: read gives the entries the game meant, or
\* nothing if the count is not theirs, bytes are missing or left over or a point
\* is off the map or there are too many; parse gives the first of them with every change back taken for
\* one forward, or nothing if it is cut or has no point (waypoints.rs:26-34).
ReadersAgree ==
  packet # <<>> =>
    LET first == SubSeq(group, 1, packet.count)
        points == UNION {ToSet(Meant(e).points) : e \in ToSet(first)}
        size == Len(BytesOf(group[1]))
    IN  /\ read_group = (IF /\ packet.count \in 1 .. Len(group) /\ packet.count <= MAX_ENTRIES
                            /\ Len(packet.buf) <= MAX_BUFFER /\ packet.buf = GroupBytes(first)
                            /\ \A p \in points : p[1] \in OnMap /\ p[2] \in OnMap
                         THEN [i \in DOMAIN first |-> Meant(first[i])] ELSE Failed)
        /\ read_path = (IF size <= Len(packet.buf) /\ group[1].points # <<>>
                        THEN <<Astray(group[1])>> ELSE Failed)
=============================================================================
