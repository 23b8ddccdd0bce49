-------------------------------- MODULE NetIds --------------------------------
(***************************************************************************)
(* How net ids are written, which src/src/ knows twice: NetIdCodec of      *)
(* emulator/decoder.rs learns it from the game's own reader, byte for      *)
(* byte, and puts ids before a payload by it; first_varint_byte, groups    *)
(* and first_byte_position of explore.rs look for ids in payloads nobody   *)
(* can decode.                                                             *)
(*                                                                         *)
(* An id is written in groups, which take Groups values, the low one       *)
(* first, each as a byte that says whether another follows.  What a byte   *)
(* means to the reader is the patch's secret: any one to one function, or  *)
(* one that goes wrong at a single byte and so is no such reader at all.   *)
(***************************************************************************)
EXTENDS Integers, SequencesExt, FiniteSetsExt

CONSTANTS
  Groups,              \* 2^7
  IdSize, LowSize,     \* 2^32, and 2^24: of what the low bits hold
  MaskSize,            \* 2^30, the bit that is flipped
  NumChampions, TAIL_MAX

RawBytes == 0 .. 2 * Groups - 1
NetIdSpace == 0 .. IdSize - 1

ASSUME NetIdAssumption ==
  /\ Groups \in Nat \ {0, 1} /\ LowSize \in Nat \ {0}
  /\ MaskSize \in Nat \ {0} /\ MaskSize % LowSize = 0 /\ MaskSize % Groups = 0
  /\ IdSize \in Nat \ {0} /\ IdSize % (2 * MaskSize) = 0
  /\ NumChampions \in 1 .. Groups /\ TAIL_MAX \in Nat \ {0}

VARIABLES
  reading,    \* what each byte means to the game's reader
  codec,      \* NetIdCodec: per group the terminal and the continuation byte
  trial,      \* the pass of learn and the byte it is at
  learned     \* "no" before, then "ok" or "error"

codecPart == <<reading, codec, trial, learned>>

Refused == [last |-> FALSE, group |-> Groups]    \* the reader gives up on it
Unset == -1

\* Readers that know every group in both forms, but for a byte that means something else.
Readers ==
  {f \in [RawBytes -> {Refused} \cup [last : BOOLEAN, group : 0 .. Groups - 1]] :
     Cardinality(Range(f)) >= 2 * Groups - 1}

CodecStart ==
  /\ codec = [last |-> [g \in 0 .. Groups - 1 |-> Unset], more |-> [g \in 0 .. Groups - 1 |-> Unset]]
  /\ trial = [last |-> TRUE, byte |-> 0] /\ learned = "no"
CodecInit == reading \in Readers /\ CodecStart

-----------------------------------------------------------------------------
(* The game                                                                *)

FlipBit(v) == IF (v \div MaskSize) % 2 = 1 THEN v - MaskSize ELSE v + MaskSize

\* What the reader makes of bytes: how many it takes and the id it stores; failing
\* at a byte it refuses and at the end of what there is.
Read(bytes) ==
  LET ends == {i \in DOMAIN bytes : reading[bytes[i]].last}
      n == IF ends = {} THEN 0 ELSE Min(ends)
      from[i \in 1 .. n] == reading[bytes[i]].group + IF i = n THEN 0 ELSE Groups * from[i + 1]
      value == from[1] % IdSize
  IN  IF n = 0 \/ \E i \in 1 .. n : reading[bytes[i]] = Refused THEN [used |-> 0, stored |-> 0]
      ELSE [used |-> n, stored |-> IF value % LowSize = 0 THEN value ELSE FlipBit(value)]

-----------------------------------------------------------------------------
(* emulator/decoder.rs                                                     *)

Mask(id) == IF id % LowSize # 0 THEN FlipBit(id) ELSE id

\* A group keeps the first byte that is found for it.
KeptFirst(table, g, b) == IF table[g] = Unset THEN [table EXCEPT ![g] = b] ELSE table

NextTrial == trial' = [trial EXCEPT !.byte = @ + 1]

TryTerminal ==
  /\ learned = "no" /\ trial.last /\ trial.byte \in RawBytes
  /\ LET r == Read(<<trial.byte>>) value == Mask(r.stored)
     IN  codec' = IF r.used = 1 /\ value < Groups
           THEN [codec EXCEPT !.last = KeptFirst(@, value, trial.byte)] ELSE codec
  /\ NextTrial /\ UNCHANGED <<reading, learned>>

\* Between the passes there must be a byte for 0, which then ends the trials.
TerminalsDone ==
  /\ learned = "no" /\ trial.last /\ trial.byte \notin RawBytes
  /\ IF codec.last[0] = Unset THEN learned' = "error" /\ UNCHANGED trial
     ELSE trial' = [last |-> FALSE, byte |-> 0] /\ UNCHANGED learned
  /\ UNCHANGED <<reading, codec>>

TryContinuation ==
  /\ learned = "no" /\ ~ trial.last /\ trial.byte \in RawBytes
  /\ LET r == Read(<<trial.byte, codec.last[0]>>) value == Mask(r.stored)
     IN  codec' = IF trial.byte \notin Range(codec.last) /\ r.used = 2
           THEN [codec EXCEPT !.more = KeptFirst(@, value % Groups, trial.byte)] ELSE codec
  /\ NextTrial /\ UNCHANGED <<reading, learned>>

Learned ==
  /\ learned = "no" /\ ~ trial.last /\ trial.byte \notin RawBytes
  /\ learned' = IF Unset \in Range(codec.last) \cup Range(codec.more) THEN "error" ELSE "ok"
  /\ UNCHANGED <<reading, codec, trial>>

CodecNext == TryTerminal \/ TerminalsDone \/ TryContinuation \/ Learned

CodecSpec == CodecInit /\ [][CodecNext]_codecPart

encode(id) ==
  LET from[v \in NetIdSpace] ==
        IF v < Groups THEN <<codec.last[v]>>
        ELSE <<codec.more[v % Groups]>> \o from[v \div Groups]
  IN  from[Mask(id)]

-----------------------------------------------------------------------------
(* explore.rs                                                              *)

Mutant_first_varint_byte_low_group(id) == Mask(id) % Groups

\* The first group, with a bit that says whether more follow.
first_varint_byte(id) ==
  IF Mask(id) >= Groups THEN Groups + (Mask(id) % Groups) ELSE Mask(id)

groups(id) ==
  LET more[v \in NetIdSpace] == IF v = 0 THEN 0 ELSE 1 + more[v \div Groups]
  IN  1 + more[Mask(id) \div Groups]

NoPosition == 0

\* Counted from the end, with `tail` bytes behind the field; none unless all of the
\* roster's ids take as many bytes.
first_byte_position(ids, tail) ==
  LET n == groups(ids[1])
  IN  IF \A i \in DOMAIN ids : groups(ids[i]) = n THEN -(n + tail) ELSE NoPosition

byte_at(payload, position) == payload[Len(payload) + 1 + position]

\* The champion kills() finds in a payload, 0 if none.
KillerIn(payload, ids, tail, table) ==
  LET position == first_byte_position(ids, tail)
      of == {i \in DOMAIN ids : /\ position # NoPosition
                               /\ byte_at(payload, position) \in DOMAIN table
                               /\ first_varint_byte(ids[i]) = table[byte_at(payload, position)]}
  IN  IF of = {} THEN 0 ELSE Max(of)

-----------------------------------------------------------------------------
\* The payload byte of a plain one.
Cipher(b) == IF b >= Groups THEN codec.more[b - Groups] ELSE codec.last[b]

\* Ids as they are given to champions, one after the other.
Run(first) == [i \in 1 .. NumChampions |-> first + i - 1]
IdRuns == {Run(first) : first \in {f \in NetIdSpace : f + NumChampions - 1 \in NetIdSpace}}

\* What solve_netid_field learns if all goes well: every byte there is.
FullTable ==
  LET plain == {b \in RawBytes : Cipher(b) # Unset}
  IN  [c \in {Cipher(b) : b \in plain} |-> CHOOSE b \in plain : Cipher(b) = c]

\* The codec is learned exactly from a reader that knows every group in both forms,
\* whichever byte is superfluous, and then whatever id it writes the game reads back,
\* to the last byte.  In such a payload, whatever is before the field and with a tail
\* of any length after it, first_byte_position finds the byte that first_varint_byte
\* says, and by the full table kills names the champion.  It declines only a roster
\* whose ids take unlike numbers of bytes, and of the other units whose ids take as
\* many it takes for a champion only one with the champion's first byte
\* (decoder.rs:182-266, explore.rs:923-980, 1164-1190).
IdsAreFound ==
  /\ learned # "no" =>
       (learned = "ok" <=> [last : BOOLEAN, group : 0 .. Groups - 1] \subseteq Range(reading))
  /\ learned = "ok" =>
       /\ \A id \in NetIdSpace : Read(encode(id)) = [used |-> Len(encode(id)), stored |-> id]
       /\ \A ids \in IdRuns, tail \in 0 .. TAIL_MAX - 1 :
            LET position == first_byte_position(ids, tail)
                Payload(id) == <<0, 0>> \o encode(id) \o [k \in 1 .. tail |-> 0]
                Named(id) == KillerIn(Payload(id), ids, tail, FullTable)
            IN  IF position = NoPosition
                THEN \E i \in DOMAIN ids : Len(encode(ids[i])) # Len(encode(ids[1]))
                ELSE /\ \A i \in DOMAIN ids :
                          /\ byte_at(Payload(ids[i]), position) = Cipher(first_varint_byte(ids[i]))
                          /\ Named(ids[i]) = i
                     /\ \A id \in NetIdSpace :
                          Len(encode(id)) = Len(encode(ids[1])) /\ Named(id) # 0 =>
                            first_varint_byte(id) = first_varint_byte(ids[Named(id)])
=============================================================================
