--------------------------------- MODULE Tlv8 --------------------------------
(***************************************************************************)
(* The type-length-value payloads of pairing (packages/airplay/src/Tlv8):  *)
(* a list of items, each cut into fragments of at most MaxValueLength      *)
(* octets; the lookups in a decoded list stand in module Suite.             *)
(***************************************************************************)
EXTENDS Integers, SequencesExt

CONSTANTS MaxValueLength,   \* MAX_VALUE_LENGTH, 255 in the source
          Separator         \* TlvType.Separator

ASSUME TlvConstants == MaxValueLength \in Nat \ {0} /\ Separator \in Nat

Truncated == [error |-> "truncated TLV8 payload"]

(* An item of exactly n.MaxValueLength octets ends in an empty fragment. *)
split_Exact(item) ==
  LET count == (Len(item.value) + MaxValueLength - 1) \div MaxValueLength
  IN  [i \in 1..(IF count = 0 THEN 1 ELSE count) |->
         [type  |-> item.type,
          value |-> SubSeq(item.value, (i - 1) * MaxValueLength + 1,
                           IF i * MaxValueLength < Len(item.value)
                           THEN i * MaxValueLength ELSE Len(item.value))]]
split(item) ==
  [i \in 1..(Len(item.value) \div MaxValueLength + 1) |->
     [type  |-> item.type,
      value |-> SubSeq(item.value, (i - 1) * MaxValueLength + 1,
                       IF i * MaxValueLength < Len(item.value)
                       THEN i * MaxValueLength ELSE Len(item.value))]]

(* A fragment continues the item before it when that one's last was full. *)
join(fragments) ==
  FoldLeft(LAMBDA run, f :
             [items |-> IF run.open /\ run.items # <<>> /\ Last(run.items).type = f.type
                        THEN Append(Front(run.items),
                                    [type |-> f.type, value |-> Last(run.items).value \o f.value])
                        ELSE Append(run.items, f),
              open  |-> Len(f.value) = MaxValueLength],
           [items |-> <<>>, open |-> FALSE], fragments).items

write(fragments) ==
  FlattenSeq([i \in DOMAIN fragments |->
                <<fragments[i].type, Len(fragments[i].value)>> \o fragments[i].value])

(* The loop of read: stops where a header or a value no longer fits. *)
RECURSIVE Reading(_, _)
Reading(bytes, items) ==
  IF Len(bytes) < 2 \/ (Len(bytes) >= 2 /\ Len(bytes) < 2 + bytes[2])
  THEN [items |-> items, remaining |-> Len(bytes)]
  ELSE Reading(SubSeq(bytes, 3 + bytes[2], Len(bytes)),
               Append(items, [type |-> bytes[1], value |-> SubSeq(bytes, 3, 2 + bytes[2])]))

read(bytes) ==
  LET end == Reading(bytes, <<>>)
  IN  IF end.remaining = 0 THEN [error |-> "none", items |-> end.items] ELSE Truncated

encodeItems(items) == write(FlattenSeq([i \in DOMAIN items |-> split(items[i])]))

decodeItems(bytes) ==
  LET got == read(bytes)
  IN  IF got.error = "none" THEN [got EXCEPT !.items = join(@)] ELSE got

(* The runs of items between separators: a list of pairings.               *)
groups(items) ==
  SelectSeq(FoldLeft(LAMBDA cut, item :
                       IF item.type = Separator THEN Append(cut, <<>>)
                       ELSE Append(Front(cut), Append(Last(cut), item)),
                     << <<>> >>, items),
            LAMBDA group : group # <<>>)

==============================================================================
