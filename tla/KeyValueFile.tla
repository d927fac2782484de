----------------------------- MODULE KeyValueFile -----------------------------
(***************************************************************************)
(* The files with power ids and sample devices (options.c) and the storage *)
(* their pairs go to: two lists of strings, one of keys and one of values, *)
(* that are walked side by side (key_value_storage.c, string_list.c).      *)
(*                                                                         *)
(* A file is a sequence of characters.  fgets() cuts it into pieces, which *)
(* are lines unless a line does not fit into the buffer.                   *)
(***************************************************************************)
EXTENDS Integers, Sequences, Functions

CONSTANT BufSize    \* char buf[100]

ASSUME BufSizeAssumption == BufSize \in Nat /\ BufSize > 1

Blank == " "
NewLine == "\n"

Least(S) == CHOOSE n \in S : \A m \in S : n <= m

(* The place of the first character from place i on that is one of chars,  *)
(* or of the NUL behind the last character.                                *)
Stop(s, i, chars) == Least({ j \in i .. Len(s) : s[j] \in chars } \cup {Len(s) + 1})
Skip(s, i, chars) == Least({ j \in i .. Len(s) : s[j] \notin chars } \cup {Len(s) + 1})

(* What fgets(buf, 100, file) returns of the part of the file it has not    *)
(* read yet, and what it leaves.                                            *)
PieceEnd(rest) ==
  Least({ j \in DOMAIN rest : rest[j] = NewLine \/ j = BufSize - 1 } \cup {Len(rest)})

Piece(rest) == SubSeq(rest, 1, PieceEnd(rest))
Behind(rest) == SubSeq(rest, PieceEnd(rest) + 1, Len(rest))

(* The end of the value is sought at blanks alone. *)
Mutant_PairsIn(piece) ==
  LET key == Skip(piece, 1, {Blank})
      keyEnd == Stop(piece, key, {Blank})
      value == Skip(piece, keyEnd, {Blank})
      valueEnd == Stop(piece, value, {Blank})
  IN IF value > Len(piece) THEN {}
     ELSE {[key |-> SubSeq(piece, key, keyEnd - 1),
            value |-> SubSeq(piece, value, valueEnd - 1)]}

(* The pair of a piece, if it has one: the newline ends a value but neither *)
(* a key nor the blanks in front of the value, so that a key with nothing   *)
(* but blanks behind it gets the empty value.                               *)
PairsIn(piece) ==
  LET key == Skip(piece, 1, {Blank})
      keyEnd == Stop(piece, key, {Blank})
      value == Skip(piece, keyEnd, {Blank})
      valueEnd == Stop(piece, value, {Blank, NewLine})
  IN IF value > Len(piece) THEN {}
     ELSE {[key |-> SubSeq(piece, key, keyEnd - 1),
            value |-> SubSeq(piece, value, valueEnd - 1)]}

-----------------------------------------------------------------------------
(* The storage. *)

NoPairs == [keys |-> <<>>, values |-> <<>>]

(* key_value_storage_add: the two insertions may fail one by one. *)
Inserted(store, key, value) ==
  [keys |-> Append(store.keys, key), values |-> Append(store.values, value)]

KeyInserted(store, key) == [store EXCEPT !.keys = Append(@, key)]

Matches(store, key) ==
  { i \in DOMAIN store.keys \cap DOMAIN store.values : store.keys[i] = key }

(* key_value_storage_find: the value as a set, empty if there is none. *)
Found(store, key) ==
  { store.values[i] : i \in { j \in Matches(store, key) :
                                \A k \in Matches(store, key) : j <= k } }

-----------------------------------------------------------------------------
(* What a file says, in terms of its lines. *)

LineStarts(file) == { i \in DOMAIN file : i = 1 \/ file[i - 1] = NewLine }
LineAt(file, i) == SubSeq(file, i, Stop(file, i, {NewLine}) - 1)

(* A line is its key, blanks and its value, with blanks around them and     *)
(* anything behind: the key fills a .. b, the value c .. d.                 *)
Stated(line) ==
  { [key |-> SubSeq(line, q[1], q[2]), value |-> SubSeq(line, q[3], q[4])] :
      q \in { p \in [1 .. 4 -> DOMAIN line] :
                /\ p[1] <= p[2] /\ p[2] + 1 < p[3] /\ p[3] <= p[4]
                /\ \A i \in (1 .. p[1] - 1) \cup (p[2] + 1 .. p[3] - 1) : line[i] = Blank
                /\ \A i \in (p[1] .. p[2]) \cup (p[3] .. p[4]) : line[i] # Blank
                /\ p[4] = Len(line) \/ line[p[4] + 1] = Blank } }

StatedAt(file, i) == Stated(LineAt(file, i))
KeysOf(file) == { p.key : p \in UNION { StatedAt(file, i) : i \in LineStarts(file) } }

(* What the first line with the key states, as a set. *)
FirstValue(file, key) ==
  LET with == { i \in LineStarts(file) : \E p \in StatedAt(file, i) : p.key = key }
  IN { p.value : p \in
         { q \in UNION { StatedAt(file, i) : i \in { j \in with : \A k \in with : j <= k } } :
             q.key = key } }

(* Every line fits into the buffer, and none ends in blanks. *)
Tidy(file) ==
  \A i \in LineStarts(file) :
    LET line == LineAt(file, i)
    IN Len(line) <= BufSize - 2 /\ (line = <<>> \/ line[Len(line)] # Blank)

=============================================================================
